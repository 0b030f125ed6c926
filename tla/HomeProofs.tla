----------------------------- MODULE HomeProofs -----------------------------
(***************************************************************************)
(* Machine-checked safety of a home directory. First Identity, for any     *)
(* processes, kills, power failures and repairs, on every kind of disk.    *)
(* Then RecordFiles, for any calls, names and number of retries: the       *)
(* invariant, and that the files keep the promise of RecordBook. Then the  *)
(* processes of Home, which are steps of Identity and of RecordFiles and   *)
(* inherit what is proved of either.                                       *)
(***************************************************************************)
EXTENDS Home, TLAPS

-----------------------------------------------------------------------------
(* The key file.                                                           *)

Before == {"new", "load", "read", "create", "create_plain", "write", "write_plain"}

(* The maker of a file is alone with it until it is done: create_new lets  *)
(* one process in, and nobody removes the file of a process that starts.   *)
MakerInv ==
  \A p \in Processes :
    /\ start[p] \in Creating => /\ file.there
                                /\ \A q \in Processes \ {p} : start[q] \notin Creating
    /\ start[p] \in {"write", "write_plain"} => file.key = None /\ ~file.synced
    /\ start[p] \in {"sync", "sync_plain"} => file.key = p /\ ~file.synced
    /\ start[p] \in {"chmod", "check"} => file.key = p /\ file.synced
    /\ file.key = p => start[p] \notin Before

(* What a process has seen of the file stays true while it is starting.    *)
SeenInv ==
  \A p \in Processes :
    /\ start[p] = "load" => file.there
    /\ start[p] = "read" => file.there /\ file.mode = "0600"
    /\ start[p] = "create_plain" => RefusesMode
    /\ start[p] \in Starting => identity[p] = None
    /\ start[p] = "up" => identity[p] # None

(* Whoever runs, runs with the key in the file.                            *)
AgreeInv == \A p \in Processes : start[p] = "up" => file.there /\ file.key = identity[p]

(* Only where open refuses a mode that the disk keeps does the code set    *)
(* one that a power failure can take back.                                 *)
ModeInv ==
  file.there /\ disk # "refuses" =>
    file.old = file.mode /\ (disk = "obeys" => file.mode = "0600")

(* What is certain of a key in the file that its maker has run with.       *)
HeldInv ==
  \A p \in Processes : identity[p] = p /\ file.key = p =>
    file.synced /\ (disk # "refuses" => file.mode = "0600")

KeyInv ==
  /\ IdentityTypeOK
  /\ ~file.there => file = NoFile
  /\ MakerInv
  /\ SeenInv
  /\ AgreeInv
  /\ ModeInv
  /\ HeldInv
  /\ RunsPrivately

LEMMA KeyInitInv == IdentityInit => KeyInv
BY IdentityAssumption
   DEF IdentityInit, KeyInv, IdentityTypeOK, FileState, NoFile, Mode, MakerInv, SeenInv, AgreeInv,
       ModeInv, HeldInv, RunsPrivately, StartStatus, Starting, Creating, Before

-----------------------------------------------------------------------------
(* Steps that leave the file alone.                                        *)

(* One process moves on, and the file and what runs stay.                  *)
LEMMA QuietStep ==
  ASSUME KeyInv, NEW p \in Processes, NEW to \in StartStatus,
         start' = [start EXCEPT ![p] = to],
         UNCHANGED <<identity, file, disk>>,
         to \notin Creating \cup {"up"},
         to \in Starting => start[p] \in Before \ {"write", "write_plain"},
         to = "load" => file.there,
         to = "read" => file.there /\ file.mode = "0600",
         to = "create_plain" => RefusesMode
  PROVE  KeyInv'
<1>1. /\ start'[p] = to
      /\ \A q \in Processes : q # p => start'[q] = start[q]
      /\ IdentityTypeOK'
  BY DEF KeyInv, IdentityTypeOK
<1>2. MakerInv'
  BY <1>1 DEF KeyInv, MakerInv, Before, Starting, Creating
<1>3. SeenInv'
  BY <1>1 DEF KeyInv, SeenInv, RefusesMode, Before, Starting, Creating
<1>. QED  BY <1>1, <1>2, <1>3 DEF KeyInv, AgreeInv, ModeInv, HeldInv, RunsPrivately

(* One process is up, with the key in a file of the right mode.            *)
LEMMA UpStep ==
  ASSUME KeyInv, NEW p \in Processes,
         start' = [start EXCEPT ![p] = "up"],
         identity' = [identity EXCEPT ![p] = file.key],
         UNCHANGED <<file, disk>>,
         file.there, file.mode = "0600", file.key # None,
         file.key = p => file.synced
  PROVE  KeyInv'
<1>1. /\ start'[p] = "up" /\ identity'[p] = file.key
      /\ \A q \in Processes : q # p => start'[q] = start[q] /\ identity'[q] = identity[q]
      /\ IdentityTypeOK'
  BY DEF KeyInv, IdentityTypeOK, FileState, StartStatus
<1>2. MakerInv'
  BY <1>1 DEF KeyInv, MakerInv, Before, Creating
<1>3. SeenInv' /\ AgreeInv'
  BY <1>1 DEF KeyInv, SeenInv, AgreeInv, RefusesMode, Starting, Creating
<1>4. ModeInv' /\ HeldInv' /\ RunsPrivately'
  BY <1>1 DEF KeyInv, ModeInv, HeldInv, RunsPrivately
<1>. QED  BY <1>1, <1>2, <1>3, <1>4 DEF KeyInv

LEMMA LoadKeepsInv ==
  ASSUME KeyInv, NEW p \in Processes, Looks(p) \/ LoadsMode(p) \/ LoadsKey(p) \/ LoadFails(p)
  PROVE  KeyInv'
<1>1. CASE Looks(p)
  BY <1>1, QuietStep DEF Looks, Goes, Before, StartStatus, Starting, Creating
<1>2. CASE LoadsMode(p)
  <2>1. PICK to \in {"read", "refused"} :
          /\ start[p] = "load" /\ start' = [start EXCEPT ![p] = to]
          /\ UNCHANGED <<identity, file, disk>>
          /\ to = "read" => file.there /\ file.mode = "0600"
    BY <1>2 DEF LoadsMode, Goes
  <2>. QED  BY <2>1, QuietStep DEF Before, StartStatus, Starting, Creating
<1>3. CASE LoadFails(p)
  BY <1>3, QuietStep DEF LoadFails, Goes, Before, StartStatus, Starting, Creating
<1>4. CASE LoadsKey(p)
  <2>1. CASE file.key = None
    BY <1>4, <2>1, QuietStep DEF LoadsKey, Goes, Before, StartStatus, Starting, Creating
  <2>2. CASE file.key # None
    <3>1. /\ start[p] = "read" /\ start' = [start EXCEPT ![p] = "up"]
          /\ identity' = [identity EXCEPT ![p] = file.key]
          /\ UNCHANGED <<file, disk>>
      BY <1>4, <2>2 DEF LoadsKey, Goes, RunsWith
    <3>2. file.there /\ file.mode = "0600" /\ file.key # p
      BY <3>1 DEF KeyInv, SeenInv, MakerInv, Before
    <3>. QED  BY <2>2, <3>1, <3>2, UpStep
  <2>. QED  BY <2>1, <2>2
<1>. QED  BY <1>1, <1>2, <1>3, <1>4

LEMMA EndKeepsInv ==
  ASSUME KeyInv, NEW p \in Processes, ChecksMode(p) \/ CreateFails(p) \/ IdentityDies(p)
  PROVE  KeyInv'
<1>1. CASE ChecksMode(p)
  <2>1. CASE file.mode # "0600"
    BY <1>1, <2>1, QuietStep DEF ChecksMode, Goes, StartStatus, Starting, Creating
  <2>2. CASE file.mode = "0600"
    <3>1. /\ start[p] = "check" /\ start' = [start EXCEPT ![p] = "up"]
          /\ identity' = [identity EXCEPT ![p] = p]
          /\ UNCHANGED <<file, disk>>
      BY <1>1, <2>2 DEF ChecksMode, Goes, RunsWith
    <3>2. file.there /\ file.key = p /\ file.synced
      BY <3>1 DEF KeyInv, MakerInv, Creating
    <3>. QED  BY <2>2, <3>1, <3>2, UpStep, IdentityAssumption
  <2>. QED  BY <2>1, <2>2
<1>2. CASE CreateFails(p)
  <2>1. start' = [start EXCEPT ![p] = "failed"] /\ UNCHANGED <<identity, file, disk>>
    BY <1>2 DEF CreateFails, Goes
  <2>. QED  BY <2>1, QuietStep DEF StartStatus, Starting, Creating
<1>3. CASE IdentityDies(p)
  BY <1>3, QuietStep DEF IdentityDies, StartStatus, Starting, Creating
<1>. QED  BY <1>1, <1>2, <1>3

-----------------------------------------------------------------------------
(* Steps on the file.                                                      *)

(* Where there is no file, nobody is using one.                            *)
LEMMA NoFileNoUser ==
  ASSUME KeyInv, ~file.there, NEW q \in Processes
  PROVE  start[q] \notin Creating \cup {"load", "read", "up"} /\ file.key = None
BY DEF KeyInv, MakerInv, SeenInv, AgreeInv, NoFile

LEMMA CreateKeepsInv ==
  ASSUME KeyInv, NEW p \in Processes, Creates(p) \/ CreatesPlain(p)
  PROVE  KeyInv'
<1>1. CASE Creates(p) /\ (file.there \/ RefusesMode)
  BY <1>1, QuietStep DEF Creates, Goes, Before, StartStatus, Starting, Creating
<1>2. CASE CreatesPlain(p) /\ file.there
  BY <1>2, QuietStep DEF CreatesPlain, Goes, StartStatus, Starting, Creating
<1>3. CASE ~file.there /\ ~(Creates(p) /\ RefusesMode)
  <2>1. PICK m \in Mode, to \in {"write", "write_plain"} :
          /\ start[p] \in {"create", "create_plain"}
          /\ start' = [start EXCEPT ![p] = to]
          /\ file' = NewFile(m)
          /\ UNCHANGED <<identity, disk>>
          /\ disk = "obeys" => m = "0600"
    BY <1>3 DEF Creates, CreatesPlain, Goes, Mode, KeepsMode, RefusesMode, KeyInv, SeenInv
  <2>2. file' = [there |-> TRUE, mode |-> m, old |-> m, key |-> None,
                 synced |-> FALSE, named |-> FALSE]
    BY <2>1 DEF NewFile, NoFile
  <2>3. /\ start'[p] = to
        /\ \A q \in Processes : q # p => start'[q] = start[q]
        /\ IdentityTypeOK'
    BY <2>1, <2>2 DEF KeyInv, IdentityTypeOK, FileState, StartStatus, Starting, Creating
  <2>4. MakerInv'
    BY <1>3, <2>2, <2>3, NoFileNoUser, IdentityAssumption DEF MakerInv, Creating
  <2>5. SeenInv' /\ AgreeInv' /\ RunsPrivately'
    BY <1>3, <2>1, <2>3, NoFileNoUser
       DEF KeyInv, SeenInv, AgreeInv, RunsPrivately, RefusesMode, Starting, Creating
  <2>6. ModeInv' /\ HeldInv'
    BY <2>1, <2>2, IdentityAssumption DEF ModeInv, HeldInv
  <2>. QED  BY <2>2, <2>3, <2>4, <2>5, <2>6 DEF KeyInv
<1>. QED  BY <1>1, <1>2, <1>3

(* The maker of the file goes on with it.                                  *)
LEMMA FillKeepsInv ==
  ASSUME KeyInv, NEW p \in Processes, Writes(p) \/ Syncs(p) \/ SetsMode(p)
  PROVE  KeyInv'
<1>1. PICK to \in {"sync", "sync_plain", "chmod", "check"} :
        /\ start' = [start EXCEPT ![p] = to]
        /\ UNCHANGED <<identity, disk>>
        /\ start[p] \in {"write", "write_plain", "sync", "sync_plain", "chmod"}
  BY DEF Writes, Syncs, SetsMode, Goes
<1>2. /\ start'[p] = to
      /\ \A q \in Processes : q # p => start'[q] = start[q]
      /\ start' \in [Processes -> StartStatus]
  BY <1>1 DEF KeyInv, IdentityTypeOK, StartStatus, Starting, Creating
<1>3. /\ file.there /\ identity[p] = None /\ file \in FileState
      /\ \A q \in Processes \ {p} : start[q] \notin Creating
  BY <1>1 DEF KeyInv, IdentityTypeOK, MakerInv, SeenInv, Creating, Starting
<1>4. CASE Writes(p)
  <2>1. /\ file' \in FileState /\ file'.there /\ file'.mode = file.mode
        /\ file'.old = file.old /\ file'.key = p /\ file'.synced = file.synced
    BY <1>3, <1>4 DEF Writes, FileState
  <2>2. to \in {"sync", "sync_plain"} /\ file.key = None /\ ~file.synced
    BY <1>2, <1>4 DEF Writes, Goes, KeyInv, IdentityTypeOK, MakerInv
  <2>3. MakerInv'
    BY <1>2, <1>3, <2>1, <2>2 DEF KeyInv, MakerInv, Before, Creating
  <2>4. SeenInv' /\ AgreeInv'
    BY <1>1, <1>2, <1>3, <2>1, <2>2 DEF KeyInv, SeenInv, AgreeInv, RefusesMode, Starting, Creating
  <2>5. ModeInv' /\ HeldInv' /\ RunsPrivately'
    BY <1>1, <1>2, <1>3, <2>1, IdentityAssumption DEF KeyInv, ModeInv, HeldInv, RunsPrivately
  <2>. QED  BY <1>1, <1>2, <2>1, <2>3, <2>4, <2>5 DEF KeyInv, IdentityTypeOK
<1>5. CASE Syncs(p)
  <2>1. /\ file' \in FileState /\ file'.there /\ file'.mode = file.mode
        /\ file'.old = file.mode /\ file'.key = file.key /\ file'.synced
    BY <1>3, <1>5 DEF Syncs, FileState
  <2>2. to \in {"chmod", "check"} /\ file.key = p
    BY <1>2, <1>5 DEF Syncs, Goes, KeyInv, IdentityTypeOK, MakerInv
  <2>3. MakerInv'
    BY <1>1, <1>2, <1>3, <2>1, <2>2 DEF KeyInv, MakerInv, Before, Creating
  <2>4. SeenInv' /\ AgreeInv'
    BY <1>1, <1>2, <1>3, <2>1, <2>2 DEF KeyInv, SeenInv, AgreeInv, RefusesMode, Starting, Creating
  <2>5. ModeInv' /\ HeldInv' /\ RunsPrivately'
    BY <1>1, <1>2, <1>3, <2>1 DEF KeyInv, ModeInv, HeldInv, RunsPrivately
  <2>. QED  BY <1>1, <1>2, <2>1, <2>3, <2>4, <2>5 DEF KeyInv, IdentityTypeOK
<1>6. CASE SetsMode(p)
  <2>1. /\ file' \in FileState /\ file'.there /\ file'.old = file.old
        /\ file'.mode = IF KeepsMode THEN "0600" ELSE file.mode
        /\ file'.key = file.key /\ file'.synced = file.synced
    BY <1>3, <1>6 DEF SetsMode, FileState, Mode
  <2>2. to = "check" /\ file.key = p /\ file.synced
    BY <1>2, <1>6 DEF SetsMode, Goes, KeyInv, IdentityTypeOK, MakerInv
  <2>3. MakerInv'
    BY <1>1, <1>2, <1>3, <2>1, <2>2 DEF KeyInv, MakerInv, Before, Creating
  <2>4. SeenInv' /\ AgreeInv'
    BY <1>1, <1>2, <1>3, <2>1, <2>2 DEF KeyInv, SeenInv, AgreeInv, RefusesMode, Starting, Creating
  <2>5. ModeInv' /\ HeldInv' /\ RunsPrivately'
    BY <1>1, <1>2, <1>3, <2>1 DEF KeyInv, ModeInv, HeldInv, RunsPrivately, KeepsMode
  <2>. QED  BY <1>1, <1>2, <2>1, <2>3, <2>4, <2>5 DEF KeyInv, IdentityTypeOK
<1>. QED  BY <1>4, <1>5, <1>6

LEMMA OutsideKeepsInv ==
  ASSUME KeyInv, PowerFails \/ Repairs
  PROVE  KeyInv'
<1>1. CASE PowerFails
  <2>1. /\ start' \in [Processes -> {"new", "refused", "failed", "killed"}]
        /\ \A p \in Processes : start'[p] \in {start[p], "killed"}
        /\ UNCHANGED <<identity, disk>>
    BY <1>1 DEF PowerFails
  <2>2. /\ file' \in FileState /\ file'.key \in {file.key, None}
        /\ \/ file' = NoFile
           \/ file.there /\ file'.there /\ file'.synced /\ file'.old = file'.mode
              /\ file'.mode \in {file.mode, file.old}
    <3>1. CASE file' = NoFile
      BY <3>1 DEF NoFile, FileState, Mode
    <3>2. CASE file' # NoFile
      <4>1. PICK m \in {file.mode, file.old}, k \in {file.key, None} :
              /\ file.there
              /\ file' = [there |-> TRUE, mode |-> m, old |-> m, key |-> k,
                          synced |-> TRUE, named |-> TRUE]
        BY <1>1, <3>2 DEF PowerFails
      <4>2. m \in Mode /\ k \in Processes \cup {None}
        BY DEF KeyInv, IdentityTypeOK, FileState
      <4>. QED  BY <4>1, <4>2 DEF FileState
    <3>. QED  BY <3>1, <3>2
  <2>3. IdentityTypeOK' /\ (~file.there => file = NoFile)'
    BY <2>1, <2>2 DEF KeyInv, IdentityTypeOK, StartStatus, Starting
  <2>4. MakerInv' /\ SeenInv' /\ AgreeInv' /\ RunsPrivately'
    BY <2>1, <2>2, IdentityAssumption
       DEF KeyInv, MakerInv, SeenInv, AgreeInv, RunsPrivately, RefusesMode, Creating, Starting, Before
  <2>5. ModeInv'
    BY <2>1, <2>2 DEF KeyInv, ModeInv, NoFile
  <2>6. HeldInv'
    BY <2>1, <2>2, IdentityAssumption DEF KeyInv, ModeInv, HeldInv, NoFile
  <2>. QED  BY <2>3, <2>4, <2>5, <2>6 DEF KeyInv
<1>2. CASE Repairs
  <2>1. /\ \A p \in Processes : start[p] \notin Starting \ {"new"}
        /\ UNCHANGED <<start, identity, disk>>
    BY <1>2 DEF Repairs
  <2>2. CASE file.there /\ file.key = None /\ file' = NoFile
    <3>1. file' \in FileState /\ file'.key = None /\ ~file'.there
      BY <2>2 DEF NoFile, FileState, Mode
    <3>2. \A p \in Processes : start[p] # "up"
      BY <2>2 DEF KeyInv, AgreeInv, SeenInv
    <3>. QED  BY <2>1, <2>2, <3>1, <3>2, IdentityAssumption
              DEF KeyInv, IdentityTypeOK, MakerInv, SeenInv, AgreeInv, ModeInv, HeldInv,
                  RunsPrivately, RefusesMode, Creating, Starting
  <2>3. CASE file.there /\ KeepsMode /\ file.mode # "0600" /\ file' = [file EXCEPT !.mode = "0600"]
    <3>1. /\ file' \in FileState /\ file'.key = file.key /\ file'.there /\ file'.mode = "0600"
          /\ file'.synced = file.synced
      BY <2>3 DEF KeyInv, IdentityTypeOK, FileState, Mode
    <3>2. disk = "refuses"
      BY <2>3 DEF KeyInv, ModeInv, KeepsMode
    <3>. QED  BY <2>1, <3>1, <3>2
              DEF KeyInv, IdentityTypeOK, MakerInv, SeenInv, AgreeInv, ModeInv, HeldInv,
                  RunsPrivately, RefusesMode, Creating, Starting
  <2>. QED  BY <1>2, <2>2, <2>3 DEF Repairs
<1>. QED  BY <1>1, <1>2

LEMMA Invariance == IdentitySpec => []KeyInv
<1>1. KeyInv /\ [IdentityNext]_identity_vars => KeyInv'
  <2>. SUFFICES ASSUME KeyInv, [IdentityNext]_identity_vars PROVE KeyInv'
    OBVIOUS
  <2>1. ASSUME NEW p \in Processes, IdentityStep(p) \/ IdentityDies(p) PROVE KeyInv'
    BY <2>1, LoadKeepsInv, EndKeepsInv, CreateKeepsInv, FillKeepsInv DEF IdentityStep
  <2>2. CASE UNCHANGED identity_vars
    BY <2>2 DEF identity_vars, KeyInv, IdentityTypeOK, MakerInv, SeenInv, KeyOnDisk,
                AgreeInv, ModeInv, HeldInv, RunsPrivately, RefusesMode
  <2>. QED  BY <2>1, <2>2, OutsideKeepsInv DEF IdentityNext
<1>. QED  BY KeyInitInv, <1>1, PTL DEF IdentitySpec

-----------------------------------------------------------------------------
(* Results.                                                                *)

(* Processes and key file keep their types.                                *)
THEOREM IdentityTyped == IdentitySpec => []IdentityTypeOK
<1>1. KeyInv => IdentityTypeOK
  BY DEF KeyInv
<1>. QED  BY Invariance, <1>1, PTL

(* With any number of processes in load_or_create_at: who runs, runs with  *)
(* the key in the file; and a key its maker has run with stays there,      *)
(* whatever is killed, until a power failure takes the whole file.         *)
THEOREM KeyStays == IdentitySpec => KeyOnDisk
<1>1. ASSUME KeyInv, KeyInv', [IdentityNext]_identity_vars, NEW p \in Processes
      PROVE  /\ start'[p] = "up" => file'.there /\ file'.key = identity'[p]
             /\ identity[p] = p /\ file.key = p /\ file'.key # p =>
                   file' = NoFile
                   /\ \A q \in Processes : start'[q] \notin (Starting \ {"new"}) \cup {"up"}
  <2>1. start'[p] = "up" => file'.there /\ file'.key = identity'[p]
    BY <1>1 DEF KeyInv, AgreeInv
  <2>2. ASSUME identity[p] = p, file.key = p, file'.key # p
        PROVE  file' = NoFile
               /\ \A q \in Processes : start'[q] \notin (Starting \ {"new"}) \cup {"up"}
    <3>1. file.there /\ file.synced /\ file.key # None /\ file \in FileState
      BY <1>1, <2>2, IdentityAssumption DEF KeyInv, HeldInv, IdentityTypeOK, NoFile
    <3>2. ASSUME NEW q \in Processes, IdentityStep(q) \/ IdentityDies(q) PROVE FALSE
      <4>1. ~Writes(q)
        BY <1>1, <3>1 DEF Writes, Goes, KeyInv, MakerInv
      <4>. QED  BY <2>2, <3>1, <3>2, <4>1
                DEF IdentityStep, Looks, LoadsMode, LoadsKey, LoadFails, Creates, CreatesPlain, Syncs,
                    SetsMode, ChecksMode, CreateFails, IdentityDies, FileState
    <3>3. CASE Repairs \/ UNCHANGED identity_vars
      BY <2>2, <3>1, <3>3 DEF Repairs, identity_vars, FileState
    <3>4. CASE PowerFails
      <4>1. file' = NoFile
        BY <2>2, <3>1, <3>4 DEF PowerFails
      <4>2. \A q \in Processes : start'[q] \in {"new", "refused", "failed", "killed"}
        BY <3>4 DEF PowerFails
      <4>. QED  BY <4>1, <4>2 DEF Starting, Creating
    <3>. QED  BY <1>1, <3>2, <3>3, <3>4 DEF IdentityNext
  <2>. QED  BY <2>1, <2>2
<1>2. KeyInv /\ KeyInv' /\ [IdentityNext]_identity_vars => [KeyStaysWhole]_identity_vars
  BY <1>1 DEF KeyStaysWhole
<1>. QED  BY Invariance, <1>2, PTL DEF IdentitySpec, KeyOnDisk

(* No process runs with a key file of another mode than 0600.              *)
THEOREM NoOpenKey == IdentitySpec => []RunsPrivately
<1>1. KeyInv => RunsPrivately
  BY DEF KeyInv
<1>. QED  BY Invariance, <1>1, PTL

(* Once the key's maker has started, load_at turns nobody away, except for *)
(* a mode that was set after open had refused it and that a power failure  *)
(* took back before anybody else started.                                  *)
THEOREM NobodyTurnedAway == IdentitySpec => StartsWithKey
<1>1. ASSUME KeyInv, [IdentityNext]_identity_vars, NEW p \in Processes, NEW q \in Processes,
             start'[p] = "refused", start[p] # "refused", identity[q] = q, file.key = q
      PROVE  /\ start[p] = "load" /\ disk = "refuses"
             /\ \A r \in Processes : start[r] # "up"
  <2>1. /\ start \in [Processes -> StartStatus] /\ file.key # None
        /\ start[q] \notin Starting
    BY <1>1, IdentityAssumption DEF KeyInv, IdentityTypeOK, SeenInv
  <2>2. ASSUME NEW r \in Processes, IdentityStep(r) \/ IdentityDies(r)
        PROVE  LoadsMode(p) \/ LoadsKey(p) \/ ChecksMode(p)
    BY <1>1, <2>1, <2>2
       DEF IdentityStep, Looks, LoadsMode, LoadsKey, LoadFails, Creates, CreatesPlain, Writes, Syncs,
           SetsMode, ChecksMode, CreateFails, IdentityDies, Goes
  <2>3. CASE PowerFails \/ Repairs \/ UNCHANGED identity_vars
    BY <1>1, <2>1, <2>3 DEF PowerFails, Repairs, identity_vars
  <2>4. ~LoadsKey(p)
    BY <1>1, <2>1 DEF LoadsKey, Goes
  <2>5. ~ChecksMode(p)
    BY <1>1, <2>1 DEF ChecksMode, Goes, KeyInv, MakerInv, Starting, Creating
  <2>6. ASSUME LoadsMode(p)
        PROVE  start[p] = "load" /\ file.there /\ file.mode # "0600"
    BY <1>1, <2>1, <2>6 DEF LoadsMode, Goes
  <2>7. ASSUME file.there, file.mode # "0600"
        PROVE  disk = "refuses" /\ \A r \in Processes : start[r] # "up"
    BY <1>1, <2>7 DEF KeyInv, HeldInv, RunsPrivately
  <2>. QED  BY <1>1, <2>2, <2>3, <2>4, <2>5, <2>6, <2>7 DEF IdentityNext
<1>2. KeyInv /\ [IdentityNext]_identity_vars => [NotTurnedAway]_identity_vars
  BY <1>1 DEF NotTurnedAway
<1>. QED  BY Invariance, <1>2, PTL DEF IdentitySpec, StartsWithKey

-----------------------------------------------------------------------------
(* The record files.                                                       *)

(* A file is found under its maker's present name, whose task is past      *)
(* naming; it is whole only for a task that has finished.                  *)
FileInv ==
  \A n \in DOMAIN files :
    /\ n = candidate(files[n].call)
    /\ task[files[n].call] \notin {"call", "naming"}
    /\ files[n].part = "whole" => task[files[n].call] = "written"

(* The names before the present one are taken.                             *)
TriedInv ==
  \A c \in Calls : task[c] = "naming" =>
    \A k \in 0 .. (attempts[c] - 1) : Taken(<<Stem[c], k>>)

UntriedInv == \A c \in Calls : task[c] = "call" => attempts[c] = 0

RecordInv == RecordTypeOK /\ OwnFile /\ FileInv /\ TriedInv /\ UntriedInv

LEMMA RecordInitInv == RecordInit => RecordInv
BY RecordAssumption
   DEF RecordInit, RecordInv, RecordTypeOK, OwnFile, FileInv, TriedInv, UntriedInv, TaskStatus, Going

-----------------------------------------------------------------------------
(* Every step moves some tasks and leaves the directory, adds a file,      *)
(* changes the part of one, or takes files away.                           *)

(* A task that does not touch the directory.                               *)
LEMMA QuietKeepsInv ==
  ASSUME RecordInv, NEW c \in Calls,
         Emits(c) \/ OutOfNames(c) \/ OpenFails(c) \/ NewlineFails(c)
  PROVE  RecordInv'
<1>1. PICK to \in {"naming", "lost", "crowded"} :
         /\ UNCHANGED <<attempts, files>>
         /\ task[c] \in {"call", "naming", "closing"}
         /\ to = "naming" => task[c] = "call"
         /\ task' = [task EXCEPT ![c] = to]
  BY DEF Emits, OutOfNames, OpenFails, NewlineFails, Steps
<1>2. RecordTypeOK'
  BY <1>1 DEF RecordInv, RecordTypeOK, TaskStatus, Going, Name
<1>3. /\ task'[c] = to
      /\ \A d \in Calls : d # c => task'[d] = task[d]
  BY <1>1 DEF RecordInv, RecordTypeOK
<1>4. OwnFile'
  BY <1>1, <1>3 DEF RecordInv, OwnFile, candidate, Taken
<1>5. FileInv'
  BY <1>1, <1>3 DEF RecordInv, RecordTypeOK, FileInv, candidate
<1>6. TriedInv'
  <2>1. ASSUME to = "naming" PROVE attempts[c] = 0
    BY <1>1, <2>1 DEF RecordInv, UntriedInv
  <2>. QED  BY <1>1, <1>3, <2>1 DEF RecordInv, TriedInv, Taken
<1>. QED  BY <1>1, <1>2, <1>3, <1>4, <1>5, <1>6 DEF RecordInv, UntriedInv

(* AlreadyExists.                                                          *)
LEMMA NameKeepsInv ==
  ASSUME RecordInv, NEW c \in Calls, NextName(c)
  PROVE  RecordInv'
<1>1. /\ task[c] = "naming" /\ Taken(candidate(c)) /\ UNCHANGED <<task, files>>
      /\ attempts[c] < MaxAttempts /\ attempts' = [attempts EXCEPT ![c] = @ + 1]
      /\ attempts \in [Calls -> 0 .. MaxAttempts] /\ MaxAttempts \in Nat
  BY RecordAssumption DEF NextName, RecordInv, RecordTypeOK
<1>2. RecordTypeOK'
  BY <1>1 DEF RecordInv, RecordTypeOK, Name
<1>3. /\ attempts'[c] = attempts[c] + 1
      /\ \A d \in Calls : d # c => attempts'[d] = attempts[d]
  BY <1>1
<1>4. OwnFile'
  BY <1>1, <1>3 DEF RecordInv, OwnFile, candidate, Taken
<1>5. FileInv'
  BY <1>1, <1>3 DEF RecordInv, RecordTypeOK, FileInv, candidate
<1>6. TriedInv'
  <2>1. ASSUME NEW k \in 0 .. (attempts'[c] - 1) PROVE Taken(<<Stem[c], k>>)
    <3>1. k = attempts[c] \/ k \in 0 .. (attempts[c] - 1)
      BY <1>1, <1>3
    <3>. QED  BY <1>1, <3>1 DEF RecordInv, TriedInv, candidate
  <2>. QED  BY <1>1, <1>3, <2>1 DEF RecordInv, TriedInv, Taken
<1>7. \A d \in Calls : task'[d] = "call" => attempts'[d] = 0
  BY <1>1, <1>3 DEF RecordInv, UntriedInv
<1>. QED  BY <1>2, <1>4, <1>5, <1>6, <1>7 DEF RecordInv, UntriedInv

(* create_new has made a file.                                             *)
LEMMA TakeKeepsInv ==
  ASSUME RecordInv, NEW c \in Calls, TakesName(c)
  PROVE  RecordInv'
<1>. DEFINE n0 == candidate(c)
<1>1. /\ task[c] = "naming" /\ task' = [task EXCEPT ![c] = "filling"]
      /\ n0 \notin DOMAIN files /\ UNCHANGED attempts
      /\ files' = [n \in DOMAIN files \cup {n0} |->
                     IF n = n0 THEN [call |-> c, part |-> "empty"] ELSE files[n]]
  BY DEF TakesName, Steps, Taken
<1>2. n0 \in Name
  BY DEF RecordInv, RecordTypeOK, candidate, Name
<1>3. /\ DOMAIN files' = DOMAIN files \cup {n0}
      /\ files'[n0] = [call |-> c, part |-> "empty"]
      /\ \A n \in DOMAIN files : files'[n] = files[n]
      /\ task'[c] = "filling"
      /\ \A d \in Calls : d # c => task'[d] = task[d]
  BY <1>1 DEF RecordInv, RecordTypeOK
<1>4. RecordTypeOK'
  <2>1. task' \in [Calls -> TaskStatus]
    BY <1>1 DEF RecordInv, RecordTypeOK, TaskStatus, Going
  <2>2. DOMAIN files' \subseteq Name
    BY <1>2, <1>3 DEF RecordInv, RecordTypeOK
  <2>3. \A n \in DOMAIN files' : files'[n] \in [call : Calls, part : Part]
    BY <1>3 DEF RecordInv, RecordTypeOK, Part
  <2>. QED  BY <1>1, <2>1, <2>2, <2>3 DEF RecordInv, RecordTypeOK, Name
<1>5. \A n \in DOMAIN files : files[n].call # c
  BY <1>1 DEF RecordInv, FileInv
<1>6. OwnFile'
  BY <1>1, <1>3 DEF RecordInv, OwnFile, candidate, Taken
<1>7. FileInv'
  <2>1. \A n \in DOMAIN files : files[n].call \in Calls /\ files[n].call # c
    BY <1>5 DEF RecordInv, RecordTypeOK
  <2>2. ASSUME NEW n \in DOMAIN files
        PROVE  /\ n = <<Stem[files'[n].call], attempts'[files'[n].call]>>
               /\ task'[files'[n].call] \notin {"call", "naming"}
               /\ files'[n].part = "whole" => task'[files'[n].call] = "written"
    BY <1>1, <1>3, <2>1, <2>2 DEF RecordInv, FileInv, candidate
  <2>3. files'[n0].call = c /\ files'[n0].part = "empty" /\ n0 = <<Stem[c], attempts'[c]>>
    BY <1>1, <1>3 DEF candidate
  <2>. QED  BY <1>3, <2>2, <2>3 DEF FileInv, candidate
<1>8. TriedInv'
  BY <1>1, <1>3 DEF RecordInv, TriedInv, Taken
<1>. QED  BY <1>1, <1>3, <1>4, <1>6, <1>7, <1>8 DEF RecordInv, UntriedInv

(* A task writes to its own file.                                          *)
LEMMA FillKeepsRecordInv ==
  ASSUME RecordInv, NEW c \in Calls, WritesBody(c) \/ BodyFails(c) \/ WritesNewline(c)
  PROVE  RecordInv'
<1>. DEFINE n0 == candidate(c)
<1>1. PICK to \in {"closing", "lost", "written"}, part \in Part :
         /\ task[c] \in {"filling", "closing"} /\ task' = [task EXCEPT ![c] = to]
         /\ files' = [files EXCEPT ![n0].part = part] /\ UNCHANGED attempts
         /\ to = "closing" => part = "body"
         /\ part = "whole" => to = "written"
  BY DEF WritesBody, BodyFails, WritesNewline, Fills, Steps, Part
<1>2. n0 \in DOMAIN files /\ files[n0].call = c
  BY <1>1 DEF RecordInv, OwnFile, Taken
<1>3. /\ DOMAIN files' = DOMAIN files
      /\ files'[n0] = [call |-> c, part |-> part]
      /\ \A n \in DOMAIN files : n # n0 => files'[n] = files[n]
  BY <1>1, <1>2 DEF RecordInv, RecordTypeOK
<1>4. /\ task'[c] = to
      /\ \A d \in Calls : d # c => task'[d] = task[d]
  BY <1>1 DEF RecordInv, RecordTypeOK
<1>5. RecordTypeOK'
  <2>1. task' \in [Calls -> TaskStatus]
    BY <1>1 DEF RecordInv, RecordTypeOK, TaskStatus, Going
  <2>2. \A n \in DOMAIN files' : files'[n] \in [call : Calls, part : Part]
    BY <1>3 DEF RecordInv, RecordTypeOK
  <2>. QED  BY <1>1, <1>3, <2>1, <2>2 DEF RecordInv, RecordTypeOK, Name
<1>6. \A n \in DOMAIN files : n # n0 => files[n].call # c
  BY DEF RecordInv, FileInv
<1>7. OwnFile'
  <2>1. ASSUME NEW d \in Calls, d # c, task'[d] \in {"filling", "closing"}
        PROVE  candidate(d) \in DOMAIN files /\ candidate(d) # n0
    <3>1. candidate(d) \in DOMAIN files /\ files[candidate(d)].call = d
      BY <1>4, <2>1 DEF RecordInv, OwnFile, Taken
    <3>. QED  BY <1>2, <2>1, <3>1
  <2>2. task'[c] \in {"filling", "closing"} => task'[c] = "closing" /\ part = "body"
    BY <1>1, <1>4
  <2>3. \A d \in Calls : <<Stem[d], attempts'[d]>> = candidate(d)
    BY <1>1 DEF candidate
  <2>4. ASSUME NEW d \in Calls, task'[d] \in {"filling", "closing"}
        PROVE  /\ candidate(d) \in DOMAIN files' /\ files'[candidate(d)].call = d
               /\ files'[candidate(d)].part = IF task'[d] = "filling" THEN "empty" ELSE "body"
    <3>1. CASE d = c
      BY <1>2, <1>3, <2>2, <2>4, <3>1
    <3>2. CASE d # c
      BY <1>3, <1>4, <2>1, <2>4, <3>2 DEF RecordInv, OwnFile
    <3>. QED  BY <3>1, <3>2
  <2>. QED  BY <2>3, <2>4 DEF OwnFile, candidate, Taken
<1>8. FileInv'
  BY <1>1, <1>2, <1>3, <1>4, <1>6 DEF RecordInv, RecordTypeOK, FileInv, candidate
<1>9. TriedInv'
  BY <1>1, <1>3, <1>4 DEF RecordInv, TriedInv, Taken
<1>. QED  BY <1>1, <1>4, <1>5, <1>7, <1>8, <1>9 DEF RecordInv, UntriedInv

(* Processes die, and files may vanish with the machine.                   *)
LEMMA EndingKeepsInv ==
  ASSUME RecordInv, (\E C \in SUBSET Calls : RecordsDie(C)) \/ RecordsVanish
  PROVE  RecordInv'
<1>1. /\ task' \in [Calls -> TaskStatus] /\ UNCHANGED attempts
      /\ \A c \in Calls : task'[c] = task[c] \/ (task[c] \in Going /\ task'[c] = "lost")
      /\ files' # files => \A c \in Calls : task'[c] \notin Going
  <2>1. \A c \in Calls : task[c] \in TaskStatus
    BY DEF RecordInv, RecordTypeOK
  <2>2. "lost" \in TaskStatus /\ "lost" \notin Going
    BY DEF TaskStatus, Going
  <2>3. CASE RecordsVanish
    BY <2>1, <2>2, <2>3 DEF RecordsVanish
  <2>4. ASSUME NEW C \in SUBSET Calls, RecordsDie(C)
        PROVE  /\ task' \in [Calls -> TaskStatus] /\ UNCHANGED <<attempts, files>>
               /\ \A c \in Calls : task'[c] = task[c] \/ (task[c] \in Going /\ task'[c] = "lost")
    BY <2>1, <2>2, <2>4 DEF RecordsDie
  <2>. QED  BY <2>3, <2>4
<1>2. /\ DOMAIN files' \subseteq DOMAIN files
      /\ \A n \in DOMAIN files' : /\ files'[n] \in [call : Calls, part : Part]
                                  /\ files'[n].call = files[n].call
                                  /\ files'[n].part \in {files[n].part, "torn"}
                                  /\ files' = files => files'[n] = files[n]
  <2>1. \A n \in DOMAIN files : files[n] \in [call : Calls, part : Part]
    BY DEF RecordInv, RecordTypeOK
  <2>2. CASE files' = files
    BY <2>1, <2>2
  <2>3. CASE files' # files
    <3>0. RecordsVanish
      <4>1. ~(\E C \in SUBSET Calls : RecordsDie(C))
        BY <2>3 DEF RecordsDie
      <4>. QED  BY <4>1
    <3>1. PICK names \in SUBSET DOMAIN files : \E left \in SUBSET (names \cap whole) :
            files' = [n \in names |-> [files[n] EXCEPT !.part = IF n \in left THEN @ ELSE "torn"]]
      BY <3>0 DEF RecordsVanish
    <3>3. PICK left \in SUBSET (names \cap whole) :
            files' = [n \in names |-> [files[n] EXCEPT !.part = IF n \in left THEN @ ELSE "torn"]]
      BY <3>1
    <3>2. "torn" \in Part
      BY DEF Part
    <3>. QED  BY <2>1, <2>3, <3>2, <3>3
  <2>. QED  BY <2>2, <2>3
<1>3. RecordTypeOK'
  <2>1. DOMAIN files' \subseteq Name /\ attempts' \in [Calls -> 0 .. MaxAttempts]
    BY <1>1, <1>2 DEF RecordInv, RecordTypeOK
  <2>2. \A n \in DOMAIN files' : files'[n] \in [call : Calls, part : Part]
    BY <1>2
  <2>. QED  BY <1>1, <2>1, <2>2 DEF RecordTypeOK
<1>4. FileInv'
  <2>. SUFFICES ASSUME NEW n \in DOMAIN files'
                PROVE  (/\ n = candidate(files[n].call)
                        /\ task[files[n].call] \notin {"call", "naming"}
                        /\ files[n].part = "whole" => task[files[n].call] = "written")'
    BY DEF FileInv
  <2>1. /\ n \in DOMAIN files /\ files'[n].call = files[n].call
        /\ files'[n].part \in {files[n].part, "torn"} /\ files'[n].call \in Calls
    BY <1>2
  <2>2. /\ n = candidate(files[n].call) /\ task[files[n].call] \notin {"call", "naming"}
        /\ files[n].part = "whole" => task[files[n].call] = "written"
    BY <2>1 DEF RecordInv, FileInv
  <2>3. /\ task'[files[n].call] \notin {"call", "naming"}
        /\ task[files[n].call] = "written" => task'[files[n].call] = "written"
    BY <1>1, <2>1, <2>2 DEF Going
  <2>4. (n = candidate(files[n].call))'
    BY <1>1, <2>1, <2>2 DEF candidate
  <2>. QED  BY <2>1, <2>2, <2>3, <2>4
<1>5. OwnFile' /\ TriedInv'
  BY <1>1, <1>2 DEF RecordInv, OwnFile, TriedInv, candidate, Taken, Going
<1>. QED  BY <1>1, <1>3, <1>4, <1>5 DEF RecordInv, UntriedInv

LEMMA RecordInvariance == RecordSpec => []RecordInv
<1>1. RecordInv /\ [RecordNext]_record_vars => RecordInv'
  <2>. SUFFICES ASSUME RecordInv, [RecordNext]_record_vars PROVE RecordInv'
    OBVIOUS
  <2>1. ASSUME NEW c \in Calls, RecordStep(c) PROVE RecordInv'
    BY <2>1, QuietKeepsInv, NameKeepsInv, TakeKeepsInv, FillKeepsRecordInv
       DEF RecordStep, GoesOn, Fails
  <2>2. CASE UNCHANGED record_vars
    BY <2>2 DEF record_vars, RecordInv, RecordTypeOK, OwnFile, FileInv, TriedInv, UntriedInv,
                candidate, Taken, Name
  <2>. QED  BY <2>1, <2>2, EndingKeepsInv DEF RecordNext
<1>. QED  BY RecordInitInv, <1>1, PTL DEF RecordSpec

-----------------------------------------------------------------------------
(* Results on the files.                                                   *)

(* Tasks and directory keep their types.                                   *)
THEOREM RecordTyped == RecordSpec => []RecordTypeOK
<1>1. RecordInv => RecordTypeOK
  BY DEF RecordInv
<1>. QED  BY RecordInvariance, <1>1, PTL

(* write_record_json makes one file for a record, whole when it is done.   *)
THEOREM OneFile == RecordSpec => []OneFileEach
<1>1. RecordInv => OneFileEach
  BY DEF RecordInv, FileInv, OneFileEach
<1>. QED  BY RecordInvariance, <1>1, PTL

(* A record is lost for want of a name only when all names are taken.      *)
THEOREM CrowdedOut == RecordSpec => CrowdedOutOnly
<1>1. ASSUME RecordInv, RecordNext, NEW c \in Calls,
             task[c] # "crowded", task'[c] = "crowded"
      PROVE  \A k \in 0 .. MaxAttempts : Taken(<<Stem[c], k>>)
  <2>1. OutOfNames(c)
    <3>1. ASSUME NEW d \in Calls, RecordStep(d) PROVE OutOfNames(c)
      <4>1. d = c
        BY <1>1, <3>1
           DEF RecordStep, Emits, GoesOn, Fails, TakesName, NextName, OutOfNames, OpenFails,
               WritesBody, BodyFails, WritesNewline, NewlineFails, Steps, RecordInv, RecordTypeOK
      <4>. QED
        BY <1>1, <3>1, <4>1
           DEF RecordStep, Emits, GoesOn, Fails, TakesName, NextName, OpenFails,
               WritesBody, BodyFails, WritesNewline, NewlineFails, Steps, RecordInv, RecordTypeOK
    <3>2. ~RecordsVanish /\ ~\E C \in SUBSET Calls : RecordsDie(C)
      BY <1>1 DEF RecordsDie, RecordsVanish
    <3>. QED  BY <1>1, <3>1, <3>2 DEF RecordNext
  <2>2. /\ task[c] = "naming" /\ Taken(<<Stem[c], attempts[c]>>)
        /\ attempts[c] >= MaxAttempts /\ attempts[c] \in 0 .. MaxAttempts /\ MaxAttempts \in Nat
    BY <1>1, <2>1, RecordAssumption DEF OutOfNames, Steps, candidate, RecordInv, RecordTypeOK
  <2>3. ASSUME NEW k \in 0 .. MaxAttempts PROVE k = attempts[c] \/ k \in 0 .. (attempts[c] - 1)
    BY <2>2
  <2>. QED  BY <1>1, <2>2, <2>3 DEF RecordInv, TriedInv
<1>2. RecordInv /\ [RecordNext]_record_vars => [AllTaken]_record_vars
  BY <1>1 DEF AllTaken
<1>. QED  BY RecordInvariance, <1>2, PTL DEF RecordSpec, CrowdedOutOnly

-----------------------------------------------------------------------------
(* The files keep the promise of RecordBook.                               *)

Final == {"written", "lost", "crowded"}

(* A step that makes no file whole and takes none away keeps the same      *)
(* records, and a record that is missed stays missed.                      *)
LEMMA MissOrStutter ==
  ASSUME RecordInv, RecordInv', UNCHANGED kept,
         \A c \in Calls : task[c] \in Final => task'[c] = task[c]
  PROVE  Book!Miss
<1>1. \A c \in kept' : task'[c] = "written"
  BY DEF RecordInv, FileInv, kept
<1>2. missed' \subseteq Calls \ kept'
  BY <1>1 DEF missed
<1>3. missed \subseteq missed'
  BY DEF missed, Final
<1>. QED  BY <1>2, <1>3 DEF Book!Miss

LEMMA StepKeepsBook ==
  ASSUME RecordInv, RecordInv', NEW c \in Calls, RecordStep(c)
  PROVE  [Book!Next]_(Book!book)
<1>1. /\ task \in [Calls -> TaskStatus] /\ task[c] \notin Final
      /\ \E to \in TaskStatus : task' = [task EXCEPT ![c] = to]
  BY DEF RecordStep, Emits, GoesOn, Fails, TakesName, NextName, OutOfNames, OpenFails,
         WritesBody, BodyFails, WritesNewline, NewlineFails, Steps, RecordInv, RecordTypeOK,
         Final, TaskStatus, Going
<1>2. \A d \in Calls : d # c => task'[d] = task[d]
  BY <1>1
<1>3. CASE WritesNewline(c)
  <2>. DEFINE n0 == candidate(c)
  <2>1. n0 \in DOMAIN files /\ files[n0].call = c /\ files[n0].part = "body"
    BY <1>3 DEF WritesNewline, Steps, RecordInv, OwnFile, Taken
  <2>2. /\ DOMAIN files' = DOMAIN files
        /\ files'[n0] = [call |-> c, part |-> "whole"]
        /\ \A n \in DOMAIN files : n # n0 => files'[n] = files[n]
    BY <1>3, <2>1 DEF WritesNewline, Fills, RecordInv, RecordTypeOK
  <2>3. kept' = kept \cup {c}
    <3>1. ASSUME NEW d \in kept PROVE d \in kept'
      <4>1. PICK n \in DOMAIN files : files[n] = [call |-> d, part |-> "whole"]
        BY <3>1 DEF kept
      <4>2. n # n0
        BY <2>1, <4>1
      <4>. QED  BY <2>2, <3>1, <4>1, <4>2 DEF kept
    <3>2. c \in kept'
      BY <2>2, <2>1 DEF kept
    <3>3. ASSUME NEW d \in kept', d # c PROVE d \in kept
      <4>1. PICK n \in DOMAIN files' : files'[n] = [call |-> d, part |-> "whole"]
        BY <3>3 DEF kept
      <4>2. n # n0
        BY <2>2, <3>3, <4>1
      <4>. QED  BY <2>2, <3>3, <4>1, <4>2 DEF kept
    <3>. QED  BY <3>1, <3>2, <3>3
  <2>4. task[c] = "closing" /\ task'[c] = "written"
    BY <1>1, <1>3 DEF WritesNewline, Steps
  <2>5. c \notin kept
    BY <2>4 DEF kept, RecordInv, FileInv
  <2>6. missed' = missed /\ c \notin missed
    BY <1>2, <2>3, <2>4 DEF missed
  <2>. QED  BY <2>3, <2>5, <2>6 DEF Book!Next, Book!Keep
<1>4. CASE ~WritesNewline(c)
  <2>1. UNCHANGED kept
    <3>1. CASE TakesName(c)
      <4>1. /\ candidate(c) \notin DOMAIN files
            /\ DOMAIN files' = DOMAIN files \cup {candidate(c)}
            /\ files'[candidate(c)].part = "empty"
            /\ \A n \in DOMAIN files : files'[n] = files[n]
        BY <3>1 DEF TakesName, Taken
      <4>. QED  BY <4>1 DEF kept
    <3>2. CASE WritesBody(c) \/ BodyFails(c)
      <4>1. PICK part \in {"body", "torn"} : files' = [files EXCEPT ![candidate(c)].part = part]
        BY <3>2 DEF WritesBody, BodyFails, Fills
      <4>2. /\ candidate(c) \in DOMAIN files
            /\ files[candidate(c)].part = "empty"
        BY <3>2 DEF WritesBody, BodyFails, Steps, RecordInv, OwnFile, Taken
      <4>3. /\ DOMAIN files' = DOMAIN files
            /\ files'[candidate(c)].part = part
            /\ \A n \in DOMAIN files : n # candidate(c) => files'[n] = files[n]
        BY <4>1, <4>2 DEF RecordInv, RecordTypeOK
      <4>4. files[candidate(c)].part # "whole" /\ files'[candidate(c)].part # "whole"
        BY <4>2, <4>3
      <4>. QED  BY <4>3, <4>4 DEF kept
    <3>3. CASE ~(TakesName(c) \/ WritesBody(c) \/ BodyFails(c))
      <4>1. UNCHANGED files
        BY <1>4, <3>3
           DEF RecordStep, Emits, GoesOn, Fails, NextName, OutOfNames, OpenFails, NewlineFails
      <4>. QED  BY <4>1 DEF kept
    <3>. QED  BY <3>1, <3>2, <3>3
  <2>. QED  BY <1>1, <1>2, <2>1, MissOrStutter DEF Book!Next
<1>. QED  BY <1>3, <1>4

LEMMA EndingKeepsBook ==
  ASSUME RecordInv, RecordInv', (\E C \in SUBSET Calls : RecordsDie(C)) \/ RecordsVanish
  PROVE  [Book!Next]_(Book!book)
<1>1. \A c \in Calls : task[c] \in Final => task'[c] = task[c]
  BY DEF RecordsDie, RecordsVanish, Final, Going
<1>2. CASE \E C \in SUBSET Calls : RecordsDie(C)
  BY <1>1, <1>2, MissOrStutter DEF RecordsDie, kept, Book!Next
<1>3. CASE RecordsVanish
  <2>1. kept' \subseteq kept
    <3>0. PICK names \in SUBSET DOMAIN files : \E left \in SUBSET (names \cap whole) :
            files' = [n \in names |-> [files[n] EXCEPT !.part = IF n \in left THEN @ ELSE "torn"]]
      BY <1>3 DEF RecordsVanish
    <3>1. PICK left \in SUBSET (names \cap whole) :
            files' = [n \in names |-> [files[n] EXCEPT !.part = IF n \in left THEN @ ELSE "torn"]]
      BY <3>0
    <3>2. \A n \in DOMAIN files : files[n] \in [call : Calls, part : Part]
      BY DEF RecordInv, RecordTypeOK
    <3>3. ASSUME NEW c \in Calls, NEW n \in names, files'[n] = [call |-> c, part |-> "whole"]
          PROVE  files[n] = [call |-> c, part |-> "whole"]
      <4>1. n \in left
        BY <3>1, <3>2, <3>3
      <4>. QED  BY <3>1, <3>2, <3>3, <4>1
    <3>. QED  BY <3>1, <3>3 DEF kept
  <2>2. \A c \in kept' \cup kept : task[c] = "written" /\ task'[c] = "written"
    BY <1>1, <2>1 DEF RecordInv, FileInv, kept, Final
  <2>3. missed' \subseteq Calls \ kept'
    BY <2>2 DEF missed
  <2>4. missed \cup (kept \ kept') \subseteq missed'
    BY <1>1, <2>1, <2>2 DEF missed, Final, kept
  <2>. QED  BY <2>1, <2>3, <2>4 DEF Book!Next, Book!GoesDown
<1>. QED  BY <1>2, <1>3

(* JsonDirCallRecordSink, however many tasks and processes share the       *)
(* directory, decides once for each record whether it is kept.             *)
THEOREM FilesKeepBook == RecordSpec => KeepsBook
<1>1. RecordInit => Book!Init
  BY DEF RecordInit, Book!Init, kept, missed
<1>2. RecordInv /\ RecordInv' /\ [RecordNext]_record_vars => [Book!Next]_(Book!book)
  <2>. SUFFICES ASSUME RecordInv, RecordInv', [RecordNext]_record_vars
                PROVE  [Book!Next]_(Book!book)
    OBVIOUS
  <2>1. CASE UNCHANGED record_vars
    BY <2>1 DEF record_vars, Book!book, kept, missed
  <2>. QED  BY <2>1, StepKeepsBook, EndingKeepsBook DEF RecordNext
<1>. QED  BY <1>1, <1>2, RecordInvariance, PTL DEF RecordSpec, KeepsBook, Book!Spec

-----------------------------------------------------------------------------
(* A home directory.                                                       *)

LEMMA HomeIdentity == HomeSpec => IdentitySpec
<1>1. HomeInit => IdentityInit
  BY DEF HomeInit
<1>2. [HomeNext]_home_vars => [IdentityNext]_identity_vars
  BY DEF HomeNext, home_vars, Starts, Serves, Dies, MachineDown, OperatorRepairs, IdentityNext
<1>. QED  BY <1>1, <1>2, PTL DEF HomeSpec, IdentitySpec

LEMMA HomeRecords == HomeSpec => RecordSpec
<1>1. HomeInit => RecordInit
  BY DEF HomeInit
<1>2. [HomeNext]_home_vars => [RecordNext]_record_vars
  <2>1. \A p \in Processes : CallsOf(p) \in SUBSET Calls
    BY DEF CallsOf
  <2>. QED
    BY <2>1 DEF HomeNext, home_vars, Starts, Serves, Dies, MachineDown, OperatorRepairs, RecordNext
<1>. QED  BY <1>1, <1>2, PTL DEF HomeSpec, RecordSpec

(* In a home directory all of this holds together, whatever is started and *)
(* killed: the processes share what IdentitySpec and RecordSpec may each   *)
(* do alone, and a power failure strikes the key and the records at once.  *)
THEOREM HomeSafe ==
  HomeSpec => /\ [](RunsPrivately /\ OneFileEach)
              /\ KeyOnDisk /\ StartsWithKey /\ CrowdedOutOnly /\ KeepsBook
BY HomeIdentity, HomeRecords, KeyStays, NoOpenKey, NobodyTurnedAway, OneFile, CrowdedOut,
   FilesKeepBook, PTL
=============================================================================
