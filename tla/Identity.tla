------------------------------ MODULE Identity ------------------------------
(***************************************************************************)
(* identity.rs: the secret key of a home directory, loaded or made by      *)
(* every process that starts there (the daemon, uat-node dial, uat         *)
(* identity). Each system call of load_or_create_at is a step; processes   *)
(* overlap, may be killed, and the machine may go down between any two.    *)
(* A process that makes a key makes one of its own, so a key is named by   *)
(* its maker. A restart is another process.                                *)
(*                                                                         *)
(* sync_all puts the contents and the mode on disk; the name in its        *)
(* directory and a mode that is changed afterwards are never synced.       *)
(***************************************************************************)
EXTENDS Integers

CONSTANTS
    Processes,     \* everything that calls load_or_create_at
    None           \* no key

ASSUME IdentityAssumption == None \notin Processes

VARIABLES
    start,         \* [Processes -> where the process stands]
    identity,      \* [Processes -> the key it runs with]
    file,          \* identity.key, and what of it is on disk for certain
    disk           \* what the file system does with modes
identity_vars == <<start, identity, file, disk>>

Mode == {"0600", "other"}
\* open obeys the mode, refuses it, or drops it; set_permissions works with the
\* first two, and is in vain with "ignores" and "defies".
Disk == {"obeys", "refuses", "ignores", "defies"}
RefusesMode == disk \in {"refuses", "defies"}
KeepsMode == disk \in {"obeys", "refuses"}
Creating == {"write", "write_plain", "sync", "sync_plain", "chmod", "check"}
Starting == {"new", "load", "read", "create", "create_plain"} \cup Creating
StartStatus == Starting \cup {"up", "refused", "failed", "killed"}

\* old: a mode that the disk may still have; synced: the key is on disk; named:
\* so is the name.
FileState == [there : BOOLEAN, mode : Mode, old : Mode, key : Processes \cup {None},
              synced : BOOLEAN, named : BOOLEAN]
NoFile == [there |-> FALSE, mode |-> "other", old |-> "other", key |-> None,
           synced |-> FALSE, named |-> FALSE]
NewFile(m) == [NoFile EXCEPT !.there = TRUE, !.mode = m, !.old = m]

Goes(p, from, to) ==
    /\ start[p] = from
    /\ start' = [start EXCEPT ![p] = to]

RunsWith(p, key) == identity' = [identity EXCEPT ![p] = key]

-----------------------------------------------------------------------------

IdentityInit ==
    /\ start = [p \in Processes |-> "new"]
    /\ identity = [p \in Processes |-> None]
    /\ file = NoFile
    /\ disk \in Disk

\* path.exists(), which is false of a path that cannot be looked at as well.
Looks(p) ==
    /\ (file.there /\ Goes(p, "new", "load")) \/ Goes(p, "new", "create")
    /\ UNCHANGED <<identity, file, disk>>

\* The mode of the file that is there.
LoadsMode(p) ==
    /\ file.there
    /\ Goes(p, "load", IF file.mode = "0600" THEN "read" ELSE "refused")
    /\ UNCHANGED <<identity, file, disk>>

\* open, 32 bytes, and none after them.
LoadsKey(p) ==
    /\ file.there
    /\ \/ file.key # None /\ Goes(p, "read", "up") /\ RunsWith(p, file.key)
       \/ file.key = None /\ Goes(p, "read", "refused") /\ UNCHANGED identity
    /\ UNCHANGED <<file, disk>>

\* metadata, open or read returns an error.
LoadFails(p) ==
    /\ Goes(p, "load", "failed") \/ Goes(p, "read", "failed")
    /\ UNCHANGED <<identity, file, disk>>

\* An open that takes any file.
MutCreates(p) ==
    /\ ~RefusesMode /\ Goes(p, "create", "write")
    /\ file' = NewFile(IF KeepsMode THEN "0600" ELSE "other")
    /\ UNCHANGED <<identity, disk>>

\* create_new with the mode.
Creates(p) ==
    /\ \/ ~file.there /\ ~RefusesMode /\ Goes(p, "create", "write")
          /\ file' = NewFile(IF KeepsMode THEN "0600" ELSE "other")
       \/ ~file.there /\ RefusesMode /\ Goes(p, "create", "create_plain") /\ UNCHANGED file
       \/ file.there /\ Goes(p, "create", "failed") /\ UNCHANGED file
    /\ UNCHANGED <<identity, disk>>

\* PermissionDenied: create_new without a mode, which the umask decides then.
CreatesPlain(p) ==
    /\ \/ /\ ~file.there /\ Goes(p, "create_plain", "write_plain")
          /\ \E m \in Mode : file' = NewFile(m)
       \/ file.there /\ Goes(p, "create_plain", "failed") /\ UNCHANGED file
    /\ UNCHANGED <<identity, disk>>

Writes(p) ==
    /\ \/ Goes(p, "write", "sync") \/ Goes(p, "write_plain", "sync_plain")
    /\ file' = [file EXCEPT !.key = p]
    /\ UNCHANGED <<identity, disk>>

\* create_dir_all, open, write_all, sync_all, chmod or metadata returns an error:
\* the file stays as it is.
CreateFails(p) ==
    /\ \E s \in {"create", "create_plain"} \cup Creating : Goes(p, s, "failed")
    /\ UNCHANGED <<identity, file, disk>>

\* A key that is not synced.
MutSyncs(p) ==
    /\ \/ Goes(p, "sync", "check") \/ Goes(p, "sync_plain", "chmod")
    /\ UNCHANGED <<identity, file, disk>>

Syncs(p) ==
    /\ \/ Goes(p, "sync", "check") \/ Goes(p, "sync_plain", "chmod")
    /\ file' = [file EXCEPT !.synced = TRUE, !.old = file.mode]
    /\ UNCHANGED <<identity, disk>>

SetsMode(p) ==
    /\ Goes(p, "chmod", "check")
    /\ file' = [file EXCEPT !.mode = IF KeepsMode THEN "0600" ELSE @]
    /\ UNCHANGED <<identity, disk>>

\* A process that trusts open and set_permissions.
MutChecksMode(p) ==
    /\ Goes(p, "check", "up") /\ RunsWith(p, p)
    /\ UNCHANGED <<file, disk>>

ChecksMode(p) ==
    /\ \/ file.mode = "0600" /\ Goes(p, "check", "up") /\ RunsWith(p, p)
       \/ file.mode # "0600" /\ Goes(p, "check", "refused") /\ UNCHANGED identity
    /\ UNCHANGED <<file, disk>>

IdentityStep(p) ==
    \/ Looks(p) \/ LoadsMode(p) \/ LoadsKey(p) \/ LoadFails(p)
    \/ Creates(p) \/ CreatesPlain(p) \/ Writes(p) \/ Syncs(p) \/ SetsMode(p)
    \/ ChecksMode(p) \/ CreateFails(p)

\* A process dies, or exits.
IdentityDies(p) ==
    /\ start[p] \in (Starting \ {"new"}) \cup {"up"}
    /\ start' = [start EXCEPT ![p] = "killed"]
    /\ UNCHANGED <<identity, file, disk>>

\* The machine goes down. What was not synced may be gone: the file with its name,
\* its key in part or whole, or the mode it was given last. What is there when the
\* machine is up again is on disk.
PowerFails ==
    /\ start' = [p \in Processes |-> IF start[p] \in {"new", "refused", "failed"}
                                     THEN start[p] ELSE "killed"]
    /\ \/ ~file.named /\ file' = NoFile
       \/ /\ file.there
          /\ \E m \in {file.mode, file.old}, k \in {file.key, None} :
                /\ file.synced => k = file.key
                /\ file' = [there |-> TRUE, mode |-> m, old |-> m, key |-> k,
                            synced |-> TRUE, named |-> TRUE]
    /\ UNCHANGED <<identity, disk>>

\* An operator is told that the key is not 32 bytes long, or its mode not 0600, and
\* removes the file or sets its mode: nobody is starting at that time.
Repairs ==
    /\ \A p \in Processes : start[p] \notin Starting \ {"new"}
    /\ \E p \in Processes : start[p] = "refused"
    /\ \/ file.there /\ file.key = None /\ file' = NoFile
       \/ /\ file.there /\ KeepsMode /\ file.mode # "0600"
          /\ file' = [file EXCEPT !.mode = "0600"]
    /\ UNCHANGED <<start, identity, disk>>

IdentityNext ==
    \/ \E p \in Processes : IdentityStep(p) \/ IdentityDies(p)
    \/ PowerFails
    \/ Repairs

IdentitySpec == IdentityInit /\ [][IdentityNext]_identity_vars

-----------------------------------------------------------------------------

\* Type invariant of the processes and the key file.
IdentityTypeOK ==
    /\ start \in [Processes -> StartStatus]
    /\ identity \in [Processes -> Processes \cup {None}]
    /\ file \in FileState
    /\ disk \in Disk

\* Whoever runs, runs with the key in the file, so that no two run with different
\* keys. A key that its maker runs with, or has run with, stays there whatever is
\* killed, and is never torn: a power failure may take it only with the whole file
\* (the key is synced before create_at returns, the name never is), and only when
\* no process is left that runs with it.
KeyStaysWhole ==
    \A p \in Processes :
        /\ start'[p] = "up" => file'.there /\ file'.key = identity'[p]
        /\ identity[p] = p /\ file.key = p /\ file'.key # p =>
              file' = NoFile /\ \A q \in Processes : start'[q] \notin (Starting \ {"new"}) \cup {"up"}

KeyOnDisk == [][KeyStaysWhole]_identity_vars

\* No process runs with a key that others may read: both ways through
\* load_or_create_at look at the mode before they return.
RunsPrivately == \A p \in Processes : start[p] = "up" => file.there /\ file.mode = "0600"

NotTurnedAway ==
    \A p, q \in Processes :
        start'[p] = "refused" /\ start[p] # "refused" /\ identity[q] = q /\ file.key = q =>
            /\ start[p] = "load" /\ disk = "refuses"
            /\ \A r \in Processes : start[r] # "up"

\* Once some process has made the key and started with it, the two checks of
\* load_at turn nobody away: not for the length at all, and for the mode only where
\* it was set after open had refused it, a power failure has taken it, and no
\* process has started since (identity.rs never syncs that mode).
StartsWithKey == [][NotTurnedAway]_identity_vars
=============================================================================
