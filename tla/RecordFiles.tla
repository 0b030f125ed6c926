---------------------------- MODULE RecordFiles -----------------------------
(***************************************************************************)
(* JsonDirCallRecordSink of record.rs: one JSON file per finished call, in *)
(* a directory that several tasks of several processes write at once. A    *)
(* file is made by create_new, under the first free of MaxAttempts + 1     *)
(* names, and then filled by two writes; the process may be killed, and    *)
(* each system call may fail, in between.                                  *)
(***************************************************************************)
EXTENDS Integers

CONSTANTS
    Calls,         \* calls that leave a record
    Stem,          \* of a call: start in ms, direction and start of the peer
    MaxAttempts    \* further names that are tried when the first is taken

ASSUME RecordAssumption == MaxAttempts \in Nat

VARIABLES
    task,          \* [Calls -> where the call's task stands]
    attempts,      \* [Calls -> names found taken so far]
    files          \* name -> [call, part]: who made a file, what is in it
record_vars == <<task, attempts, files>>

Name == {Stem[c] : c \in Calls} \X (0..MaxAttempts)
Part == {"empty", "torn", "body", "whole"}
Going == {"call", "naming", "filling", "closing"}
TaskStatus == Going \cup {"written", "lost", "crowded"}

candidate(c) == <<Stem[c], attempts[c]>>
Taken(name) == name \in DOMAIN files

Steps(c, from, to) ==
    /\ task[c] = from
    /\ task' = [task EXCEPT ![c] = to]

Fills(c, part) ==
    /\ files' = [files EXCEPT ![candidate(c)].part = part]
    /\ UNCHANGED attempts

-----------------------------------------------------------------------------

RecordInit ==
    /\ task = [c \in Calls |-> "call"]
    /\ attempts = [c \in Calls |-> 0]
    /\ files = [n \in {} |-> n]

\* The guard is dropped: emit_now, the sinks, create_dir_all.
Emits(c) ==
    /\ \/ Steps(c, "call", "naming")
       \/ Steps(c, "call", "lost")          \* create_dir_all failed
    /\ UNCHANGED <<attempts, files>>

\* A sink that opens whatever file is there.
MutTakesName(c) ==
    /\ Steps(c, "naming", "filling")
    /\ files' = [n \in DOMAIN files \cup {candidate(c)} |->
                    IF n = candidate(c) THEN [call |-> c, part |-> "empty"] ELSE files[n]]
    /\ UNCHANGED attempts

\* create_new: one call tells that a name is free and takes it.
TakesName(c) ==
    /\ Steps(c, "naming", "filling")
    /\ ~Taken(candidate(c))
    /\ files' = [n \in DOMAIN files \cup {candidate(c)} |->
                    IF n = candidate(c) THEN [call |-> c, part |-> "empty"] ELSE files[n]]
    /\ UNCHANGED attempts

\* AlreadyExists.
NextName(c) ==
    /\ task[c] = "naming" /\ Taken(candidate(c)) /\ attempts[c] < MaxAttempts
    /\ attempts' = [attempts EXCEPT ![c] = @ + 1]
    /\ UNCHANGED <<task, files>>

\* One that is reached a name too early.
MutLastName(c) ==
    /\ Steps(c, "naming", "crowded")
    /\ Taken(candidate(c)) /\ attempts[c] + 1 >= MaxAttempts
    /\ UNCHANGED <<attempts, files>>

\* The last AlreadyExists.
OutOfNames(c) ==
    /\ Steps(c, "naming", "crowded")
    /\ Taken(candidate(c)) /\ attempts[c] >= MaxAttempts
    /\ UNCHANGED <<attempts, files>>

\* Any other error of open.
OpenFails(c) ==
    /\ Steps(c, "naming", "lost")
    /\ UNCHANGED <<attempts, files>>

WritesBody(c) == Steps(c, "filling", "closing") /\ Fills(c, "body")

\* A sink that would rather try another name.
MutBodyFails(c) ==
    /\ Steps(c, "filling", "naming") /\ Fills(c, "torn")

\* write_all had written some of it or nothing, and the file stays.
BodyFails(c) ==
    /\ Steps(c, "filling", "lost") /\ Fills(c, "torn")

WritesNewline(c) == Steps(c, "closing", "written") /\ Fills(c, "whole")

NewlineFails(c) ==
    /\ Steps(c, "closing", "lost")
    /\ UNCHANGED <<attempts, files>>

\* write_record_json goes on, or one of its system calls fails.
GoesOn(c) ==
    TakesName(c) \/ NextName(c) \/ OutOfNames(c) \/ WritesBody(c) \/ WritesNewline(c)
Fails(c) == OpenFails(c) \/ BodyFails(c) \/ NewlineFails(c)

RecordStep(c) == Emits(c) \/ GoesOn(c) \/ Fails(c)

\* A process is killed with the calls C: no guard is dropped, no write ends.
RecordsDie(C) ==
    /\ task' = [c \in Calls |-> IF c \in C /\ task[c] \in Going THEN "lost" ELSE task[c]]
    /\ UNCHANGED <<attempts, files>>

whole == {n \in DOMAIN files : files[n].part = "whole"}

\* The machine goes down: nothing was synced, and any file may be missing, or be
\* there with some of its contents or none, which is all called torn.
RecordsVanish ==
    /\ task' = [c \in Calls |-> IF task[c] \in Going THEN "lost" ELSE task[c]]
    /\ \E names \in SUBSET DOMAIN files : \E left \in SUBSET (names \cap whole) :
          files' = [n \in names |-> [files[n] EXCEPT !.part = IF n \in left THEN @ ELSE "torn"]]
    /\ UNCHANGED attempts

RecordNext ==
    \/ \E c \in Calls : RecordStep(c)
    \/ \E C \in SUBSET Calls : RecordsDie(C)
    \/ RecordsVanish

RecordSpec == RecordInit /\ [][RecordNext]_record_vars

-----------------------------------------------------------------------------

\* Type invariant of the tasks and the directory.
RecordTypeOK ==
    /\ task \in [Calls -> TaskStatus]
    /\ attempts \in [Calls -> 0..MaxAttempts]
    /\ DOMAIN files \subseteq Name
    /\ \A n \in DOMAIN files : files[n] \in [call : Calls, part : Part]

\* No call has two files, and a file that is whole is that of a task which
\* knows it: write_record_json gives up for good once it has made a file.
OneFileEach ==
    /\ \A m, n \in DOMAIN files : files[m].call = files[n].call => m = n
    /\ \A n \in DOMAIN files : files[n].part = "whole" => task[files[n].call] = "written"

\* Between create_new and the last write a task finds its own file under its
\* own name: nobody else writes into it.
OwnFile ==
    \A c \in Calls : task[c] \in {"filling", "closing"} =>
        /\ Taken(candidate(c))
        /\ files[candidate(c)].call = c
        /\ files[candidate(c)].part = IF task[c] = "filling" THEN "empty" ELSE "body"

AllTaken ==
    \A c \in Calls : task[c] # "crowded" /\ task'[c] = "crowded" =>
        \A k \in 0..MaxAttempts : Taken(<<Stem[c], k>>)

\* A record is given up for want of a name only when every one of its names is
\* taken: attempts counts names that were found taken, and none comes free.
CrowdedOutOnly == [][AllTaken]_record_vars

kept == {c \in Calls : \E n \in DOMAIN files : files[n] = [call |-> c, part |-> "whole"]}
missed == {c \in Calls : task[c] \in {"lost", "crowded"} \/ (task[c] = "written" /\ c \notin kept)}

Book == INSTANCE RecordBook

\* The directory keeps the promise of RecordBook.
KeepsBook == Book!Spec
=============================================================================
