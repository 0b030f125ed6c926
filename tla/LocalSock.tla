------------------------------ MODULE LocalSock ------------------------------
(***************************************************************************)
(* The file node.sock of one UAT_HOME, and the processes that bind, serve, *)
(* remove and connect to it: bind_sock, remove_sock_file, connect and the  *)
(* accept loop in uat-node's local.rs, spawn_local_socket and shutdown in  *)
(* node.rs.  A step is one system call on the path: between two calls any  *)
(* other process may run.                                                  *)
(*                                                                         *)
(* A daemon is one process, so a restart is another element of Daemons.    *)
(* binding and listening are one call here.  The code tells errors of      *)
(* connect apart no more than errors of exists: each is taken for a stale  *)
(* socket, or for no socket, whatever caused it.                           *)
(***************************************************************************)
EXTENDS FiniteSets

CONSTANTS
  Daemons,   \* uat-node listen processes, each started once
  Clients,   \* processes that call connect, each once
  NoFile,    \* nothing is at the path
  Settings   \* what may happen in one history, a subset of Disorder

(* Two daemons start at the same time; one starts while another one stops; *)
(* accept fails on a listener; other calls on the path fail though nothing *)
(* is wrong with the file (a full backlog, no permission, no descriptor);  *)
(* the file system keeps no modes.                                         *)
Disorder == {"starts", "stops", "accept", "errors", "modes"}

ASSUME LocalSockAssumption ==
  NoFile \notin Daemons /\ Settings \subseteq SUBSET Disorder

VARIABLES
  setting,  \* what may happen in this history
  file,     \* what is at the path: the daemon whose bind made it, or NoFile
  private,  \* whether it has mode 0600
  warned,   \* the daemons that logged that it has not
  pc,       \* where each daemon stands
  token,    \* whether its CancellationToken is cancelled
  client    \* where each client stands

vars == <<setting, file, private, warned, pc, token, client>>

Starting == {"probing", "removing", "binding", "chmod", "checking"}
Stopping == {"leaving", "draining"}
(* "deaf" has left its accept loop because accept failed; it still runs.   *)
DaemonPc == {"off", "serving", "deaf", "stopped", "refused", "failed", "killed"}
              \cup Starting \cup Stopping
ClientPc == {"idle", "found", "connected", "not_running", "stale_socket"}

TypeOK ==
  /\ setting \in Settings
  /\ file \in Daemons \cup {NoFile}
  /\ private \in BOOLEAN
  /\ warned \subseteq Daemons
  /\ pc \in [Daemons -> DaemonPc]
  /\ token \in [Daemons -> BOOLEAN]
  /\ client \in [Clients -> ClientPc]

Init ==
  /\ setting \in Settings
  /\ file = NoFile
  /\ private = FALSE
  /\ warned = {}
  /\ pc = [d \in Daemons |-> "off"]
  /\ token = [d \in Daemons |-> FALSE]
  /\ client = [c \in Clients |-> "idle"]

(* The listener exists from bind to the end of the task of the accept      *)
(* loop, which removes the file first.  The kernel accepts for it.         *)
Listening(d) == pc[d] \in {"chmod", "checking", "serving", "leaving"}

(* Somebody accepts on the path.                                           *)
Answers == file # NoFile /\ Listening(file)

Errors == "errors" \in setting

Goto(d, stage) == pc' = [pc EXCEPT ![d] = stage]

-----------------------------------------------------------------------------
(* bind_sock.                                                              *)

(* Whoever starts and stops daemons keeps apart what is not in setting.    *)
MayStart(d) ==
  \A e \in Daemons \ {d} :
    /\ pc[e] \in Starting => "starts" \in setting
    /\ pc[e] \in Stopping => "stops" \in setting

MayStop(d) ==
  \A e \in Daemons \ {d} : pc[e] \in Starting => "stops" \in setting

(* path.exists(), which is false of a path that cannot be looked at        *)
LookForFile(d) ==
  /\ pc[d] = "off" /\ MayStart(d)
  /\ \/ file # NoFile /\ Goto(d, "probing")
     \/ (file = NoFile \/ Errors) /\ Goto(d, "binding")
  /\ UNCHANGED <<setting, file, private, warned, token, client>>

MutProbe(d) ==  \* mutant: a new socket is renamed over whatever is there
  /\ pc[d] = "probing"
  /\ file' = d /\ private' = FALSE
  /\ Goto(d, "chmod")
  /\ UNCHANGED <<setting, warned, token, client>>

MutProbeAndClean(d) ==  \* mutant: a refused daemon removes the file on its way out
  /\ pc[d] = "probing"
  /\ Goto(d, IF Answers THEN "refused" ELSE "removing")
  /\ file' = IF Answers THEN NoFile ELSE file
  /\ UNCHANGED <<setting, private, warned, token, client>>

MutProbeIsLook(d) ==  \* mutant: any file is taken for a running daemon's
  /\ pc[d] = "probing"
  /\ Goto(d, IF file # NoFile THEN "refused" ELSE "removing")
  /\ UNCHANGED <<setting, file, private, warned, token, client>>

(* UnixStream::connect: AlreadyRunning if it succeeds, stale if it fails   *)
(* for any reason                                                          *)
Probe(d) ==
  /\ pc[d] = "probing"
  /\ \/ Answers /\ Goto(d, "refused")
     \/ (~Answers \/ Errors) /\ Goto(d, "removing")
  /\ UNCHANGED <<setting, file, private, warned, token, client>>

(* fs::remove_file, an error if the file is gone                           *)
RemoveStale(d) ==
  /\ pc[d] = "removing"
  /\ file' = NoFile
  /\ Goto(d, IF file = NoFile THEN "failed" ELSE "binding")
  /\ UNCHANGED <<setting, private, warned, token, client>>

(* UnixListener::bind, an error if the path is taken                       *)
Bind(d) ==
  /\ pc[d] = "binding"
  /\ IF file = NoFile
       THEN file' = d /\ private' = FALSE /\ Goto(d, "chmod")
       ELSE Goto(d, "failed") /\ UNCHANGED <<file, private>>
  /\ UNCHANGED <<setting, warned, token, client>>

MutSetMode(d) ==  \* mutant: the mode is left to the umask
  /\ pc[d] = "chmod"
  /\ Goto(d, IF file = NoFile THEN "failed" ELSE "checking")
  /\ UNCHANGED <<setting, file, private, warned, token, client>>

(* fs::set_permissions: whatever file is there now, if modes are kept      *)
SetMode(d) ==
  /\ pc[d] = "chmod"
  /\ Goto(d, IF file = NoFile THEN "failed" ELSE "checking")
  /\ private' = (private \/ (file # NoFile /\ "modes" \notin setting))
  /\ UNCHANGED <<setting, file, warned, token, client>>

(* fs::metadata: another mode is logged, and served nevertheless           *)
CheckMode(d) ==
  /\ pc[d] = "checking"
  /\ Goto(d, IF file = NoFile THEN "failed" ELSE "serving")
  /\ warned' = IF file # NoFile /\ ~private THEN warned \cup {d} ELSE warned
  /\ UNCHANGED <<setting, file, private, token, client>>

(* An error of any of these calls ends the start.                          *)
CallFails(d) ==
  /\ pc[d] \in Starting \ {"probing"} /\ Errors
  /\ Goto(d, "failed")
  /\ UNCHANGED <<setting, file, private, warned, token, client>>

-----------------------------------------------------------------------------
(* The life of a daemon that serves.                                       *)

MutRemoveSockFile == UNCHANGED file  \* mutant: the file is left to the next start

(* remove_sock_file: by name, and nothing to complain about if it is gone; *)
(* an error is logged and leaves the file.                                 *)
remove_sock_file == file' = NoFile \/ (Errors /\ UNCHANGED file)

(* shutdown cancels the token; a deaf daemon has no loop left to stop.     *)
Shutdown(d) ==
  /\ pc[d] \in {"serving", "deaf"} /\ MayStop(d)
  /\ token' = [token EXCEPT ![d] = TRUE]
  /\ Goto(d, IF pc[d] = "serving" THEN "leaving" ELSE "draining")
  /\ UNCHANGED <<setting, file, private, warned, client>>

(* listener.accept() fails: the loop breaks as if it were cancelled.       *)
AcceptFails(d) ==
  /\ pc[d] = "serving" /\ "accept" \in setting
  /\ Goto(d, "leaving")
  /\ UNCHANGED <<setting, file, private, warned, token, client>>

(* The accept loop's task removes the file, then drops its listener.       *)
LoopRemoves(d) ==
  /\ pc[d] = "leaving"
  /\ remove_sock_file
  /\ Goto(d, IF token[d] THEN "draining" ELSE "deaf")
  /\ UNCHANGED <<setting, private, warned, token, client>>

(* The tracker is empty, and shutdown removes the file again.              *)
ShutdownRemoves(d) ==
  /\ pc[d] = "draining"
  /\ remove_sock_file
  /\ Goto(d, "stopped")
  /\ UNCHANGED <<setting, private, warned, token, client>>

(* kill -9, or a crash of the host                                         *)
Kill(d) ==
  /\ pc[d] \in Starting \cup Stopping \cup {"serving", "deaf"}
  /\ Goto(d, "killed")
  /\ UNCHANGED <<setting, file, private, warned, token, client>>

-----------------------------------------------------------------------------
(* connect: path.exists() ...                                              *)
ClientLooks(c) ==
  /\ client[c] = "idle"
  /\ \/ file # NoFile /\ client' = [client EXCEPT ![c] = "found"]
     \/ (file = NoFile \/ Errors) /\ client' = [client EXCEPT ![c] = "not_running"]
  /\ UNCHANGED <<setting, file, private, warned, pc, token>>

(* ... and UnixStream::connect, StaleSocket for any error                  *)
ClientConnects(c) ==
  /\ client[c] = "found"
  /\ \/ Answers /\ client' = [client EXCEPT ![c] = "connected"]
     \/ (~Answers \/ Errors) /\ client' = [client EXCEPT ![c] = "stale_socket"]
  /\ UNCHANGED <<setting, file, private, warned, pc, token>>

Next ==
  \/ \E d \in Daemons :
       \/ LookForFile(d) \/ Probe(d) \/ RemoveStale(d) \/ Bind(d) \/ SetMode(d) \/ CheckMode(d)
       \/ CallFails(d)
       \/ Shutdown(d) \/ AcceptFails(d) \/ LoopRemoves(d) \/ ShutdownRemoves(d) \/ Kill(d)
  \/ \E c \in Clients : ClientLooks(c) \/ ClientConnects(c)

Spec == Init /\ [][Next]_vars

-----------------------------------------------------------------------------
(* "refuses if another daemon already accepts on the path" (node.rs): no   *)
(* two daemons serve one home.                                             *)
SecondRefused == \A d, e \in Daemons : pc[d] = "serving" /\ pc[e] = "serving" => d = e

(* It does refuse where daemons are started and stopped one at a time, a   *)
(* kill at any moment included.                                            *)
OneServes == setting = {} => SecondRefused

(* Whatever a daemon that was killed left behind, the next one starts: its *)
(* start does not fail, and is refused only while another one listens.     *)
StartsOverLitter ==
  [][setting = {} =>
       \A d \in Daemons : pc[d] # pc'[d] =>
         /\ pc'[d] # "failed"
         /\ pc'[d] = "refused" => \E e \in Daemons \ {d} : Listening(e)]_vars

(* A client is told that no daemon runs, or that its socket is stale, by   *)
(* errors of its own calls, after two daemons started at the same time, or *)
(* after the shutdown of one removed the file of its successor.  With the  *)
(* others out of the way it is told so only when none serves, and with     *)
(* care never while one serves.                                            *)
Told(c) == client[c] # client'[c] /\ client'[c] \in {"not_running", "stale_socket"}

ErrorsHonest ==
  [][\A c \in Clients, d \in Daemons :
       Told(c) /\ pc[d] = "serving" /\ setting \cap {"starts", "errors"} = {} =>
         setting # {} /\ \E e \in Daemons \ {d} : token[e]]_vars

(* A daemon that was shut down leaves no socket of its own (unless it was  *)
(* kept from removing it): the next client is told that it is not running, *)
(* not that its socket is stale.                                           *)
NoLitter ==
  Errors \/ \A d \in Daemons : pc[d] \in {"stopped", "deaf"} => file # d

(* Whoever serves on the file at the path, only its owner may open it, and *)
(* where the file system keeps no modes the daemon has logged that others  *)
(* may.                                                                    *)
ServedPrivately ==
  \A d \in Daemons : pc[d] = "serving" /\ file = d =>
    private \/ ("modes" \in setting /\ d \in warned)

=============================================================================
