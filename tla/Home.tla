-------------------------------- MODULE Home --------------------------------
(***************************************************************************)
(* One home directory and the processes in it. A process of main.rs first  *)
(* loads or makes the identity, then serves calls that leave their records *)
(* under records/; it dies with its calls, and the machine with all of     *)
(* them. Both files and names are shared by the processes.                 *)
(***************************************************************************)
EXTENDS Identity, RecordFiles

CONSTANT ProcessOf   \* the process that serves a call

ASSUME HomeAssumption == ProcessOf \in [Calls -> Processes]

home_vars == <<identity_vars, record_vars>>

CallsOf(p) == {c \in Calls : ProcessOf[c] = p}

HomeInit == IdentityInit /\ RecordInit

Starts(p) == IdentityStep(p) /\ UNCHANGED record_vars

Serves(p) ==
    /\ start[p] = "up"
    /\ \E c \in CallsOf(p) : RecordStep(c)
    /\ UNCHANGED identity_vars

Dies(p) == IdentityDies(p) /\ RecordsDie(CallsOf(p))

MachineDown == PowerFails /\ RecordsVanish

OperatorRepairs == Repairs /\ UNCHANGED record_vars

HomeNext ==
    \/ \E p \in Processes : Starts(p) \/ Serves(p) \/ Dies(p)
    \/ MachineDown
    \/ OperatorRepairs

HomeSpec == HomeInit /\ [][HomeNext]_home_vars
=============================================================================
