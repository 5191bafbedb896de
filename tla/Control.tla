------------------------------ MODULE Control ------------------------------
(***************************************************************************)
(* The vocabulary of the control protocol between hwwctl clients and the   *)
(* daemon (crate control): the commands the registry serves and the        *)
(* answers it gives.  Ids stand for the InstanceIds "{wallet}-{6 hex}";    *)
(* what a summary, a log or a counter snapshot says about an instance is   *)
(* reduced to the id it is about.                                          *)
(***************************************************************************)
CONSTANTS
  Callers,    \* the tasks that hold a handle on the registry
  Ids,        \* instance ids
  None        \* the id of a command that names no instance

\* Lookup is Status with an id, Logs or BridgeStats: what they say of an
\* instance is not modelled, so they differ in nothing.  List is Status without.
Targeted   == {"Lookup", "Stop"}
Untargeted == {"List", "Start", "Shutdown"}

\* A call of one of the handle's methods; it names an instance or it does not.
Commands == [op : Targeted, id : Ids] \cup [op : Untargeted, id : {None}]
NoCommand == [op |-> "None", id |-> None]

\* Why a start fails: control's ErrorCode, without the code of the lookups and
\* without STARTUP_TIMEOUT, which an emulator in skip-probe mode never causes.
StartErrors == {"BadRequest", "WalletUnsupported", "BundleMissing",
                "ResourceExhausted", "SpawnFailed", "BridgeFailed", "Internal"}

\* An answer and the instance ids it carries.
Replies == [kind : {"Started", "Stopped", "Snapshot", "ShuttingDown",
                    "InstanceNotFound"} \cup StartErrors,
            ids  : SUBSET Ids]
NoReply == [kind |-> "None", ids |-> {}]

\* The answer to a command that only looks at the live instances.
Snapshot(command, ids) ==
  IF command.op = "List"
  THEN [kind |-> "Snapshot", ids |-> ids]
  ELSE IF command.id \in ids
       THEN [kind |-> "Snapshot", ids |-> {command.id}]
       ELSE [kind |-> "InstanceNotFound", ids |-> {}]
=============================================================================
