--------------------------- MODULE HostLifecycle ---------------------------
(***************************************************************************)
(* The life of one agent's host: cli/lifecycle.py and cli/power.py on the  *)
(* operator's machine, one command at a time; EC2 and EBS; and bootstrap   *)
(* on the instance, which works on the admin volume that outlives every    *)
(* instance.  A command may fail or be killed between any two calls, and   *)
(* with the GitHub delivery bootstrap runs on after the command returned.  *)
(***************************************************************************)
EXTENDS Naturals, FiniteSets

CONSTANTS
  NInstances,  \* bound: instances at a time; a number is free again once its instance is gone
  NVersions,   \* bound: releases 1 .. NVersions
  Choice       \* bound: the sets of endpoints an operator asks for

ASSUME HostConstants ==
  /\ NInstances \in Nat /\ NVersions \in Nat
  /\ Choice \subseteq (SUBSET {"ssh", "cloudflare_access"} \ {{}})

VARIABLES
  inst,      \* EC2 instances: state and version tag
  staged,    \* the payload user data staged on each
  volume,    \* the two data volumes: do they exist, and the instance they are attached to (0: none)
  group,     \* the security group: does it exist, SSH ingress
  disk,      \* the admin volume: version.json, schemas, stored operator endpoints
  boot,      \* bootstrap's place on each instance
  cli,       \* the lifecycle command
  abandoned  \* history: living instances whose command died, lost them or could not
             \* terminate them, and those stopped in the middle of bootstrap

vars == <<inst, staged, volume, group, disk, boot, cli, abandoned>>

Instance == 1 .. NInstances
Version == 1 .. NVersions
Role == {"admin", "agent"}
Mode == {"deploy", "upgrade", "recover", "reconfigure"}
PAYLOAD_MODES == {"deploy", "reconfigure"}
Delivery == {"ssh", "github"}

NoPayload == [mode |-> "deploy", target |-> 0, allow |-> FALSE, endpoints |-> {}, delivery |-> "ssh"]
NoInstance == [state |-> "absent", tag |-> 0]
Idle == [pc |-> "idle", payload |-> NoPayload, existing |-> {}, ssh |-> FALSE, inst |-> 0]
NoVolume == [exists |-> FALSE, at |-> 0]
Available == [exists |-> TRUE, at |-> 0]
Blank == [version |-> 0, schema |-> 0, apps |-> 0, endpoints |-> {}]

Init ==
  /\ inst = [i \in Instance |-> NoInstance]
  /\ staged = [i \in Instance |-> NoPayload]
  /\ volume = [r \in Role |-> NoVolume]
  /\ group = [exists |-> FALSE, ssh |-> FALSE]
  /\ disk = Blank
  /\ boot = [i \in Instance |-> "none"]
  /\ cli = Idle
  /\ abandoned = {}

Running(i) == inst[i].state = "running"
Live == {i \in Instance : inst[i].state \in {"running", "stopped"}}
Roles == {r \in Role : volume[r].exists}
AttachedTo(i, r) == volume[r].at = i
Target(i) == inst[i].tag
Booting(i) == boot[i] \notin {"none", "staged", "done", "failed", "killed"}

-----------------------------------------------------------------------------
(* A command, before it touches anything                                   *)

(* _version_hint_error: the tag of an instance the command replaces.       *)
HintAllows(p, tag) ==
  CASE p.mode = "upgrade"     -> tag < p.target
    [] p.mode = "reconfigure" -> tag = p.target
    [] OTHER                  -> TRUE

(* _validate_command_preflight                                             *)
PreflightAllows(p) ==
  /\ p.mode = "deploy" => Live = {} /\ Roles = {}
  /\ p.mode # "deploy" => Roles = Role
  /\ p.mode \in {"upgrade", "reconfigure"} => Live # {}
  /\ p.mode = "recover" => Live = {}

(* _launch_access_state: whether the host is to have SSH ingress.           *)
Access(p) ==
  IF p.mode \in PAYLOAD_MODES THEN "ssh" \in p.endpoints ELSE group.exists /\ group.ssh

Payload == [mode : Mode, target : Version, allow : BOOLEAN, endpoints : Choice \cup {{}}, delivery : Delivery]
Command == {p \in Payload : /\ p.mode \in PAYLOAD_MODES <=> p.endpoints # {}
                            /\ p.allow => p.mode = "recover"}

(* Wrong: the instance being replaced is left for later.                   *)
StartBeside(p) ==
  /\ cli.pc = "idle"
  /\ PreflightAllows(p)
  /\ cli' = [pc |-> "admin", payload |-> p, existing |-> {}, ssh |-> Access(p), inst |-> 0]
  /\ UNCHANGED <<inst, staged, volume, group, disk, boot, abandoned>>

(* main_for_mode, to the last check.  A refused command changes nothing.   *)
Start(p) ==
  /\ cli.pc = "idle"
  /\ PreflightAllows(p)
  /\ \A i \in Live : HintAllows(p, Target(i))
  /\ cli' = [pc |-> IF Live = {} THEN "admin" ELSE "terminate", payload |-> p, existing |-> Live,
             ssh |-> Access(p), inst |-> 0]
  /\ UNCHANGED <<inst, staged, volume, group, disk, boot, abandoned>>

-----------------------------------------------------------------------------
(* A command's calls to AWS                                                *)

At(pc) == cli.pc = pc
Goes(pc) == cli' = [cli EXCEPT !.pc = pc]

(* terminate-instances: whatever ran there stops running, and its root     *)
(* volume is lost.                                                         *)
ShutDown(S) == inst' = [i \in Instance |-> IF i \in S THEN [inst[i] EXCEPT !.state = "shutting"] ELSE inst[i]]
LoseRoot(S) ==
  /\ boot' = [i \in Instance |-> IF i \in S THEN "none" ELSE boot[i]]
  /\ staged' = [i \in Instance |-> IF i \in S THEN NoPayload ELSE staged[i]]
AllGone(S) == \A i \in S : inst[i] = NoInstance

TerminateExisting ==
  /\ At("terminate")
  /\ ShutDown({i \in cli.existing : inst[i] # NoInstance})
  /\ LoseRoot(cli.existing)
  /\ Goes("terminated")
  /\ UNCHANGED <<volume, group, disk, abandoned>>

WaitTerminated ==
  /\ At("terminated") /\ AllGone(cli.existing)
  /\ cli' = [cli EXCEPT !.pc = "admin", !.existing = {}]
  /\ UNCHANGED <<inst, staged, volume, group, disk, boot, abandoned>>

(* _ensure_storage_volumes, a role at a time.  A volume that is still      *)
(* attached is waited for only when this command terminated an instance;   *)
(* otherwise the command fails (CliFails).                                 *)
EnsureVolume(r, next) ==
  /\ At(r)
  /\ volume[r].at = 0
  /\ volume' = [volume EXCEPT ![r] = Available]
  /\ disk' = IF r = "admin" /\ ~volume[r].exists THEN Blank ELSE disk
  /\ Goes(next)
  /\ UNCHANGED <<inst, staged, group, boot, abandoned>>

(* _ensure_security_group: created or found, its rules revoked ...         *)
ResetGroup ==
  /\ At("group")
  /\ group' = [exists |-> TRUE, ssh |-> FALSE]
  /\ Goes("authorize")
  /\ UNCHANGED <<inst, staged, volume, disk, boot, abandoned>>

(* ... and granted: the SSH delivery needs port 22 for its deploy key.     *)
Authorize ==
  /\ At("authorize")
  /\ group' = [exists |-> TRUE, ssh |-> cli.ssh \/ cli.payload.delivery = "ssh"]
  /\ Goes("launch")
  /\ UNCHANGED <<inst, staged, volume, disk, boot, abandoned>>

Fresh(i) == inst[i] = NoInstance /\ \A j \in Instance : j < i => inst[j] # NoInstance

(* run-instances, whose answer may be lost after the instance was made.    *)
(* User data runs bootstrap at once with the GitHub delivery; with the SSH *)
(* delivery it stages the payload and waits for the command.               *)
Launch(i, answered) ==
  /\ At("launch") /\ Fresh(i)
  /\ inst' = [inst EXCEPT ![i] = [state |-> "running", tag |-> cli.payload.target]]
  /\ staged' = [staged EXCEPT ![i] = cli.payload]
  /\ boot' = [boot EXCEPT ![i] = IF cli.payload.delivery = "github" THEN "mount" ELSE "staged"]
  /\ cli' = IF answered THEN [cli EXCEPT !.pc = "attach_admin", !.inst = i] ELSE Idle
  /\ abandoned' = IF answered THEN abandoned ELSE abandoned \cup {i}
  /\ UNCHANGED <<volume, group, disk>>

Attach(r, pc, next) ==
  /\ At(pc) /\ Running(cli.inst) /\ volume[r] = Available
  /\ volume' = [volume EXCEPT ![r].at = cli.inst]
  /\ cli' = IF next = "returned" THEN Idle ELSE [cli EXCEPT !.pc = next]
  /\ UNCHANGED <<inst, staged, group, disk, boot, abandoned>>

(* The GitHub delivery's command returns here; bootstrap goes on.          *)
AfterAttach == IF cli.payload.delivery = "github" THEN "returned" ELSE "provision"

(* _provision_over_ssh: bootstrap is started, and its end awaited.         *)
Provision ==
  /\ At("provision") /\ boot[cli.inst] = "staged"
  /\ boot' = [boot EXCEPT ![cli.inst] = "mount"]
  /\ UNCHANGED <<inst, staged, volume, group, disk, cli, abandoned>>

Provisioned ==
  /\ At("provision") /\ boot[cli.inst] = "done"
  /\ cli' = IF cli.ssh THEN Idle ELSE [cli EXCEPT !.pc = "close"]
  /\ UNCHANGED <<inst, staged, volume, group, disk, boot, abandoned>>

(* _set_security_group_ssh_ingress: the deploy key's window is closed.     *)
CloseIngress ==
  /\ At("close")
  /\ group' = [group EXCEPT !.ssh = FALSE]
  /\ cli' = Idle
  /\ UNCHANGED <<inst, staged, volume, disk, boot, abandoned>>

-----------------------------------------------------------------------------
(* A command that fails                                                    *)

BeforeTry == {"terminate", "terminated"}

(* Any call may raise, or the operator interrupt.  The handler runs only   *)
(* inside the try block and only knows an instance whose launch answered;  *)
(* over SSH the connection may drop while bootstrap goes on.               *)
CliFails ==
  /\ cli.pc \notin {"idle", "cleanup"}
  /\ cli' = IF cli.pc \in BeforeTry \/ cli.inst = 0 THEN Idle ELSE [cli EXCEPT !.pc = "cleanup"]
  /\ UNCHANGED <<inst, staged, volume, group, disk, boot, abandoned>>

Cleanup ==
  /\ At("cleanup")
  /\ ShutDown({i \in {cli.inst} : inst[i] # NoInstance})
  /\ LoseRoot({cli.inst})
  /\ cli' = Idle
  /\ UNCHANGED <<volume, group, disk, abandoned>>

(* The handler's terminate call is best effort; and the command itself may *)
(* be killed, with no handler.                                             *)
CliLosesHost ==
  /\ cli.pc # "idle"
  /\ abandoned' = abandoned \cup ({cli.inst} \cap Instance)
  /\ cli' = Idle
  /\ UNCHANGED <<inst, staged, volume, group, disk, boot>>

-----------------------------------------------------------------------------
(* EC2, the power commands, and the operator                               *)

Detached(i) == [r \in Role |-> IF AttachedTo(i, r) THEN Available ELSE volume[r]]

(* A terminated instance lets go of the data volumes, which are kept, and  *)
(* takes everything else with it.  Its number may be given out again.      *)
Terminated(i) ==
  /\ inst[i].state = "shutting"
  /\ inst' = [inst EXCEPT ![i] = NoInstance]
  /\ volume' = Detached(i)
  /\ LoseRoot({i})
  /\ abandoned' = abandoned \ {i}
  /\ UNCHANGED <<group, disk, cli>>

PowerAllows(i) == cli.pc = "idle" /\ Live = {i} /\ Roles = Role

(* stop: user data does not run again, so a bootstrap it kills stays dead. *)
Stop(i) ==
  /\ PowerAllows(i) /\ Running(i)
  /\ inst' = [inst EXCEPT ![i].state = "stopped"]
  /\ boot' = [boot EXCEPT ![i] = IF Booting(i) THEN "killed" ELSE @]
  /\ abandoned' = IF Booting(i) THEN abandoned \cup {i} ELSE abandoned
  /\ UNCHANGED <<staged, volume, group, disk, cli>>

PowerOn(i) ==
  /\ PowerAllows(i) /\ inst[i].state = "stopped"
  /\ inst' = [inst EXCEPT ![i].state = "running"]
  /\ UNCHANGED <<staged, volume, group, disk, boot, cli, abandoned>>

(* What a failed first deploy tells the operator to do: delete the data    *)
(* volumes that hold no initialized state.                                 *)
DeleteBlank ==
  /\ cli.pc = "idle" /\ disk.version = 0
  /\ Roles # {} /\ \A r \in Roles : volume[r] = Available
  /\ volume' = [r \in Role |-> NoVolume]
  /\ disk' = Blank
  /\ UNCHANGED <<inst, staged, group, boot, cli, abandoned>>

-----------------------------------------------------------------------------
(* Bootstrap on the instance                                               *)

BootAt(i, pc) == Running(i) /\ boot[i] = pc
BootGoes(i, pc) == boot' = [boot EXCEPT ![i] = pc]

(* mount_durable_volumes                                                   *)
BootMount(i) ==
  /\ BootAt(i, "mount") /\ \A r \in Role : AttachedTo(i, r)
  /\ BootGoes(i, "gate")
  /\ UNCHANGED <<inst, staged, volume, group, disk, cli, abandoned>>

(* enforce_version_gate: version.json on the admin volume decides.         *)
GateAllows(p) ==
  CASE p.mode = "deploy"      -> disk.version = 0
    [] p.mode = "upgrade"     -> 0 < disk.version /\ disk.version < p.target
    [] p.mode = "recover"     -> disk.version \in IF p.allow THEN 1 .. p.target ELSE {p.target}
    [] p.mode = "reconfigure" -> 0 < disk.version /\ disk.version = p.target

BootGate(i) ==
  /\ BootAt(i, "gate") /\ GateAllows(staged[i])
  /\ BootGoes(i, "schema")
  /\ UNCHANGED <<inst, staged, volume, group, disk, cli, abandoned>>

AtLeast(a, b) == IF a < b THEN b ELSE a

(* Wrong: version.json is advanced with the schema.                        *)
BootSchemaAndVersion(i) ==
  /\ BootAt(i, "schema")
  /\ disk' = [disk EXCEPT !.schema = AtLeast(@, Target(i)), !.version = Target(i)]
  /\ BootGoes(i, "apps")
  /\ UNCHANGED <<inst, staged, volume, group, cli, abandoned>>

(* migrate up: every pending migration of the installed code, at once.     *)
BootSchema(i) ==
  /\ BootAt(i, "schema")
  /\ disk' = [disk EXCEPT !.schema = AtLeast(@, Target(i))]
  /\ BootGoes(i, "apps")
  /\ UNCHANGED <<inst, staged, volume, group, cli, abandoned>>

(* The apps' pending migrations, each run by the app's role and recorded.  *)
BootApps(i) ==
  /\ BootAt(i, "apps")
  /\ disk' = [disk EXCEPT !.apps = AtLeast(@, Target(i))]
  /\ BootGoes(i, "config")
  /\ UNCHANGED <<inst, staged, volume, group, cli, abandoned>>

(* write_config: from the payload, or carried over from the volume.        *)
Endpoints(i) == IF staged[i].mode \in PAYLOAD_MODES THEN staged[i].endpoints ELSE disk.endpoints

BootConfig(i) ==
  /\ BootAt(i, "config")
  /\ Endpoints(i) # {}
  /\ disk' = [disk EXCEPT !.endpoints = Endpoints(i)]
  /\ BootGoes(i, "finalize")
  /\ UNCHANGED <<inst, staged, volume, group, cli, abandoned>>

(* Once services run and are verified, finalize_deploy drops the deploy    *)
(* key and the payload, starts the apps, and writes version.json last.     *)
BootFinalize(i) ==
  /\ BootAt(i, "finalize")
  /\ disk' = [disk EXCEPT !.version = Target(i)]
  /\ staged' = [staged EXCEPT ![i] = NoPayload]
  /\ BootGoes(i, "done")
  /\ UNCHANGED <<inst, volume, group, cli, abandoned>>

(* Wrong: a failed detached bootstrap leaves its instance.                 *)
NoTrap(i) == inst

(* Any step may fail.  On the GitHub delivery the exit trap shuts the      *)
(* instance down, which terminates it; on the SSH delivery the command     *)
(* sees the exit status.                                                   *)
OnExit(i) == IF staged[i].delivery = "github" THEN [inst EXCEPT ![i].state = "shutting"] ELSE inst

BootFails(i) ==
  /\ Running(i) /\ Booting(i)
  /\ inst' = OnExit(i)
  /\ BootGoes(i, "failed")
  /\ UNCHANGED <<staged, volume, group, disk, cli, abandoned>>

BootSteps(i) ==
  \/ BootMount(i) \/ BootGate(i) \/ BootSchema(i) \/ BootApps(i)
  \/ BootConfig(i) \/ BootFinalize(i) \/ BootFails(i)

-----------------------------------------------------------------------------

Cli ==
  \/ \E p \in Command : Start(p)
  \/ TerminateExisting \/ WaitTerminated
  \/ EnsureVolume("admin", "agent") \/ EnsureVolume("agent", "group")
  \/ ResetGroup \/ Authorize
  \/ \E i \in Instance, answered \in BOOLEAN : Launch(i, answered)
  \/ Attach("admin", "attach_admin", "attach_agent") \/ Attach("agent", "attach_agent", AfterAttach)
  \/ Provision \/ Provisioned \/ CloseIngress
  \/ CliFails \/ Cleanup \/ CliLosesHost

Next ==
  \/ Cli
  \/ DeleteBlank
  \/ \E i \in Instance : Terminated(i) \/ Stop(i) \/ PowerOn(i) \/ BootSteps(i)

(* EC2 finishes a termination; root's bootstrap runs on, every one of its  *)
(* waits being bounded.  Nobody makes the operator do anything.            *)
Fairness == \A i \in Instance : WF_vars(Terminated(i)) /\ WF_vars(BootSteps(i))

Spec == Init /\ [][Next]_vars /\ Fairness

-----------------------------------------------------------------------------
(* What the code promises                                                  *)

TypeOK ==
  /\ inst \in [Instance -> [state : {"absent", "running", "stopped", "shutting"}, tag : 0 .. NVersions]]
  /\ staged \in [Instance -> Payload \cup {NoPayload}]
  /\ volume \in [Role -> [exists : BOOLEAN, at : 0 .. NInstances]]
  /\ group \in [exists : BOOLEAN, ssh : BOOLEAN]
  /\ disk \in [version : 0 .. NVersions, schema : 0 .. NVersions, apps : 0 .. NVersions,
               endpoints : Choice \cup {{}}]
  /\ boot \in [Instance -> {"none", "staged", "mount", "gate", "schema", "apps", "config",
                            "finalize", "done", "failed", "killed"}]
  /\ cli \in [pc : {"idle", "terminate", "terminated", "admin", "agent", "group", "authorize", "launch",
                    "attach_admin", "attach_agent", "provision", "close", "cleanup"},
              payload : Payload \cup {NoPayload}, existing : SUBSET Instance,
              ssh : BOOLEAN, inst : 0 .. NInstances]
  /\ abandoned \subseteq Instance

(* version.json never claims more than was done: the schemas of that       *)
(* release are in place and recorded, and there is a configuration for the *)
(* next upgrade or recover to carry over.                                  *)
VersionIsEarned ==
  disk.version > 0 =>
    /\ disk.version <= disk.schema /\ disk.version <= disk.apps
    /\ disk.endpoints # {}

(* An agent never has two hosts, not even when a launch's answer was lost  *)
(* or a command was killed between launching and terminating.              *)
OneHost == Cardinality(Live) <= 1

(* main_for_mode's handler and the exit trap: between commands a host is   *)
(* fully provisioned or still provisioning itself, unless its command was  *)
(* killed, lost it, or could not terminate it.                             *)
NoHalfHost ==
  cli.pc = "idle" =>
    \A i \in Live \ abandoned : boot[i] = "done" \/ (Booting(i) /\ staged[i].delivery = "github")

(* Preserved state only moves forward, through failed commands too: no     *)
(* later command finds an older version, an older schema, no operator      *)
(* endpoint or a missing volume.                                           *)
StateKept ==
  [][disk.version > 0 =>
       /\ disk'.version >= disk.version /\ disk'.schema >= disk.schema
       /\ disk'.endpoints # {}
       /\ \A r \in Role : volume'[r].exists]_vars

(* Nobody watches a detached bootstrap, yet it ends with a host or with    *)
(* none: a failure terminates the instance and frees the volumes for       *)
(* recover.  Only the operator's own stop leaves it half done.             *)
Detaching(i) == Booting(i) /\ staged[i].delivery = "github"
BootSettles ==
  \A i \in Instance : Detaching(i) ~> (boot[i] \in {"done", "killed"} \/ inst[i] = NoInstance)

=============================================================================
