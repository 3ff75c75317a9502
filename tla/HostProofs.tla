------------------------------ MODULE HostProofs ------------------------------
(***************************************************************************)
(* What holds of the services of one host, for every value of their        *)
(* constants:                                                              *)
(*                                                                         *)
(* - the life of the host, with the invariant HostInv: which instances may *)
(*   be alive at each place of a command, what a bootstrap past its        *)
(*   version gate knows of the volume it works on, and who answers for a   *)
(*   host that is not finished;                                            *)
(* - the memory of live validations, with the invariant ProbesInv: of      *)
(*   which credential a refusal in hand or remembered is;                  *)
(* - the steering of a task, with the invariant SteeringInv: where a       *)
(*   message may be, and how many turns are still ahead of the worker;     *)
(* - the sessions of the database, with the invariant SessionInv: what     *)
(*   each block holds and knows, and where a connection may be.            *)
(***************************************************************************)
EXTENDS HostLifecycle, LiveProbes, TaskSteering, DbSessions, FiniteSetTheorems, SequenceTheorems, TLAPS

-----------------------------------------------------------------------------
(* The life of one host                                                    *)

PastMount == {"gate", "schema", "apps", "config", "finalize"}
PastGate == {"schema", "apps", "config", "finalize"}
PastSchema == {"apps", "config", "finalize"}
PastApps == {"config", "finalize"}
BootPlaces == {"none", "staged", "mount", "done", "failed", "killed"} \cup PastMount

(* Nothing lives while the command prepares a launch.                      *)
Preparing == {"terminated", "admin", "agent", "group", "authorize", "launch"}
CommandOK ==
    /\ cli.pc = "terminate" => Live \subseteq cli.existing
    /\ cli.pc \in Preparing => Live = {}
OneLive == \A i, j \in Live : i = j

(* An attached volume exists, and so does one with a release on it.        *)
VolumeOK ==
    \A r \in Role : volume[r].at # 0 \/ disk.version > 0 => volume[r].exists

(* Bootstrap works on the volumes attached to its own instance; past its   *)
(* gate it installs a release no older than the volume's.                  *)
BootOK(i) ==
    /\ boot[i] \in PastMount => \A r \in Role : volume[r].at = i
    /\ boot[i] \in {"staged", "mount"} \cup PastMount => staged[i].target = inst[i].tag
    /\ boot[i] \in PastGate => disk.version <= inst[i].tag
    /\ boot[i] \in PastSchema => inst[i].tag <= disk.schema
    /\ boot[i] \in PastApps => inst[i].tag <= disk.apps
    /\ boot[i] = "finalize" => disk.endpoints # {}

(* An unfinished host is one of a detached bootstrap, or of a command that *)
(* waits for it over SSH.                                                  *)
Holding == {"attach_admin", "attach_agent", "provision", "cleanup"}
Answered(i) ==
    \/ boot[i] = "done" \/ Detaching(i)
    \/ i = cli.inst /\ cli.pc \in Holding /\ (cli.payload.delivery = "ssh" \/ cli.pc = "cleanup")
HalfOK == \A i \in Live \ abandoned : Answered(i)

HostInv ==
    /\ TypeOK /\ OneLive /\ CommandOK /\ VolumeOK
    /\ \A i \in Instance : BootOK(i)
    /\ VersionIsEarned /\ HalfOK

-----------------------------------------------------------------------------
(* Types                                                                   *)

InstRecord == [state : {"absent", "running", "stopped", "shutting"}, tag : 0 .. NVersions]
Payloads == Payload \cup {NoPayload}
VolRecord == [exists : BOOLEAN, at : 0 .. NInstances]
DiskRecord == [version : 0 .. NVersions, schema : 0 .. NVersions, apps : 0 .. NVersions,
               endpoints : Choice \cup {{}}]
CliRecord ==
    [pc : {"idle", "terminate", "terminated", "admin", "agent", "group", "authorize", "launch",
           "attach_admin", "attach_agent", "provision", "close", "cleanup"},
     payload : Payloads, existing : SUBSET Instance, ssh : BOOLEAN, inst : 0 .. NInstances]

Typed ==
    /\ inst \in [Instance -> InstRecord] /\ staged \in [Instance -> Payloads]
    /\ volume \in [Role -> VolRecord] /\ group \in [exists : BOOLEAN, ssh : BOOLEAN]
    /\ disk \in DiskRecord /\ boot \in [Instance -> BootPlaces]
    /\ cli \in CliRecord /\ abandoned \subseteq Instance

LEMMA Types == (TypeOK <=> Typed) /\ (TypeOK' <=> Typed')
<1>1. BootPlaces = {"none", "staged", "mount", "gate", "schema", "apps", "config", "finalize",
                    "done", "failed", "killed"}
    BY DEF BootPlaces, PastMount
<1>2. TypeOK <=> Typed
    BY <1>1 DEF Typed, TypeOK, InstRecord, Payloads, VolRecord, DiskRecord, CliRecord
<1>3. TypeOK' <=> Typed'
    BY <1>1 DEF Typed, TypeOK, InstRecord, Payloads, VolRecord, DiskRecord, CliRecord
<1>. QED BY <1>2, <1>3

LEMMA Fields ==
    ASSUME TypeOK
    PROVE  /\ \A i \in Instance : /\ inst[i] \in InstRecord /\ inst[i].tag \in 0 .. NVersions
                                  /\ staged[i] \in Payloads
           /\ \A r \in Role : volume[r] \in VolRecord
           /\ disk.version \in Nat /\ disk.schema \in Nat /\ disk.apps \in Nat
           /\ cli.inst \in 0 .. NInstances /\ cli.payload \in Payloads
           /\ cli.existing \in SUBSET Instance
           /\ \A i \in Instance : i \in Nat /\ i # 0
<1>1. disk.version \in 0 .. NVersions /\ disk.schema \in 0 .. NVersions /\ disk.apps \in 0 .. NVersions
    BY Types DEF DiskRecord, Typed
<1>2. \A i \in Instance : inst[i] \in InstRecord /\ inst[i].tag \in 0 .. NVersions
    BY Types DEF InstRecord, Typed
<1>3. cli.inst \in 0 .. NInstances /\ cli.payload \in Payloads /\ cli.existing \in SUBSET Instance
    BY Types DEF CliRecord, Typed
<1>. QED BY <1>1, <1>2, <1>3, Types, HostConstants DEF Instance, Typed

LEMMA Starts ==
    /\ NoPayload \in Payloads /\ NoInstance \in InstRecord /\ Idle \in CliRecord
    /\ NoVolume \in VolRecord /\ Available \in VolRecord /\ Blank \in DiskRecord
<1>1. 0 \in 0 .. NVersions /\ 0 \in 0 .. NInstances
    BY HostConstants
<1>2. NoPayload \in Payloads
    BY DEF Payloads
<1>3. NoInstance \in InstRecord /\ NoVolume \in VolRecord /\ Available \in VolRecord
    BY <1>1 DEF NoInstance, InstRecord, NoVolume, Available, VolRecord
<1>4. Idle \in CliRecord
    BY <1>1, <1>2 DEF Idle, CliRecord
<1>5. Blank \in DiskRecord
    BY <1>1 DEF Blank, DiskRecord
<1>. QED BY <1>2, <1>3, <1>4, <1>5

LEMMA HostInvInit == Init => HostInv
<1>. SUFFICES ASSUME Init PROVE HostInv
    OBVIOUS
<1>1. TypeOK
    <2>1. "none" \in BootPlaces /\ [exists |-> FALSE, ssh |-> FALSE] \in [exists : BOOLEAN, ssh : BOOLEAN]
        BY DEF BootPlaces
    <2>. QED BY <2>1, Starts, Types DEF Init, Typed
<1>2. Live = {}
    BY DEF Live, Init, NoInstance
<1>3. cli.pc = "idle" /\ disk.version = 0 /\ \A i \in Instance : boot[i] = "none"
    BY DEF Init, Idle, Blank
<1>4. VolumeOK /\ VersionIsEarned
    BY <1>3 DEF VolumeOK, VersionIsEarned, Init, NoVolume
<1>5. \A i \in Instance : BootOK(i)
    BY <1>3 DEF BootOK, PastMount, PastGate, PastSchema, PastApps
<1>. QED BY <1>1, <1>2, <1>3, <1>4, <1>5 DEF HostInv, OneLive, CommandOK, Preparing, HalfOK

-----------------------------------------------------------------------------
(* Frames                                                                  *)

(* Only the command's own place, and the security group, change.           *)
LEMMA CommandMoves ==
    ASSUME HostInv, UNCHANGED <<inst, staged, volume, disk, boot, abandoned>>,
           cli' \in CliRecord, group' \in [exists : BOOLEAN, ssh : BOOLEAN],
           CommandOK', \A i \in Live \ abandoned : Answered(i)'
    PROVE  HostInv'
<1>1. TypeOK'
    BY Types DEF HostInv, Typed
<1>2. Live' = Live
    BY DEF Live
<1>3. OneLive' /\ HalfOK'
    BY <1>2 DEF HostInv, OneLive, HalfOK
<1>4. VolumeOK' /\ VersionIsEarned'
    BY DEF HostInv, VolumeOK, VersionIsEarned
<1>5. \A i \in Instance : BootOK(i)'
    BY DEF HostInv, BootOK
<1>. QED BY <1>1, <1>3, <1>4, <1>5 DEF HostInv

(* Instances that lose their bootstrap, or at least its running on.        *)
LEMMA BootsEnd ==
    ASSUME HostInv, TypeOK', UNCHANGED <<volume, disk>>, Live' \subseteq Live, CommandOK', HalfOK',
           \A i \in Instance :
              \/ boot'[i] \in {"none", "failed", "killed"}
              \/ boot'[i] = boot[i] /\ staged'[i] = staged[i] /\ inst'[i].tag = inst[i].tag
    PROVE  HostInv'
<1>1. OneLive'
    BY DEF HostInv, OneLive
<1>2. VolumeOK' /\ VersionIsEarned'
    BY DEF HostInv, VolumeOK, VersionIsEarned
<1>3. ASSUME NEW i \in Instance PROVE BootOK(i)'
    <2>1. CASE boot'[i] \in {"none", "failed", "killed"}
        BY <2>1 DEF BootOK, PastMount, PastGate, PastSchema, PastApps
    <2>2. CASE boot'[i] = boot[i] /\ staged'[i] = staged[i] /\ inst'[i].tag = inst[i].tag
        BY <2>2 DEF HostInv, BootOK
    <2>. QED BY <2>1, <2>2
<1>. QED BY <1>1, <1>2, <1>3 DEF HostInv

(* One bootstrap goes on, and what it writes only grows.                   *)
LEMMA BootMoves ==
    ASSUME HostInv, NEW i \in Instance, NEW q \in PastMount, Booting(i),
           boot' = [boot EXCEPT ![i] = q],
           UNCHANGED <<inst, staged, volume, group, cli, abandoned>>, disk' \in DiskRecord,
           disk'.version = disk.version,
           disk.schema <= disk'.schema, disk.apps <= disk'.apps,
           disk.endpoints # {} => disk'.endpoints # {},
           BootOK(i)'
    PROVE  HostInv'
<1>. TypeOK
    BY DEF HostInv
<1>1. boot'[i] = q /\ \A j \in Instance : j # i => boot'[j] = boot[j]
    BY Types DEF Typed
<1>2. TypeOK'
    BY Types DEF BootPlaces, Typed
<1>3. Live' = Live
    BY DEF Live
<1>4. OneLive' /\ CommandOK'
    BY <1>3 DEF HostInv, OneLive, CommandOK
<1>5. VolumeOK'
    BY DEF HostInv, VolumeOK
<1>6. VersionIsEarned'
    BY <1>2, Fields DEF HostInv, VersionIsEarned, DiskRecord
<1>7. ASSUME NEW j \in Instance, j # i PROVE BootOK(j)'
    <2>1. BootOK(j) /\ boot'[j] = boot[j]
        BY <1>1, <1>7 DEF HostInv
    <2>2. inst[j].tag \in Nat /\ disk.schema \in Nat /\ disk.apps \in Nat
          /\ disk'.schema \in Nat /\ disk'.apps \in Nat
        BY Fields DEF DiskRecord
    <2>. QED BY <2>1, <2>2 DEF BootOK
<1>8. HalfOK'
    <2>. SUFFICES ASSUME NEW j \in Live \ abandoned PROVE Answered(j)'
        BY <1>3 DEF HalfOK
    <2>1. Answered(j) /\ j \in Instance
        BY DEF HostInv, HalfOK, Live
    <2>2. CASE j = i
        <3>1. boot[i] # "done"
            BY DEF Booting
        <3>2. Booting(i)'
            BY <1>1 DEF Booting, PastMount
        <3>. QED BY <2>1, <2>2, <3>1, <3>2 DEF Answered, Detaching
    <2>3. CASE j # i
        BY <1>1, <2>1, <2>3 DEF Answered, Detaching, Booting
    <2>. QED BY <2>2, <2>3
<1>. QED BY <1>2, <1>4, <1>5, <1>6, <1>7, <1>8 DEF HostInv

-----------------------------------------------------------------------------
(* The command                                                             *)

LEMMA GoesIs ==
    ASSUME TypeOK, NEW pc \in {"admin", "agent", "group", "authorize", "launch", "terminated",
                               "close", "cleanup"},
           Goes(pc)
    PROVE  /\ cli' \in CliRecord /\ cli'.pc = pc /\ cli'.payload = cli.payload
           /\ cli'.existing = cli.existing /\ cli'.inst = cli.inst
<1>1. cli \in CliRecord
    BY Types DEF Typed
<1>. QED BY <1>1 DEF Goes, CliRecord

LEMMA StartKeeps == ASSUME HostInv, NEW p \in Command, Start(p) PROVE HostInv'
<1>. DEFINE c == [pc |-> IF Live = {} THEN "admin" ELSE "terminate", payload |-> p,
                  existing |-> Live, ssh |-> Access(p), inst |-> 0]
<1>1. cli' = c /\ cli.pc = "idle" /\ UNCHANGED <<inst, staged, volume, group, disk, boot, abandoned>>
    BY DEF Start
<1>2. c \in CliRecord
    <2>1. Access(p) \in BOOLEAN
        <3>1. CASE p.mode \in PAYLOAD_MODES
            <4>1. Access(p) = ("ssh" \in p.endpoints)
                BY <3>1 DEF Access
            <4>. QED BY <4>1
        <3>2. CASE p.mode \notin PAYLOAD_MODES
            BY <3>2, Zenon DEF Access
        <3>. QED BY <3>1, <3>2
    <2>2. p \in Payloads /\ Live \in SUBSET Instance /\ 0 \in 0 .. NInstances
        BY HostConstants DEF Command, Payloads, Live
    <2>. QED BY <2>1, <2>2 DEF CliRecord
<1>3. cli'.pc = (IF Live = {} THEN "admin" ELSE "terminate") /\ cli'.existing = Live
    BY <1>1
<1>4. Live' = Live
    BY <1>1 DEF Live
<1>5. CommandOK'
    BY <1>3, <1>4 DEF CommandOK, Preparing
<1>6. \A i \in Live \ abandoned : Answered(i)'
    <2>1. \A i \in Live \ abandoned : boot[i] = "done" \/ Detaching(i)
        BY <1>1 DEF HostInv, HalfOK, Answered, Holding
    <2>. QED BY <1>1, <2>1 DEF Answered, Detaching, Booting
<1>7. group' \in [exists : BOOLEAN, ssh : BOOLEAN]
    BY <1>1, Types DEF HostInv, Typed
<1>. QED BY <1>1, <1>2, <1>5, <1>6, <1>7, CommandMoves

(* Whatever is shut down is no longer live, and forgets its payload.       *)
LEMMA ShutDownIs ==
    ASSUME TypeOK, NEW S \in SUBSET Instance, NEW T \in SUBSET S, ShutDown(T), LoseRoot(S),
           \A i \in S \ T : inst[i] = NoInstance
    PROVE  /\ inst' \in [Instance -> InstRecord] /\ staged' \in [Instance -> Payloads]
           /\ boot' \in [Instance -> BootPlaces]
           /\ Live' = Live \ S
           /\ \A i \in Instance : inst'[i].tag = inst[i].tag
           /\ \A i \in S : boot'[i] = "none"
           /\ \A i \in Instance \ S : boot'[i] = boot[i] /\ staged'[i] = staged[i]
<1>1. ASSUME NEW i \in Instance
      PROVE  /\ inst'[i] \in InstRecord /\ inst'[i].tag = inst[i].tag
             /\ i \in T => inst'[i].state = "shutting"
             /\ i \notin T => inst'[i] = inst[i]
    <2>1. inst[i] \in InstRecord
        BY Types DEF Typed
    <2>2. CASE i \in T
        <3>1. inst'[i] = [inst[i] EXCEPT !.state = "shutting"]
            BY <2>2 DEF ShutDown
        <3>. QED BY <2>1, <2>2, <3>1 DEF InstRecord
    <2>3. CASE i \notin T
        BY <2>1, <2>3 DEF ShutDown
    <2>. QED BY <2>2, <2>3
<1>2. inst' \in [Instance -> InstRecord]
    <2>1. inst' = [i \in Instance |-> inst'[i]]
        BY Zenon DEF ShutDown
    <2>. QED BY <1>1, <2>1
<1>3. staged' \in [Instance -> Payloads] /\ boot' \in [Instance -> BootPlaces]
    BY Starts, Types DEF LoseRoot, BootPlaces, Typed
<1>4. Live' = Live \ S
    BY <1>1 DEF Live, NoInstance
<1>. QED BY <1>1, <1>2, <1>3, <1>4 DEF LoseRoot

LEMMA TerminateKeeps == ASSUME HostInv, TerminateExisting PROVE HostInv'
<1>. TypeOK
    BY DEF HostInv
<1>1. /\ cli.pc = "terminate" /\ ShutDown({i \in cli.existing : inst[i] # NoInstance})
      /\ LoseRoot(cli.existing) /\ Goes("terminated") /\ UNCHANGED <<volume, group, disk, abandoned>>
    BY DEF TerminateExisting, At
<1>2. cli' \in CliRecord /\ cli'.pc = "terminated"
    BY <1>1, GoesIs
<1>3. /\ inst' \in [Instance -> InstRecord] /\ staged' \in [Instance -> Payloads]
      /\ boot' \in [Instance -> BootPlaces] /\ Live' = Live \ cli.existing
      /\ \A i \in Instance : inst'[i].tag = inst[i].tag
      /\ \A i \in cli.existing : boot'[i] = "none"
      /\ \A i \in Instance \ cli.existing : boot'[i] = boot[i] /\ staged'[i] = staged[i]
    BY <1>1, Fields, ShutDownIs
<1>4. Live' = {}
    BY <1>1, <1>3 DEF HostInv, CommandOK
<1>5. TypeOK'
    BY <1>1, <1>2, <1>3, Types DEF Typed
<1>6. CommandOK' /\ HalfOK'
    BY <1>2, <1>4 DEF CommandOK, HalfOK
<1>. QED BY <1>1, <1>3, <1>4, <1>5, <1>6, BootsEnd

(* A host that was finished, or finishes itself, stays so while only the   *)
(* command moves.                                                          *)
LEMMA NobodyHeld ==
    ASSUME HostInv, UNCHANGED <<staged, boot>>, cli.pc \notin Holding, NEW i \in Live \ abandoned
    PROVE  Answered(i)'
BY DEF HostInv, HalfOK, Answered, Detaching, Booting

LEMMA WaitTerminatedKeeps == ASSUME HostInv, WaitTerminated PROVE HostInv'
<1>1. cli.pc = "terminated" /\ cli' = [cli EXCEPT !.pc = "admin", !.existing = {}]
      /\ UNCHANGED <<inst, staged, volume, group, disk, boot, abandoned>>
    BY DEF WaitTerminated, At
<1>2. cli \in CliRecord /\ group' \in [exists : BOOLEAN, ssh : BOOLEAN]
    BY <1>1, Types DEF HostInv, Typed
<1>3. cli' \in CliRecord /\ cli'.pc = "admin"
    BY <1>1, <1>2 DEF CliRecord
<1>4. CommandOK'
    BY <1>1, <1>3 DEF HostInv, CommandOK, Preparing, Live
<1>5. \A i \in Live \ abandoned : Answered(i)'
    BY <1>1, NobodyHeld DEF Holding
<1>. QED BY <1>1, <1>2, <1>3, <1>4, <1>5, CommandMoves

LEMMA GroupKeeps == ASSUME HostInv, ResetGroup \/ Authorize PROVE HostInv'
<1>. TypeOK
    BY DEF HostInv
<1>1. UNCHANGED <<inst, staged, volume, disk, boot, abandoned>> /\ cli.pc \in {"group", "authorize"}
    BY DEF ResetGroup, Authorize, At
<1>2. group' \in [exists : BOOLEAN, ssh : BOOLEAN]
    <2>1. cli.ssh \in BOOLEAN
        BY Types DEF CliRecord, Typed
    <2>. DEFINE open == cli.ssh \/ cli.payload.delivery = "ssh"
    <2>2. open \in BOOLEAN
        BY Zenon
    <2>3. group' = [exists |-> TRUE, ssh |-> FALSE] \/ group' = [exists |-> TRUE, ssh |-> open]
        BY Zenon DEF ResetGroup, Authorize
    <2>4. \A o \in BOOLEAN : [exists |-> TRUE, ssh |-> o] \in [exists : BOOLEAN, ssh : BOOLEAN]
        OBVIOUS
    <2>. HIDE DEF open
    <2>. QED BY <2>2, <2>3, <2>4, Zenon
<1>3. cli' \in CliRecord /\ cli'.pc \in {"authorize", "launch"}
    BY GoesIs DEF ResetGroup, Authorize
<1>4. CommandOK'
    BY <1>1, <1>3 DEF HostInv, CommandOK, Preparing, Live
<1>5. \A i \in Live \ abandoned : Answered(i)'
    BY <1>1, NobodyHeld DEF Holding
<1>. QED BY <1>1, <1>2, <1>3, <1>4, <1>5, CommandMoves

LEMMA EnsureVolumeKeeps ==
    ASSUME HostInv,
           EnsureVolume("admin", "agent") \/ EnsureVolume("agent", "group")
    PROVE  HostInv'
<1>. TypeOK
    BY DEF HostInv
<1>1. PICK r \in Role : EnsureVolume(r, IF r = "admin" THEN "agent" ELSE "group")
    BY DEF Role
<1>. DEFINE next == IF r = "admin" THEN "agent" ELSE "group"
<1>2. /\ cli.pc = r /\ volume[r].at = 0 /\ volume' = [volume EXCEPT ![r] = Available]
      /\ disk' = (IF r = "admin" /\ ~volume[r].exists THEN Blank ELSE disk)
      /\ Goes(next) /\ UNCHANGED <<inst, staged, group, boot, abandoned>>
    BY <1>1 DEF EnsureVolume, At
<1>3. next \in {"agent", "group"} /\ cli.pc \in {"admin", "agent"}
    BY <1>2 DEF Role
<1>4. cli' \in CliRecord /\ cli'.pc = next
    BY <1>2, <1>3, GoesIs
<1>. HIDE DEF next
<1>5. /\ volume' \in [Role -> VolRecord] /\ volume'[r] = Available
      /\ \A s \in Role : s # r => volume'[s] = volume[s]
    BY <1>2, Starts, Types DEF Typed
<1>6. TypeOK'
    BY <1>2, <1>4, <1>5, Starts, Types DEF Typed
<1>7. Live' = Live /\ Live = {}
    <2>1. cli.pc \in Preparing
        BY <1>3 DEF Preparing
    <2>. QED BY <1>2, <2>1 DEF HostInv, CommandOK, Live
<1>8. OneLive' /\ CommandOK' /\ HalfOK'
    BY <1>3, <1>4, <1>7 DEF OneLive, CommandOK, HalfOK, Preparing
<1>9. disk' = disk \/ disk'.version = 0
    BY <1>2 DEF Blank
<1>10. VolumeOK'
    BY <1>5, <1>9 DEF HostInv, VolumeOK, Available
<1>11. VersionIsEarned'
    BY <1>9 DEF HostInv, VersionIsEarned
<1>12. ASSUME NEW i \in Instance PROVE BootOK(i)'
    <2>1. BootOK(i) /\ boot'[i] = boot[i] /\ inst'[i] = inst[i] /\ staged'[i] = staged[i]
        BY <1>2 DEF HostInv
    <2>2. boot[i] \notin PastMount
        BY <1>2, <2>1, Fields DEF BootOK
    <2>. QED BY <2>1, <2>2 DEF BootOK, PastMount, PastGate, PastSchema, PastApps
<1>. QED BY <1>6, <1>8, <1>10, <1>11, <1>12 DEF HostInv

LEMMA LaunchKeeps ==
    ASSUME HostInv, NEW i \in Instance, NEW confirmed \in BOOLEAN, Launch(i, confirmed) PROVE HostInv'
<1>. TypeOK
    BY DEF HostInv
<1>. DEFINE made == [state |-> "running", tag |-> cli.payload.target]
            place == IF cli.payload.delivery = "github" THEN "mount" ELSE "staged"
<1>1. /\ cli.pc = "launch" /\ inst' = [inst EXCEPT ![i] = made]
      /\ staged' = [staged EXCEPT ![i] = cli.payload] /\ boot' = [boot EXCEPT ![i] = place]
      /\ cli' = (IF confirmed THEN [cli EXCEPT !.pc = "attach_admin", !.inst = i] ELSE Idle)
      /\ abandoned' = (IF confirmed THEN abandoned ELSE abandoned \cup {i})
      /\ UNCHANGED <<volume, group, disk>>
    BY DEF Launch, At
<1>2. cli \in CliRecord /\ cli.payload \in Payloads /\ cli.payload.target \in 0 .. NVersions
      /\ cli.payload.delivery \in {"ssh", "github"}
    <2>1. cli \in CliRecord /\ cli.payload \in Payloads
        BY Types, Fields DEF Typed
    <2>. QED BY <2>1, HostConstants DEF Payloads, Payload, NoPayload, Version, Delivery
<1>3. made \in InstRecord /\ place \in {"mount", "staged"} /\ i \in 0 .. NInstances
    BY <1>2 DEF InstRecord, Instance
<1>4. cli' \in CliRecord /\ cli'.pc \in {"idle", "attach_admin"}
    <2>1. CASE confirmed
        <3>1. cli' = [cli EXCEPT !.pc = "attach_admin", !.inst = i]
            BY <1>1, <2>1
        <3>. QED BY <1>2, <1>3, <3>1 DEF CliRecord
    <2>2. CASE ~confirmed
        BY <1>1, <2>2, Starts DEF Idle
    <2>. QED BY <2>1, <2>2
<1>5. /\ inst' \in [Instance -> InstRecord] /\ inst'[i] = made
      /\ \A j \in Instance : j # i => inst'[j] = inst[j]
    BY <1>1, <1>3, Types DEF Typed
<1>6. /\ staged' \in [Instance -> Payloads] /\ staged'[i] = cli.payload
      /\ \A j \in Instance : j # i => staged'[j] = staged[j]
    BY <1>1, <1>2, Types DEF Typed
<1>7. /\ boot' \in [Instance -> BootPlaces] /\ boot'[i] = place
      /\ \A j \in Instance : j # i => boot'[j] = boot[j]
    BY <1>1, <1>3, Types DEF BootPlaces, Typed
<1>8. TypeOK'
    BY <1>1, <1>4, <1>5, <1>6, <1>7, Types DEF Typed
<1>9. Live' = {i}
    <2>1. Live = {}
        BY <1>1 DEF HostInv, CommandOK, Preparing
    <2>. QED BY <1>5, <2>1 DEF Live
<1>10. OneLive' /\ CommandOK'
    BY <1>4, <1>9 DEF OneLive, CommandOK, Preparing
<1>11. VolumeOK' /\ VersionIsEarned'
    BY <1>1 DEF HostInv, VolumeOK, VersionIsEarned
<1>12. ASSUME NEW j \in Instance PROVE BootOK(j)'
    <2>1. CASE j = i
        <3>1. boot'[j] \in {"mount", "staged"} /\ staged'[j].target = inst'[j].tag
            BY <1>3, <1>5, <1>6, <1>7, <2>1
        <3>. QED BY <3>1 DEF BootOK, PastMount, PastGate, PastSchema, PastApps
    <2>2. CASE j # i
        BY <1>1, <1>5, <1>6, <1>7, <2>2 DEF HostInv, BootOK
    <2>. QED BY <2>1, <2>2
<1>13. HalfOK'
    <2>. SUFFICES ASSUME NEW j \in Live' \ abandoned' PROVE Answered(j)'
        BY DEF HalfOK
    <2>1. j = i /\ confirmed
        BY <1>1, <1>9
    <2>2. cli'.pc = "attach_admin" /\ cli'.inst = i /\ cli'.payload = cli.payload
        BY <1>1, <1>2, <2>1 DEF CliRecord
    <2>3. CASE cli.payload.delivery = "ssh"
        BY <2>1, <2>2, <2>3 DEF Answered, Holding
    <2>4. CASE cli.payload.delivery = "github"
        BY <1>6, <1>7, <2>1, <2>4 DEF Answered, Detaching, Booting
    <2>. QED BY <1>2, <2>3, <2>4
<1>. QED BY <1>8, <1>10, <1>11, <1>12, <1>13 DEF HostInv

LEMMA AttachKeeps ==
    ASSUME HostInv, NEW r \in Role, NEW pc \in {"attach_admin", "attach_agent"},
           NEW next \in {"attach_agent", "returned", "provision"},
           next = "returned" => cli.payload.delivery = "github",
           Attach(r, pc, next)
    PROVE  HostInv'
<1>. TypeOK
    BY DEF HostInv
<1>1. /\ cli.pc = pc /\ volume[r] = Available /\ volume' = [volume EXCEPT ![r].at = cli.inst]
      /\ cli' = (IF next = "returned" THEN Idle ELSE [cli EXCEPT !.pc = next])
      /\ UNCHANGED <<inst, staged, group, disk, boot, abandoned>>
    BY DEF Attach, At
<1>2. volume[r] \in VolRecord /\ volume[r].exists
      /\ volume'[r] = [volume[r] EXCEPT !.at = cli.inst] /\ cli.inst \in 0 .. NInstances
    <2>1. volume[r] \in VolRecord /\ volume'[r] = [volume[r] EXCEPT !.at = cli.inst]
        BY <1>1, Types DEF Typed
    <2>2. volume[r].exists
        BY <1>1 DEF Available
    <2>. QED BY <2>1, <2>2, Fields
<1>3. volume'[r].exists /\ volume'[r] \in VolRecord
    BY <1>2 DEF VolRecord
<1>4. volume' \in [Role -> VolRecord] /\ \A s \in Role : s # r => volume'[s] = volume[s]
    BY <1>1, <1>3, Types DEF Typed
<1>5. cli' \in CliRecord /\ cli'.pc \in {"idle", "attach_agent", "provision"}
    <2>1. CASE next = "returned"
        BY <1>1, <2>1, Starts DEF Idle
    <2>2. CASE next # "returned"
        BY <1>1, <2>2, Types DEF CliRecord, Typed
    <2>. QED BY <2>1, <2>2
<1>6. TypeOK'
    BY <1>1, <1>4, <1>5, Types DEF Typed
<1>7. Live' = Live
    BY <1>1 DEF Live
<1>8. OneLive' /\ CommandOK'
    BY <1>5, <1>7 DEF HostInv, OneLive, CommandOK, Preparing
<1>9. VolumeOK' /\ VersionIsEarned'
    BY <1>1, <1>3, <1>4 DEF HostInv, VolumeOK, VersionIsEarned
<1>10. ASSUME NEW i \in Instance PROVE BootOK(i)'
    <2>1. BootOK(i) /\ boot'[i] = boot[i] /\ inst'[i] = inst[i] /\ staged'[i] = staged[i] /\ disk' = disk
        BY <1>1 DEF HostInv
    <2>2. boot[i] \notin PastMount
        BY <1>1, <2>1, Fields DEF BootOK, Available
    <2>. QED BY <2>1, <2>2 DEF BootOK, PastMount, PastGate, PastSchema, PastApps
<1>11. HalfOK'
    <2>. SUFFICES ASSUME NEW i \in Live \ abandoned PROVE Answered(i)'
        BY <1>1, <1>7 DEF HalfOK
    <2>1. Answered(i)
        BY DEF HostInv, HalfOK
    <2>2. CASE boot[i] = "done" \/ Detaching(i)
        BY <1>1, <2>2 DEF Answered, Detaching, Booting
    <2>3. CASE i = cli.inst /\ cli.pc \in Holding /\ cli.payload.delivery = "ssh"
        <3>1. next # "returned"
            BY <2>3
        <3>2. cli'.inst = cli.inst /\ cli'.payload = cli.payload /\ cli'.pc \in {"attach_agent", "provision"}
            BY <1>1, <3>1, Types DEF CliRecord, Typed
        <3>. QED BY <2>3, <3>2 DEF Answered, Holding
    <2>. QED BY <1>1, <2>1, <2>2, <2>3 DEF Answered
<1>. QED BY <1>6, <1>8, <1>9, <1>10, <1>11 DEF HostInv

LEMMA ProvisionKeeps == ASSUME HostInv, Provision PROVE HostInv'
<1>. TypeOK
    BY DEF HostInv
<1>. DEFINE i == cli.inst
<1>1. cli.pc = "provision" /\ boot[i] = "staged" /\ boot' = [boot EXCEPT ![i] = "mount"]
      /\ UNCHANGED <<inst, staged, volume, group, disk, cli, abandoned>>
    BY DEF Provision, At
<1>. HIDE DEF i
<1>2. \A j \in Instance : boot'[j] = (IF j = i THEN "mount" ELSE boot[j])
    BY <1>1, Types DEF Typed
<1>3. boot' \in [Instance -> BootPlaces]
    BY <1>1, Types DEF BootPlaces, Typed
<1>4. TypeOK'
    BY <1>1, <1>3, Types DEF Typed
<1>5. Live' = Live
    BY <1>1 DEF Live
<1>6. OneLive' /\ CommandOK' /\ VolumeOK' /\ VersionIsEarned'
    BY <1>1, <1>5 DEF HostInv, OneLive, CommandOK, VolumeOK, VersionIsEarned
<1>7. ASSUME NEW j \in Instance PROVE BootOK(j)'
    <2>1. CASE j = i
        BY <1>1, <1>2, <2>1 DEF HostInv, BootOK, PastMount, PastGate, PastSchema, PastApps
    <2>2. CASE j # i
        BY <1>1, <1>2, <2>2 DEF HostInv, BootOK
    <2>. QED BY <2>1, <2>2
<1>8. HalfOK'
    <2>. SUFFICES ASSUME NEW j \in Live \ abandoned PROVE Answered(j)'
        BY <1>1, <1>5 DEF HalfOK
    <2>1. Answered(j) /\ j \in Instance
        BY DEF HostInv, HalfOK, Live
    <2>2. CASE j = i
        BY <1>1, <1>2, <2>1, <2>2 DEF Answered, Detaching, Booting
    <2>3. CASE j # i
        BY <1>1, <1>2, <2>1, <2>3 DEF Answered, Detaching, Booting
    <2>. QED BY <2>2, <2>3
<1>. QED BY <1>4, <1>6, <1>7, <1>8 DEF HostInv

LEMMA ProvisionedKeeps == ASSUME HostInv, Provisioned PROVE HostInv'
<1>. TypeOK
    BY DEF HostInv
<1>1. /\ cli.pc = "provision" /\ boot[cli.inst] = "done"
      /\ cli' = (IF cli.ssh THEN Idle ELSE [cli EXCEPT !.pc = "close"])
      /\ UNCHANGED <<inst, staged, volume, group, disk, boot, abandoned>>
    BY DEF Provisioned, At
<1>2. cli' \in CliRecord /\ cli'.pc \in {"idle", "close"}
    <2>1. CASE cli.ssh
        BY <1>1, <2>1, Starts DEF Idle
    <2>2. CASE ~cli.ssh
        BY <1>1, <2>2, Types DEF CliRecord, Typed
    <2>. QED BY <2>1, <2>2
<1>3. CommandOK'
    BY <1>2 DEF CommandOK, Preparing
<1>4. \A i \in Live \ abandoned : Answered(i)'
    <2>. SUFFICES ASSUME NEW i \in Live \ abandoned PROVE boot[i] = "done" \/ Detaching(i)
        BY <1>1 DEF Answered, Detaching, Booting
    <2>. QED BY <1>1 DEF HostInv, HalfOK, Answered
<1>5. group' \in [exists : BOOLEAN, ssh : BOOLEAN]
    BY <1>1, Types DEF Typed
<1>. QED BY <1>1, <1>2, <1>3, <1>4, <1>5, CommandMoves

LEMMA CloseIngressKeeps == ASSUME HostInv, CloseIngress PROVE HostInv'
<1>. TypeOK
    BY DEF HostInv
<1>1. cli.pc = "close" /\ cli' = Idle /\ group' = [group EXCEPT !.ssh = FALSE]
      /\ UNCHANGED <<inst, staged, volume, disk, boot, abandoned>>
    BY DEF CloseIngress, At
<1>2. cli' \in CliRecord /\ cli'.pc = "idle"
    BY <1>1, Starts DEF Idle
<1>3. CommandOK'
    BY <1>2 DEF CommandOK, Preparing
<1>4. \A i \in Live \ abandoned : Answered(i)'
    BY <1>1, NobodyHeld DEF Holding
<1>5. group' \in [exists : BOOLEAN, ssh : BOOLEAN]
    BY <1>1, Types DEF Typed
<1>. QED BY <1>1, <1>2, <1>3, <1>4, <1>5, CommandMoves

LEMMA CliFailsKeeps == ASSUME HostInv, CliFails PROVE HostInv'
<1>. TypeOK
    BY DEF HostInv
<1>1. /\ cli.pc # "idle"
      /\ cli' = (IF cli.pc \in BeforeTry \/ cli.inst = 0 THEN Idle ELSE [cli EXCEPT !.pc = "cleanup"])
      /\ UNCHANGED <<inst, staged, volume, group, disk, boot, abandoned>>
    BY DEF CliFails
<1>2. cli' \in CliRecord /\ cli'.pc \in {"idle", "cleanup"}
    <2>1. CASE cli.pc \in BeforeTry \/ cli.inst = 0
        BY <1>1, <2>1, Starts DEF Idle
    <2>2. CASE ~(cli.pc \in BeforeTry \/ cli.inst = 0)
        BY <1>1, <2>2, Types DEF CliRecord, Typed
    <2>. QED BY <2>1, <2>2
<1>3. CommandOK'
    BY <1>2 DEF CommandOK, Preparing
<1>4. ASSUME NEW i \in Live \ abandoned PROVE Answered(i)'
    <2>1. Answered(i) /\ i \in Instance
        BY DEF HostInv, HalfOK, Live
    <2>2. CASE boot[i] = "done" \/ Detaching(i)
        BY <1>1, <2>2 DEF Answered, Detaching, Booting
    <2>3. CASE i = cli.inst /\ cli.pc \in Holding
        <3>1. cli.pc \notin BeforeTry /\ cli.inst # 0
            BY <2>1, <2>3, Fields DEF BeforeTry, Holding
        <3>2. cli'.pc = "cleanup" /\ cli'.inst = cli.inst
            BY <1>1, <3>1, Types DEF CliRecord, Typed
        <3>. QED BY <2>3, <3>2 DEF Answered, Holding
    <2>. QED BY <2>1, <2>2, <2>3 DEF Answered
<1>5. group' \in [exists : BOOLEAN, ssh : BOOLEAN]
    BY <1>1, Types DEF Typed
<1>. QED BY <1>1, <1>2, <1>3, <1>4, <1>5, CommandMoves

LEMMA CleanupKeeps == ASSUME HostInv, Cleanup PROVE HostInv'
<1>. TypeOK
    BY DEF HostInv
<1>1. /\ cli.pc = "cleanup" /\ ShutDown({i \in {cli.inst} : inst[i] # NoInstance})
      /\ LoseRoot({cli.inst}) /\ cli' = Idle /\ UNCHANGED <<volume, group, disk, abandoned>>
    BY DEF Cleanup, At
<1>2. cli' \in CliRecord /\ cli'.pc = "idle"
    BY <1>1, Starts DEF Idle
<1>. DEFINE S == {cli.inst} \cap Instance
<1>3. ShutDown({i \in S : inst[i] # NoInstance}) /\ LoseRoot(S)
    BY <1>1 DEF ShutDown, LoseRoot
<1>4. /\ inst' \in [Instance -> InstRecord] /\ staged' \in [Instance -> Payloads]
      /\ boot' \in [Instance -> BootPlaces] /\ Live' = Live \ S
      /\ \A i \in Instance : inst'[i].tag = inst[i].tag
      /\ \A i \in S : boot'[i] = "none"
      /\ \A i \in Instance \ S : boot'[i] = boot[i] /\ staged'[i] = staged[i]
    BY <1>3, ShutDownIs
<1>5. TypeOK'
    BY <1>1, <1>2, <1>4, Types DEF Typed
<1>6. CommandOK'
    BY <1>2 DEF CommandOK, Preparing
<1>7. HalfOK'
    <2>. SUFFICES ASSUME NEW i \in Live' \ abandoned' PROVE Answered(i)'
        BY DEF HalfOK
    <2>1. i \in Live \ abandoned /\ i \in Instance \ S /\ i # cli.inst
        BY <1>1, <1>4 DEF Live
    <2>2. boot[i] = "done" \/ Detaching(i)
        BY <2>1 DEF HostInv, HalfOK, Answered
    <2>. QED BY <1>4, <2>1, <2>2 DEF Answered, Detaching, Booting
<1>. QED BY <1>1, <1>4, <1>5, <1>6, <1>7, BootsEnd

LEMMA CliLosesHostKeeps == ASSUME HostInv, CliLosesHost PROVE HostInv'
<1>1. /\ abandoned' = abandoned \cup ({cli.inst} \cap Instance) /\ cli' = Idle
      /\ UNCHANGED <<inst, staged, volume, group, disk, boot>>
    BY DEF CliLosesHost
<1>2. TypeOK' /\ cli'.pc = "idle"
    BY <1>1, Types, Starts DEF HostInv, Typed, Idle
<1>3. Live' = Live
    BY <1>1 DEF Live
<1>4. CommandOK'
    BY <1>2 DEF CommandOK, Preparing
<1>5. HalfOK'
    <2>. SUFFICES ASSUME NEW i \in Live' \ abandoned' PROVE Answered(i)'
        BY DEF HalfOK
    <2>1. i \in Live \ abandoned /\ i # cli.inst
        BY <1>1, <1>3 DEF Live
    <2>2. boot[i] = "done" \/ Detaching(i)
        BY <2>1 DEF HostInv, HalfOK, Answered
    <2>. QED BY <1>1, <2>2 DEF Answered, Detaching, Booting
<1>. QED BY <1>1, <1>2, <1>3, <1>4, <1>5, BootsEnd

-----------------------------------------------------------------------------
(* EC2, the power commands and the operator                                *)

LEMMA TerminatedKeeps == ASSUME HostInv, NEW i \in Instance, Terminated(i) PROVE HostInv'
<1>. TypeOK
    BY DEF HostInv
<1>1. /\ inst[i].state = "shutting" /\ inst' = [inst EXCEPT ![i] = NoInstance]
      /\ volume' = Detached(i) /\ LoseRoot({i}) /\ abandoned' = abandoned \ {i}
      /\ UNCHANGED <<group, disk, cli>>
    BY DEF Terminated
<1>2. /\ inst' \in [Instance -> InstRecord] /\ inst'[i] = NoInstance
      /\ \A j \in Instance : j # i => inst'[j] = inst[j]
    BY <1>1, Starts, Types DEF Typed
<1>3. volume' \in [Role -> VolRecord]
      /\ \A r \in Role : volume'[r] = IF volume[r].at = i THEN Available ELSE volume[r]
    BY <1>1, Starts, Types DEF Detached, AttachedTo, Typed
<1>4. /\ boot' \in [Instance -> BootPlaces] /\ staged' \in [Instance -> Payloads]
      /\ boot'[i] = "none"
      /\ \A j \in Instance : j # i => boot'[j] = boot[j] /\ staged'[j] = staged[j]
    BY <1>1, Starts, Types DEF LoseRoot, BootPlaces, Typed
<1>5. TypeOK'
    BY <1>1, <1>2, <1>3, <1>4, Types DEF Typed
<1>6. Live' = Live /\ i \notin Live
    BY <1>1, <1>2 DEF Live, NoInstance
<1>7. OneLive' /\ CommandOK' /\ VersionIsEarned'
    BY <1>1, <1>6 DEF HostInv, OneLive, CommandOK, VersionIsEarned
<1>8. VolumeOK'
    BY <1>1, <1>3 DEF HostInv, VolumeOK, Available
<1>9. ASSUME NEW j \in Instance PROVE BootOK(j)'
    <2>1. CASE j = i
        BY <1>4, <2>1 DEF BootOK, PastMount, PastGate, PastSchema, PastApps
    <2>2. CASE j # i
        <3>1. \A r \in Role : volume[r].at = j => volume'[r] = volume[r]
            BY <1>3, <2>2
        <3>2. BootOK(j)
            BY DEF HostInv
        <3>. QED BY <1>1, <1>2, <1>4, <2>2, <3>1, <3>2 DEF BootOK
    <2>. QED BY <2>1, <2>2
<1>10. HalfOK'
    <2>. SUFFICES ASSUME NEW j \in Live' \ abandoned' PROVE Answered(j)'
        BY DEF HalfOK
    <2>1. j \in Live \ abandoned /\ j \in Instance /\ j # i
        BY <1>1, <1>6 DEF Live
    <2>. QED BY <1>1, <1>4, <2>1 DEF HostInv, HalfOK, Answered, Detaching, Booting
<1>. QED BY <1>5, <1>7, <1>8, <1>9, <1>10 DEF HostInv

(* Only a state of one instance changes, within what is live.              *)
LEMMA PowerKeeps ==
    ASSUME HostInv, NEW i \in Instance, Stop(i) \/ PowerOn(i) PROVE HostInv'
<1>. TypeOK
    BY DEF HostInv
<1>1. cli.pc = "idle" /\ i \in Live /\ UNCHANGED <<staged, volume, group, disk, cli>>
    BY DEF Stop, PowerOn, PowerAllows
<1>2. PICK st \in {"running", "stopped"} : inst' = [inst EXCEPT ![i].state = st]
    BY DEF Stop, PowerOn
<1>3. inst[i] \in InstRecord /\ inst'[i] = [inst[i] EXCEPT !.state = st]
      /\ \A j \in Instance : j # i => inst'[j] = inst[j]
    BY <1>2, Types DEF Typed
<1>4. inst'[i] \in InstRecord /\ inst'[i].state = st /\ inst'[i].tag = inst[i].tag
    BY <1>3 DEF InstRecord
<1>5. inst' \in [Instance -> InstRecord]
    BY <1>2, <1>4, Types DEF Typed
<1>6. Live' = Live
    BY <1>1, <1>3, <1>4 DEF Live
<1>7. \/ boot' = boot /\ abandoned' = abandoned
      \/ boot' = [boot EXCEPT ![i] = "killed"] /\ abandoned' = abandoned \cup {i}
    BY Types DEF Stop, PowerOn, Typed
<1>8. /\ boot' \in [Instance -> BootPlaces] /\ abandoned' \subseteq Instance
      /\ abandoned \subseteq abandoned'
      /\ (boot'[i] = "killed" /\ i \in abandoned') \/ boot'[i] = boot[i]
      /\ \A j \in Instance : j # i => boot'[j] = boot[j]
    BY <1>7, Types DEF BootPlaces, Typed
<1>9. TypeOK'
    BY <1>1, <1>5, <1>8, Types DEF Typed
<1>10. CommandOK'
    BY <1>1 DEF CommandOK, Preparing
<1>11. HalfOK'
    <2>. SUFFICES ASSUME NEW j \in Live' \ abandoned' PROVE Answered(j)'
        BY DEF HalfOK
    <2>1. j \in Live \ abandoned /\ j \in Instance /\ boot'[j] = boot[j]
        BY <1>6, <1>8 DEF Live
    <2>2. boot[j] = "done" \/ Detaching(j)
        BY <1>1, <2>1 DEF HostInv, HalfOK, Answered, Holding
    <2>. QED BY <1>1, <2>1, <2>2 DEF Answered, Detaching, Booting
<1>12. \A j \in Instance :
          \/ boot'[j] \in {"none", "failed", "killed"}
          \/ boot'[j] = boot[j] /\ staged'[j] = staged[j] /\ inst'[j].tag = inst[j].tag
    BY <1>1, <1>3, <1>4, <1>8
<1>. QED BY <1>1, <1>6, <1>9, <1>10, <1>11, <1>12, BootsEnd

LEMMA DeleteBlankKeeps == ASSUME HostInv, DeleteBlank PROVE HostInv'
<1>. TypeOK
    BY DEF HostInv
<1>1. /\ Roles # {} /\ \A r \in Roles : volume[r] = Available
      /\ volume' = [r \in Role |-> NoVolume] /\ disk' = Blank
      /\ UNCHANGED <<inst, staged, group, boot, cli, abandoned>>
    BY DEF DeleteBlank
<1>2. TypeOK'
    BY <1>1, Starts, Types DEF Typed
<1>3. Live' = Live
    BY <1>1 DEF Live
<1>4. OneLive' /\ CommandOK'
    BY <1>1, <1>3 DEF HostInv, OneLive, CommandOK
<1>5. VolumeOK' /\ VersionIsEarned'
    BY <1>1 DEF VolumeOK, VersionIsEarned, NoVolume, Blank
<1>6. ASSUME NEW i \in Instance PROVE BootOK(i)'
    <2>1. PICK r \in Role : volume[r].at = 0
        BY <1>1 DEF Roles, Available
    <2>2. BootOK(i) /\ boot'[i] = boot[i] /\ inst'[i] = inst[i] /\ staged'[i] = staged[i]
        BY <1>1 DEF HostInv
    <2>3. boot[i] \notin PastMount
        BY <2>1, <2>2, Fields DEF BootOK
    <2>. QED BY <2>2, <2>3 DEF BootOK, PastMount, PastGate, PastSchema, PastApps
<1>7. HalfOK'
    BY <1>1, <1>3 DEF HostInv, HalfOK, Answered, Detaching, Booting
<1>. QED BY <1>2, <1>4, <1>5, <1>6, <1>7 DEF HostInv

-----------------------------------------------------------------------------
(* Bootstrap                                                               *)

LEMMA BootMountKeeps == ASSUME HostInv, NEW i \in Instance, BootMount(i) PROVE HostInv'
<1>. TypeOK
    BY DEF HostInv
<1>1. /\ boot[i] = "mount" /\ (\A r \in Role : volume[r].at = i) /\ boot' = [boot EXCEPT ![i] = "gate"]
      /\ UNCHANGED <<inst, staged, volume, group, disk, cli, abandoned>>
    BY DEF BootMount, BootAt, AttachedTo, BootGoes
<1>2. boot'[i] = "gate" /\ Booting(i) /\ disk' \in DiskRecord
    BY <1>1, Types DEF Booting, Typed
<1>3. BootOK(i)'
    BY <1>1, <1>2 DEF HostInv, BootOK, PastMount, PastGate, PastSchema, PastApps
<1>4. "gate" \in PastMount /\ disk.schema <= disk'.schema /\ disk.apps <= disk'.apps
    BY <1>1, Fields DEF PastMount
<1>. QED BY <1>1, <1>2, <1>3, <1>4, BootMoves

LEMMA BootGateKeeps == ASSUME HostInv, NEW i \in Instance, BootGate(i) PROVE HostInv'
<1>. TypeOK
    BY DEF HostInv
<1>1. /\ boot[i] = "gate" /\ GateAllows(staged[i]) /\ boot' = [boot EXCEPT ![i] = "schema"]
      /\ UNCHANGED <<inst, staged, volume, group, disk, cli, abandoned>>
    BY DEF BootGate, BootAt, BootGoes
<1>2. boot'[i] = "schema" /\ Booting(i) /\ disk' \in DiskRecord
    BY <1>1, Types DEF Booting, Typed
<1>3. BootOK(i)
    BY DEF HostInv
<1>4. staged[i].target = inst[i].tag /\ inst[i].tag \in Nat /\ disk.version \in Nat
    BY <1>1, <1>3, Fields DEF BootOK, PastMount
<1>5. disk.version <= inst[i].tag
    <2>1. staged[i].mode \in Mode
        BY Fields DEF Payloads, Payload, NoPayload, Mode
    <2>2. CASE staged[i].mode = "deploy"
        BY <1>1, <1>4, <2>2 DEF GateAllows
    <2>3. CASE staged[i].mode = "upgrade"
        BY <1>1, <1>4, <2>3 DEF GateAllows
    <2>4. CASE staged[i].mode = "recover"
        BY <1>1, <1>4, <2>4 DEF GateAllows
    <2>5. CASE staged[i].mode = "reconfigure"
        BY <1>1, <1>4, <2>5 DEF GateAllows
    <2>. QED BY <2>1, <2>2, <2>3, <2>4, <2>5 DEF Mode
<1>6. BootOK(i)'
    BY <1>1, <1>2, <1>3, <1>5 DEF BootOK, PastMount, PastGate, PastSchema, PastApps
<1>7. "schema" \in PastMount /\ disk.schema <= disk'.schema /\ disk.apps <= disk'.apps
    BY <1>1, Fields DEF PastMount
<1>. QED BY <1>1, <1>2, <1>6, <1>7, BootMoves

LEMMA AtLeastIs ==
    ASSUME NEW a \in Nat, NEW b \in 0 .. NVersions, a <= NVersions
    PROVE  AtLeast(a, b) \in 0 .. NVersions /\ a <= AtLeast(a, b) /\ b <= AtLeast(a, b)
BY HostConstants DEF AtLeast

LEMMA BootSchemaKeeps == ASSUME HostInv, NEW i \in Instance, BootSchema(i) PROVE HostInv'
<1>. TypeOK
    BY DEF HostInv
<1>1. /\ boot[i] = "schema" /\ disk' = [disk EXCEPT !.schema = AtLeast(disk.schema, inst[i].tag)]
      /\ boot' = [boot EXCEPT ![i] = "apps"]
      /\ UNCHANGED <<inst, staged, volume, group, cli, abandoned>>
    BY DEF BootSchema, BootAt, BootGoes, Target
<1>2. disk \in DiskRecord /\ disk.schema \in 0 .. NVersions
    BY Types DEF Typed, DiskRecord
<1>3. /\ AtLeast(disk.schema, inst[i].tag) \in 0 .. NVersions
      /\ disk.schema <= AtLeast(disk.schema, inst[i].tag)
      /\ inst[i].tag <= AtLeast(disk.schema, inst[i].tag)
    <2>. PICK a \in 0 .. NVersions : a = disk.schema
        BY <1>2
    <2>. PICK b \in 0 .. NVersions : b = inst[i].tag
        BY Fields
    <2>1. a \in Nat /\ a <= NVersions
        BY HostConstants
    <2>2. AtLeast(a, b) \in 0 .. NVersions /\ a <= AtLeast(a, b) /\ b <= AtLeast(a, b)
        BY <2>1, AtLeastIs
    <2>. QED BY <2>2
<1>4. /\ disk' \in DiskRecord /\ disk'.version = disk.version /\ disk'.apps = disk.apps
      /\ disk'.endpoints = disk.endpoints /\ disk'.schema = AtLeast(disk.schema, inst[i].tag)
    BY <1>1, <1>2, <1>3 DEF DiskRecord
<1>5. boot'[i] = "apps" /\ Booting(i)
    BY <1>1, Types DEF Booting, Typed
<1>6. BootOK(i)
    BY DEF HostInv
<1>7. BootOK(i)'
    BY <1>1, <1>3, <1>4, <1>5, <1>6 DEF BootOK, PastMount, PastGate, PastSchema, PastApps
<1>8. "apps" \in PastMount /\ disk.schema <= disk'.schema /\ disk.apps <= disk'.apps
    BY <1>3, <1>4, Fields DEF PastMount
<1>. QED BY <1>1, <1>4, <1>5, <1>7, <1>8, BootMoves

LEMMA BootAppsKeeps == ASSUME HostInv, NEW i \in Instance, BootApps(i) PROVE HostInv'
<1>. TypeOK
    BY DEF HostInv
<1>1. /\ boot[i] = "apps" /\ disk' = [disk EXCEPT !.apps = AtLeast(disk.apps, inst[i].tag)]
      /\ boot' = [boot EXCEPT ![i] = "config"]
      /\ UNCHANGED <<inst, staged, volume, group, cli, abandoned>>
    BY DEF BootApps, BootAt, BootGoes, Target
<1>2. disk \in DiskRecord /\ disk.apps \in 0 .. NVersions
    BY Types DEF Typed, DiskRecord
<1>3. /\ AtLeast(disk.apps, inst[i].tag) \in 0 .. NVersions
      /\ disk.apps <= AtLeast(disk.apps, inst[i].tag)
      /\ inst[i].tag <= AtLeast(disk.apps, inst[i].tag)
    <2>. PICK a \in 0 .. NVersions : a = disk.apps
        BY <1>2
    <2>. PICK b \in 0 .. NVersions : b = inst[i].tag
        BY Fields
    <2>1. a \in Nat /\ a <= NVersions
        BY HostConstants
    <2>2. AtLeast(a, b) \in 0 .. NVersions /\ a <= AtLeast(a, b) /\ b <= AtLeast(a, b)
        BY <2>1, AtLeastIs
    <2>. QED BY <2>2
<1>4. /\ disk' \in DiskRecord /\ disk'.version = disk.version /\ disk'.schema = disk.schema
      /\ disk'.endpoints = disk.endpoints /\ disk'.apps = AtLeast(disk.apps, inst[i].tag)
    BY <1>1, <1>2, <1>3 DEF DiskRecord
<1>5. boot'[i] = "config" /\ Booting(i)
    BY <1>1, Types DEF Booting, Typed
<1>6. BootOK(i)
    BY DEF HostInv
<1>7. BootOK(i)'
    BY <1>1, <1>3, <1>4, <1>5, <1>6 DEF BootOK, PastMount, PastGate, PastSchema, PastApps
<1>8. "config" \in PastMount /\ disk.schema <= disk'.schema /\ disk.apps <= disk'.apps
    BY <1>3, <1>4, Fields DEF PastMount
<1>. QED BY <1>1, <1>4, <1>5, <1>7, <1>8, BootMoves

LEMMA BootConfigKeeps == ASSUME HostInv, NEW i \in Instance, BootConfig(i) PROVE HostInv'
<1>. TypeOK
    BY DEF HostInv
<1>1. /\ boot[i] = "config" /\ Endpoints(i) # {} /\ disk' = [disk EXCEPT !.endpoints = Endpoints(i)]
      /\ boot' = [boot EXCEPT ![i] = "finalize"]
      /\ UNCHANGED <<inst, staged, volume, group, cli, abandoned>>
    BY DEF BootConfig, BootAt, BootGoes
<1>2. disk \in DiskRecord /\ disk.endpoints \in Choice \cup {{}}
    BY Types DEF Typed, DiskRecord
<1>3. Endpoints(i) \in Choice \cup {{}}
    BY <1>2, Fields DEF Endpoints, Payloads, Payload, NoPayload
<1>4. /\ disk' \in DiskRecord /\ disk'.version = disk.version /\ disk'.schema = disk.schema
      /\ disk'.endpoints = Endpoints(i) /\ disk'.apps = disk.apps
    BY <1>1, <1>2, <1>3 DEF DiskRecord
<1>5. boot'[i] = "finalize" /\ Booting(i)
    BY <1>1, Types DEF Booting, Typed
<1>6. BootOK(i)
    BY DEF HostInv
<1>7. BootOK(i)'
    BY <1>1, <1>4, <1>5, <1>6 DEF BootOK, PastMount, PastGate, PastSchema, PastApps
<1>8. "finalize" \in PastMount /\ disk.schema <= disk'.schema /\ disk.apps <= disk'.apps
    BY <1>4, Fields DEF PastMount
<1>. QED BY <1>1, <1>4, <1>5, <1>7, <1>8, BootMoves

LEMMA BootFinalizeKeeps == ASSUME HostInv, NEW i \in Instance, BootFinalize(i) PROVE HostInv'
<1>. TypeOK
    BY DEF HostInv
<1>1. /\ boot[i] = "finalize" /\ disk' = [disk EXCEPT !.version = inst[i].tag]
      /\ staged' = [staged EXCEPT ![i] = NoPayload] /\ boot' = [boot EXCEPT ![i] = "done"]
      /\ UNCHANGED <<inst, volume, group, cli, abandoned>>
    BY DEF BootFinalize, BootAt, BootGoes, Target
<1>2. disk \in DiskRecord /\ inst[i].tag \in 0 .. NVersions
    BY Types, Fields DEF Typed
<1>3. /\ disk' \in DiskRecord /\ disk'.version = inst[i].tag /\ disk'.schema = disk.schema
      /\ disk'.endpoints = disk.endpoints /\ disk'.apps = disk.apps
    BY <1>1, <1>2 DEF DiskRecord
<1>4. /\ boot' \in [Instance -> BootPlaces] /\ boot'[i] = "done"
      /\ \A j \in Instance : j # i => boot'[j] = boot[j]
    BY <1>1, Types DEF BootPlaces, Typed
<1>5. staged' \in [Instance -> Payloads] /\ \A j \in Instance : j # i => staged'[j] = staged[j]
    BY <1>1, Starts, Types DEF Typed
<1>6. TypeOK'
    BY <1>1, <1>3, <1>4, <1>5, Types DEF Typed
<1>7. Live' = Live
    BY <1>1 DEF Live
<1>8. OneLive' /\ CommandOK'
    BY <1>1, <1>7 DEF HostInv, OneLive, CommandOK
<1>9. /\ \A r \in Role : volume[r].at = i
      /\ inst[i].tag <= disk.schema /\ inst[i].tag <= disk.apps /\ disk.endpoints # {}
    BY <1>1 DEF HostInv, BootOK, PastMount, PastSchema, PastApps
<1>10. VersionIsEarned'
    BY <1>3, <1>9 DEF VersionIsEarned
<1>11. VolumeOK'
    BY <1>1, <1>9, Fields DEF HostInv, VolumeOK
<1>12. ASSUME NEW j \in Instance PROVE BootOK(j)'
    <2>1. CASE j = i
        BY <1>4, <2>1 DEF BootOK, PastMount, PastGate, PastSchema, PastApps
    <2>2. CASE j # i
        <3>1. BootOK(j) /\ boot'[j] = boot[j] /\ staged'[j] = staged[j] /\ inst' = inst
            BY <1>1, <1>4, <1>5, <2>2 DEF HostInv
        <3>2. boot[j] \notin PastMount
            BY <1>9, <2>2, <3>1 DEF BootOK, Role
        <3>. QED BY <3>1, <3>2 DEF BootOK, PastMount, PastGate, PastSchema, PastApps
    <2>. QED BY <2>1, <2>2
<1>13. HalfOK'
    <2>. SUFFICES ASSUME NEW j \in Live \ abandoned PROVE Answered(j)'
        BY <1>1, <1>7 DEF HalfOK
    <2>1. Answered(j) /\ j \in Instance
        BY DEF HostInv, HalfOK, Live
    <2>2. CASE j = i
        BY <1>4, <2>2 DEF Answered
    <2>3. CASE j # i
        BY <1>1, <1>4, <1>5, <2>1, <2>3 DEF Answered, Detaching, Booting
    <2>. QED BY <2>2, <2>3
<1>. QED BY <1>6, <1>8, <1>10, <1>11, <1>12, <1>13 DEF HostInv

LEMMA BootFailsKeeps == ASSUME HostInv, NEW i \in Instance, BootFails(i) PROVE HostInv'
<1>. TypeOK
    BY DEF HostInv
<1>1. /\ Booting(i) /\ inst' = OnExit(i) /\ boot' = [boot EXCEPT ![i] = "failed"]
      /\ UNCHANGED <<staged, volume, group, disk, cli, abandoned>>
    BY DEF BootFails, BootGoes
<1>2. /\ boot' \in [Instance -> BootPlaces] /\ boot'[i] = "failed"
      /\ \A j \in Instance : j # i => boot'[j] = boot[j]
    BY <1>1, Types DEF BootPlaces, Typed
<1>3. /\ inst' \in [Instance -> InstRecord]
      /\ \A j \in Instance : j # i => inst'[j] = inst[j]
      /\ staged[i].delivery = "github" => inst'[i].state = "shutting"
      /\ inst' = inst \/ inst'[i].state = "shutting"
    <2>1. CASE staged[i].delivery = "github"
        <3>1. inst[i] \in InstRecord /\ inst' = [inst EXCEPT ![i].state = "shutting"]
            BY <1>1, <2>1, Types DEF OnExit, Typed
        <3>2. inst'[i] = [inst[i] EXCEPT !.state = "shutting"]
              /\ \A j \in Instance : j # i => inst'[j] = inst[j]
            BY <3>1, Types DEF Typed
        <3>3. inst'[i] \in InstRecord /\ inst'[i].state = "shutting"
            BY <3>1, <3>2 DEF InstRecord
        <3>. QED BY <3>1, <3>2, <3>3, Types DEF Typed
    <2>2. CASE staged[i].delivery # "github"
        BY <1>1, <2>2, Types DEF OnExit, Typed
    <2>. QED BY <2>1, <2>2
<1>4. TypeOK'
    BY <1>1, <1>2, <1>3, Types DEF Typed
<1>5. Live' \subseteq Live
    BY <1>3 DEF Live
<1>6. CommandOK'
    BY <1>1, <1>5 DEF HostInv, CommandOK
<1>7. HalfOK'
    <2>. SUFFICES ASSUME NEW j \in Live' \ abandoned' PROVE Answered(j)'
        BY DEF HalfOK
    <2>1. j \in Live \ abandoned /\ j \in Instance /\ Answered(j)
        BY <1>1, <1>5 DEF HostInv, HalfOK, Live
    <2>2. CASE j = i
        <3>1. staged[i].delivery # "github"
            BY <1>3, <2>2 DEF Live
        <3>2. ~(boot[i] = "done" \/ Detaching(i))
            BY <1>1, <3>1 DEF Booting, Detaching
        <3>. QED BY <1>1, <2>1, <2>2, <3>2 DEF Answered
    <2>3. CASE j # i
        BY <1>1, <1>2, <2>1, <2>3 DEF Answered, Detaching, Booting
    <2>. QED BY <2>2, <2>3
<1>8. \A j \in Instance :
          \/ boot'[j] \in {"none", "failed", "killed"}
          \/ boot'[j] = boot[j] /\ staged'[j] = staged[j] /\ inst'[j].tag = inst[j].tag
    BY <1>1, <1>2, <1>3
<1>. QED BY <1>1, <1>4, <1>5, <1>6, <1>7, <1>8, BootsEnd

-----------------------------------------------------------------------------
(* Every step                                                              *)

LEMMA HostStep == HostInv /\ [Next]_vars => HostInv'
<1>. SUFFICES ASSUME HostInv, [Next]_vars PROVE HostInv'
    OBVIOUS
<1>1. CASE UNCHANGED vars
    <2>1. Live' = Live
        BY <1>1 DEF vars, Live
    <2>2. TypeOK' /\ OneLive' /\ CommandOK' /\ VolumeOK' /\ VersionIsEarned'
        BY <1>1, <2>1, Types
           DEF vars, HostInv, Typed, OneLive, CommandOK, VolumeOK, VersionIsEarned
    <2>3. \A i \in Instance : BootOK(i)'
        BY <1>1 DEF vars, HostInv, BootOK
    <2>4. HalfOK'
        BY <1>1, <2>1 DEF vars, HostInv, HalfOK, Answered, Detaching, Booting
    <2>. QED BY <2>2, <2>3, <2>4 DEF HostInv
<1>2. CASE Cli
    <2>1. CASE Attach("admin", "attach_admin", "attach_agent")
        BY <2>1, AttachKeeps DEF Role
    <2>2. CASE Attach("agent", "attach_agent", AfterAttach)
        <3>1. AfterAttach \in {"returned", "provision"}
              /\ (AfterAttach = "returned" => cli.payload.delivery = "github")
            BY DEF AfterAttach
        <3>. QED BY <2>2, <3>1, AttachKeeps DEF Role
    <2>3. CASE EnsureVolume("admin", "agent") \/ EnsureVolume("agent", "group")
        BY <2>3, EnsureVolumeKeeps
    <2>4. CASE ResetGroup \/ Authorize
        BY <2>4, GroupKeeps
    <2>. QED BY <1>2, <2>1, <2>2, <2>3, <2>4, StartKeeps, TerminateKeeps, WaitTerminatedKeeps,
                LaunchKeeps, ProvisionKeeps, ProvisionedKeeps, CloseIngressKeeps, CliFailsKeeps,
                CleanupKeeps, CliLosesHostKeeps
             DEF Cli
<1>3. ASSUME NEW i \in Instance, BootSteps(i) PROVE HostInv'
    BY <1>3, BootMountKeeps, BootGateKeeps, BootSchemaKeeps, BootAppsKeeps, BootConfigKeeps,
       BootFinalizeKeeps, BootFailsKeeps DEF BootSteps
<1>4. ASSUME NEW i \in Instance, Terminated(i) \/ Stop(i) \/ PowerOn(i) PROVE HostInv'
    BY <1>4, TerminatedKeeps, PowerKeeps
<1>. QED BY <1>1, <1>2, <1>3, <1>4, DeleteBlankKeeps DEF Next

LEMMA HostAlways == Spec => []HostInv
BY HostInvInit, HostStep, PTL DEF Spec

(* Every state has the shape the code gives its records.                   *)
THEOREM HostTypeCorrect == Spec => []TypeOK
<1>1. HostInv => TypeOK
    BY DEF HostInv
<1>. QED BY <1>1, HostAlways, PTL

(* version.json never claims a release whose schemas or configuration are  *)
(* not on the volume.                                                      *)
THEOREM VersionEarned == Spec => []VersionIsEarned
<1>1. HostInv => VersionIsEarned
    BY DEF HostInv
<1>. QED BY <1>1, HostAlways, PTL

(* An agent never has two hosts.                                           *)
THEOREM AtMostOneHost == Spec => []OneHost
<1>1. ASSUME HostInv PROVE OneHost
    <2>1. CASE Live = {}
        BY <2>1, FS_EmptySet DEF OneHost
    <2>2. ASSUME NEW i \in Live PROVE OneHost
        <3>1. Live = {i}
            BY <1>1, <2>2 DEF HostInv, OneLive
        <3>. QED BY <3>1, FS_Singleton DEF OneHost
    <2>. QED BY <2>1, <2>2
<1>. QED BY <1>1, HostAlways, PTL

(* Between commands a host is finished, finishing itself, or known to have *)
(* been abandoned.                                                         *)
THEOREM HostsAreWhole == Spec => []NoHalfHost
<1>1. HostInv => NoHalfHost
    BY DEF HostInv, HalfOK, Answered, Holding, Detaching, NoHalfHost
<1>. QED BY <1>1, HostAlways, PTL

(* One step of anyone leaves what a finished host has kept.                *)
LEMMA StepKeepsState ==
    ASSUME HostInv, HostInv', [Next]_vars, disk.version > 0
    PROVE  /\ disk'.version >= disk.version /\ disk'.schema >= disk.schema
           /\ disk'.endpoints # {}
           /\ \A r \in Role : volume'[r].exists
<1>. TypeOK
    BY DEF HostInv
<1>1. \A r \in Role : volume[r].exists
    BY DEF HostInv, VolumeOK
<1>2. disk.version \in Nat /\ disk.schema \in Nat
    BY Fields
<1>3. ASSUME NEW i \in Instance, BootFinalize(i)
      PROVE  disk'.version >= disk.version /\ disk'.schema = disk.schema
    <2>1. boot[i] = "finalize" /\ disk' = [disk EXCEPT !.version = inst[i].tag] /\ disk \in DiskRecord
        BY <1>3, Types DEF BootFinalize, BootAt, Target, Typed
    <2>2. disk.version <= inst[i].tag /\ inst[i].tag \in Nat
        BY <2>1, Fields DEF HostInv, BootOK, PastGate
    <2>. QED BY <1>2, <2>1, <2>2 DEF DiskRecord
<1>4. ASSUME NEW i \in Instance, BootSchema(i)
      PROVE  disk'.version = disk.version /\ disk'.schema >= disk.schema
    <2>1. disk' = [disk EXCEPT !.schema = AtLeast(disk.schema, inst[i].tag)] /\ disk \in DiskRecord
        BY <1>4, Types DEF BootSchema, Target, Typed
    <2>2. AtLeast(disk.schema, inst[i].tag) >= disk.schema
        BY <1>2, Fields DEF AtLeast
    <2>. QED BY <2>1, <2>2 DEF DiskRecord
<1>5. ASSUME NEW i \in Instance, BootApps(i) \/ BootConfig(i)
      PROVE  disk'.version = disk.version /\ disk'.schema = disk.schema
    BY <1>5, Types DEF BootApps, BootConfig, DiskRecord, Typed
<1>6. ~DeleteBlank
    BY DEF DeleteBlank
<1>7. ASSUME Cli PROVE disk' = disk
    <2>1. ASSUME NEW next, EnsureVolume("admin", next) PROVE disk' = disk
        BY <1>1, <2>1 DEF EnsureVolume, Role
    <2>2. ASSUME NEW next, EnsureVolume("agent", next) PROVE disk' = disk
        BY <2>2 DEF EnsureVolume
    <2>3. ASSUME NEW r, NEW pc, NEW next, Attach(r, pc, next) PROVE disk' = disk
        BY <2>3 DEF Attach
    <2>4. CASE \E p \in Command : Start(p)
        BY <2>4 DEF Start
    <2>5. CASE \E i \in Instance, confirmed \in BOOLEAN : Launch(i, confirmed)
        BY <2>5 DEF Launch
    <2>6. CASE TerminateExisting \/ WaitTerminated \/ ResetGroup \/ Authorize \/ Cleanup
        BY <2>6 DEF TerminateExisting, WaitTerminated, ResetGroup, Authorize, Cleanup
    <2>7. CASE Provision \/ Provisioned \/ CloseIngress \/ CliFails \/ CliLosesHost
        BY <2>7 DEF Provision, Provisioned, CloseIngress, CliFails, CliLosesHost
    <2>. QED BY <1>7, <2>1, <2>2, <2>3, <2>4, <2>5, <2>6, <2>7 DEF Cli
<1>8. ASSUME NEW i \in Instance,
             BootMount(i) \/ BootGate(i) \/ BootFails(i) \/ Terminated(i) \/ Stop(i) \/ PowerOn(i)
      PROVE  disk' = disk
    BY <1>8 DEF BootMount, BootGate, BootFails, Terminated, Stop, PowerOn
<1>9. ASSUME UNCHANGED vars PROVE disk' = disk
    BY <1>9 DEF vars
<1>10. disk'.version >= disk.version /\ disk'.schema >= disk.schema
    BY <1>2, <1>3, <1>4, <1>5, <1>6, <1>7, <1>8, <1>9 DEF Next, BootSteps
<1>11. disk'.version > 0
    <2>1. disk'.version \in Nat
        BY Types DEF HostInv, Typed, DiskRecord
    <2>. QED BY <1>2, <1>10, <2>1
<1>. QED BY <1>10, <1>11 DEF HostInv, VersionIsEarned, VolumeOK

(* Once a host has been finished, no upgrade, recovery, failed bootstrap   *)
(* or clean-up takes its volumes or endpoints away or moves its schema or  *)
(* its version back.                                                       *)
THEOREM StateIsKept == Spec => StateKept
<1>1. HostInv /\ HostInv' /\ [Next]_vars =>
        [disk.version > 0 =>
            /\ disk'.version >= disk.version /\ disk'.schema >= disk.schema
            /\ disk'.endpoints # {}
            /\ \A r \in Role : volume'[r].exists]_vars
    BY StepKeepsState
<1>. QED BY <1>1, HostAlways, PTL DEF Spec, StateKept

-----------------------------------------------------------------------------
(* The memory of live validations                                          *)

Verdicts == {"active", "awaiting_login", "error", "none"}

JobRecord == [
    at : {"idle", "withdraw", "read", "usage", "compare", "validate", "drain", "attest", "commit",
          "backfill"},
    forced : BOOLEAN,
    token : Nat,
    verdict : Verdicts,
    said : {"ok", "refused", "failed", "attested", "unattested"},
    landed : BOOLEAN]

MemoRecord == [verdict : Verdicts, token : Nat, fresh : BOOLEAN]

\* A job works on a credential that was minted; while it is still asking, it has one.
JobOK ==
    /\ job \in JobRecord
    /\ minted \in Nat /\ local \in 0 .. minted /\ job.token \in 0 .. minted
    /\ job.at \in {"idle", "withdraw", "read"} => job.token = 0
    /\ job.at \in {"usage", "compare", "validate"} => job.token # 0
    /\ job.at = "compare" => Claude
    /\ job.at = "validate" => ~Claude
    /\ job.landed => job.at \in {"attest", "commit", "backfill"}

\* A refusal is of the credential the file still holds: a rotation would have
\* been noticed.
RefusalOK ==
    job.at = "compare" /\ job.said = "refused" /\ local = job.token => job.token \in dead

\* A remembered refusal: Claude's names a credential that is dead; Codex's stands
\* for the file, until a login lands.
MemoOK ==
    memo.verdict = "awaiting_login" =>
        IF Claude THEN memo.token \in dead
                  ELSE stale \/ parked = "completed" \/ ~Accepts(local)

\* A verdict that asks for a login about a credential in hand is true, unless a
\* login has landed meanwhile, or the operator's reset is about to take the
\* credential away.
VerdictOK ==
    job.at \in {"drain", "attest", "commit"} /\ job.verdict = "awaiting_login" /\ job.token # 0 =>
        IF Claude THEN job.token \in dead
        ELSE \/ stale \/ job.landed \/ parked = "completed" \/ op = "clear"
             \/ job.token \in dead \/ local # job.token

ProbesInv == JobOK /\ memo \in MemoRecord /\ RefusalOK /\ MemoOK /\ VerdictOK

\* The file gets fresh credentials or loses the one it has, never an old one back.
LEMMA FileMoves ==
  ASSUME JobOK, [ProbesNext]_probeVars
  PROVE  /\ dead \subseteq dead' /\ provider' = provider
         /\ minted' \in Nat /\ minted' >= minted /\ local' \in 0 .. minted'
         /\ local' = local \/ local' = 0 \/ local' > minted
<1>0. minted \in Nat /\ local \in 0 .. minted
  BY DEF JobOK
<1>1. CASE ClaudeLogin \/ LoginLands \/ Rotate
  BY <1>0, <1>1 DEF ClaudeLogin, LoginLands, Rotate, Mints
<1>2. CASE RefreshStep
  <2>1. CASE Poll
    BY <1>0, <2>1 DEF Poll
  <2>2. CASE Withdraw
    BY <1>0, <2>2 DEF Withdraw
  <2>3. CASE ReadAccount
    BY <1>0, <2>3 DEF ReadAccount
  <2>4. CASE Usage
    BY <1>0, <2>4 DEF Usage
  <2>5. CASE Compare
    BY <1>0, <2>5 DEF Compare
  <2>6. CASE Validate
    BY <1>0, <2>6 DEF Validate
  <2>7. CASE Drain
    BY <1>0, <2>7 DEF Drain
  <2>8. CASE Attest
    BY <1>0, <2>8 DEF Attest
  <2>9. CASE CommitVerdict
    BY <1>0, <2>9 DEF CommitVerdict
  <2>10. CASE Backfill
    BY <1>0, <2>10 DEF Backfill
  <2>. QED BY <1>2, <2>1, <2>2, <2>3, <2>4, <2>5, <2>6, <2>7, <2>8, <2>9, <2>10 DEF RefreshStep
<1>3. CASE Clear
  BY <1>0, <1>3 DEF Clear
<1>4. CASE Reset \/ Forget \/ ParkLogin \/ SetPolicy \/ ServerDies \/ Revoke \/ Expire \/ Restart
           \/ UNCHANGED probeVars
  BY <1>0, <1>4 DEF Reset, Forget, ParkLogin, SetPolicy, ServerDies, Revoke, Expire, Restart, probeVars
<1>. QED BY <1>1, <1>2, <1>3, <1>4 DEF ProbesNext, OperatorStep

\* Who changes the job.
LEMMA JobMoves ==
  ASSUME [ProbesNext]_probeVars
  PROVE  job' = job \/ job' = NoJob \/ Poll \/ ReadAccount \/ Usage \/ Compare \/ Validate \/ Drain
         \/ Attest \/ CommitVerdict
BY DEF ProbesNext, OperatorStep, RefreshStep, Withdraw, Backfill, Reset, Forget, Clear, ClaudeLogin,
       ParkLogin, SetPolicy, LoginLands, ServerDies, Rotate, Revoke, Expire, Restart, probeVars

LEMMA NoJobType == NoJob \in JobRecord
BY DEF NoJob, JobRecord, Verdicts

LEMMA PollJob ==
  ASSUME Poll
  PROVE  job' \in JobRecord /\ job'.at \in {"read", "withdraw"} /\ job'.token = 0 /\ ~job'.landed
<1>1. PICK forced \in BOOLEAN :
        job' = [NoJob EXCEPT !.forced = forced, !.at = IF enabled THEN "read" ELSE "withdraw"]
  BY DEF Poll
<1>2. ASSUME NEW at \in {"read", "withdraw"}, job' = [NoJob EXCEPT !.forced = forced, !.at = at]
      PROVE  job' \in JobRecord /\ job'.at = at /\ job'.token = NoJob.token /\ job'.landed = NoJob.landed
  BY <1>2, NoJobType DEF JobRecord
<1>3. NoJob.token = 0 /\ ~NoJob.landed
  BY DEF NoJob
<1>4. CASE enabled
  <2>1. job' = [NoJob EXCEPT !.forced = forced, !.at = "read"]
    BY <1>1, <1>4
  <2>. QED BY <1>2, <1>3, <2>1
<1>5. CASE ~enabled
  <2>1. job' = [NoJob EXCEPT !.forced = forced, !.at = "withdraw"]
    BY <1>1, <1>5
  <2>. QED BY <1>2, <1>3, <2>1
<1>. QED BY <1>4, <1>5

LEMMA JobKeeps ==
  ASSUME ProbesInv, [ProbesNext]_probeVars
  PROVE  JobOK'
<1>0. /\ job \in JobRecord /\ job.token \in 0 .. minted /\ local \in 0 .. minted /\ minted \in Nat
      /\ local \in Nat
      /\ memo.verdict \in Verdicts /\ JobOK
      /\ minted' \in Nat /\ minted' >= minted /\ local' \in 0 .. minted' /\ provider' = provider
  BY FileMoves DEF ProbesInv, JobOK, MemoRecord
<1>. DEFINE Good(j) ==
       /\ j \in JobRecord /\ j.token \in 0 .. minted
       /\ j.at \in {"idle", "withdraw", "read"} => j.token = 0
       /\ j.at \in {"usage", "compare", "validate"} => j.token # 0
       /\ j.at = "compare" => Claude
       /\ j.at = "validate" => ~Claude
       /\ j.landed => j.at \in {"attest", "commit", "backfill"}
<1>1. SUFFICES Good(job')
  BY <1>0 DEF JobOK, Claude, JobRecord
<1>2. Good(job) /\ Good(NoJob)
  BY <1>0, NoJobType DEF JobOK, NoJob
<1>l. ReadAccount \/ Usage \/ Compare \/ Validate => ~job.landed
  BY <1>0 DEF JobOK, ReadAccount, Usage, Compare, Validate, JobAt
<1>3. CASE Poll
  BY <1>0, <1>3, PollJob
<1>4. CASE ReadAccount
  <2>1. CASE job' = [job EXCEPT !.verdict = "awaiting_login", !.at = "drain"]
             \/ job' = [job EXCEPT !.verdict = "error", !.at = "drain"]
    BY <1>0, <1>4, <1>l, <2>1 DEF JobRecord, Verdicts
  <2>2. ASSUME local # 0, NEW v \in Verdicts, NEW at \in {"drain", "usage"},
               job' = [job EXCEPT !.token = local, !.verdict = v, !.at = at]
        PROVE  Good(job')
    BY <1>0, <1>4, <1>l, <2>2 DEF JobRecord
  <2>3. \/ job' = [job EXCEPT !.verdict = "awaiting_login", !.at = "drain"]
        \/ job' = [job EXCEPT !.verdict = "error", !.at = "drain"]
        \/ /\ local # 0
           /\ job' = [job EXCEPT !.token = local,
                !.verdict = IF Claude /\ anchor = local /\ MemoHolds(local) THEN memo.verdict ELSE "active",
                !.at = IF Claude /\ (anchor # local \/ MemoHolds(local)) THEN "drain" ELSE "usage"]
    BY <1>4 DEF ReadAccount, Concludes
  <2>4. /\ (IF Claude /\ anchor = local /\ MemoHolds(local) THEN memo.verdict ELSE "active") \in Verdicts
        /\ (IF Claude /\ (anchor # local \/ MemoHolds(local)) THEN "drain" ELSE "usage") \in {"drain", "usage"}
    BY <1>0 DEF Verdicts
  <2>. HIDE DEF Good
  <2>. QED BY <2>1, <2>2, <2>3, <2>4
<1>5. CASE Usage
  <2>1. PICK said \in {"ok", "refused", "failed"} :
          IF Claude THEN job' = [job EXCEPT !.said = said, !.at = "compare"]
          ELSE IF said = "ok" \/ (memo = NoMemo /\ pin = 0) THEN Concludes("active", "drain")
          ELSE IF MemoHolds(job.token) THEN Concludes(memo.verdict, "drain")
          ELSE Concludes("error", "validate")
    BY <1>5 DEF Usage
  <2>2. job.token # 0
    BY <1>0, <1>5 DEF JobOK, Usage, JobAt
  <2>3. CASE Claude
    BY <1>0, <1>5, <1>l, <2>1, <2>2, <2>3 DEF JobRecord
  <2>4. CASE ~Claude
    <3>1. \/ Concludes("active", "drain") \/ Concludes(memo.verdict, "drain")
          \/ Concludes("error", "validate")
      BY <2>1, <2>4
    <3>. QED BY <1>0, <1>5, <1>l, <2>2, <2>4, <3>1 DEF Concludes, JobRecord, Verdicts
  <2>. QED BY <2>3, <2>4
<1>6. CASE Compare
  <2>1. PICK v \in {"error", "awaiting_login", "active"} :
          \/ Concludes(v, "drain")
          \/ local # 0 /\ job' = [job EXCEPT !.token = local, !.verdict = "active", !.at = "drain"]
    BY <1>6 DEF Compare
  <2>. QED BY <1>0, <1>6, <1>l, <2>1 DEF Concludes, JobRecord, Verdicts
<1>7. CASE Validate
  <2>1. \/ job' = [job EXCEPT !.token = local, !.verdict = "active", !.at = "drain"]
        \/ Concludes("awaiting_login", "drain") \/ Concludes("error", "drain")
    BY <1>7 DEF Validate
  <2>. QED BY <1>0, <1>7, <1>l, <2>1 DEF Concludes, JobRecord, Verdicts
<1>8. CASE Drain
  <2>1. (parked = "completed") \in BOOLEAN
    OBVIOUS
  <2>2. job' = [job EXCEPT !.at = "attest", !.landed = parked = "completed"]
    BY <1>8 DEF Drain
  <2>. QED BY <1>0, <2>1, <2>2 DEF JobRecord
<1>9. CASE Attest
  <2>1. \/ job' = [job EXCEPT !.said = "attested", !.at = "commit"]
        \/ job' = [job EXCEPT !.said = "unattested", !.at = "commit"]
    BY <1>9 DEF Attest
  <2>. QED BY <1>0, <2>1 DEF JobRecord
<1>10. CASE CommitVerdict
  <2>1. job' = [job EXCEPT !.at = "backfill"] \/ job' = NoJob
    BY <1>10 DEF CommitVerdict
  <2>. QED BY <1>0, <1>2, <2>1 DEF JobRecord
<1>. QED BY <1>2, <1>3, <1>4, <1>5, <1>6, <1>7, <1>8, <1>9, <1>10, JobMoves

LEMMA RefusalKeeps ==
  ASSUME ProbesInv, [ProbesNext]_probeVars
  PROVE  RefusalOK'
<1>0. /\ job \in JobRecord /\ job.token \in 0 .. minted /\ minted \in Nat /\ JobOK /\ RefusalOK
      /\ dead \subseteq dead' /\ provider' = provider
      /\ local' = local \/ local' = 0 \/ local' > minted
  BY FileMoves DEF ProbesInv, JobOK
<1>. SUFFICES ASSUME job'.at = "compare", job'.said = "refused", local' = job'.token PROVE job'.token \in dead'
  BY DEF RefusalOK
<1>1. CASE job' = job
  <2>1. job.token # 0
    BY <1>0, <1>1 DEF JobOK
  <2>. QED BY <1>0, <1>1, <2>1 DEF RefusalOK
<1>2. CASE Usage
  <2>1. PICK said \in {"ok", "refused", "failed"} :
          /\ Says(said)
          /\ IF Claude THEN job' = [job EXCEPT !.said = said, !.at = "compare"]
             ELSE IF said = "ok" \/ (memo = NoMemo /\ pin = 0) THEN Concludes("active", "drain")
             ELSE IF MemoHolds(job.token) THEN Concludes(memo.verdict, "drain")
             ELSE Concludes("error", "validate")
    BY <1>2 DEF Usage
  <2>2. local' = local /\ dead' = dead
    BY <1>2 DEF Usage
  <2>3. Claude
    <3>1. SUFFICES ASSUME ~Claude PROVE FALSE
      OBVIOUS
    <3>2. job'.at \in {"drain", "validate"}
      BY <1>0, <2>1, <3>1 DEF Concludes, JobRecord
    <3>. QED BY <3>2
  <2>4. job' = [job EXCEPT !.said = said, !.at = "compare"]
    BY <2>1, <2>3
  <2>5. said = "refused" /\ job'.token = job.token
    BY <1>0, <2>4 DEF JobRecord
  <2>6. job.token # 0
    BY <1>0, <1>2 DEF JobOK, Usage, JobAt
  <2>7. ~Accepts(local)
    BY <2>1, <2>5 DEF Says
  <2>8. local = job.token
    BY <2>2, <2>5
  <2>. QED BY <2>2, <2>5, <2>6, <2>7, <2>8 DEF Accepts
<1>3. CASE job' = NoJob \/ Poll
  BY <1>3, PollJob DEF NoJob
<1>4. CASE ReadAccount
  BY <1>0, <1>4 DEF ReadAccount, Concludes, JobRecord
<1>5. CASE Compare \/ Validate
  <2>1. job'.at = "drain"
    BY <1>0, <1>5 DEF Compare, Validate, Concludes, JobRecord
  <2>. QED BY <2>1
<1>6. CASE Drain \/ Attest \/ CommitVerdict
  <2>1. job'.at \in {"attest", "commit", "backfill", "idle"}
    <3>1. CASE Drain
      BY <1>0, <3>1 DEF Drain, JobRecord
    <3>2. CASE Attest
      BY <1>0, <3>2 DEF Attest, JobRecord
    <3>3. CASE CommitVerdict
      BY <1>0, <3>3 DEF CommitVerdict, JobRecord, NoJob
    <3>. QED BY <1>6, <3>1, <3>2, <3>3
  <2>. QED BY <2>1
<1>. QED BY <1>1, <1>2, <1>3, <1>4, <1>5, <1>6, JobMoves

\* Who changes what is remembered, and what that then is.
LEMMA MemoMoves ==
  ASSUME [ProbesNext]_probeVars
  PROVE  \/ memo' = memo \/ memo' = NoMemo \/ memo' = [memo EXCEPT !.fresh = FALSE]
         \/ Compare \/ Validate \/ (\E token \in {job.token} : memo' = Remembered("active", token))
BY DEF ProbesNext, OperatorStep, RefreshStep, Poll, Withdraw, ReadAccount, Usage, Drain, Attest,
       CommitVerdict, Backfill, Reset, Forget, Clear, ClaudeLogin, ParkLogin, SetPolicy, LoginLands,
       ServerDies, Rotate, Revoke, Expire, Restart, probeVars

\* Compare and Validate: what is remembered, and of whom.
LEMMA VerdictsRemembered ==
  ASSUME ProbesInv, Compare \/ Validate
  PROVE  /\ memo' \in MemoRecord
         /\ memo'.verdict = "awaiting_login" =>
              IF Claude THEN memo'.token \in dead ELSE ~Accepts(local) \/ stale'
         /\ job'.verdict = "awaiting_login" /\ job'.token # 0 =>
              IF Claude THEN job'.token \in dead ELSE ~Accepts(local) \/ stale'
<1>0. job \in JobRecord /\ JobOK /\ RefusalOK /\ MemoOK /\ memo \in MemoRecord
      /\ job.token \in Nat
  BY DEF ProbesInv, JobOK, JobRecord
<1>1. CASE Compare
  <2>0. Claude
    BY <1>0, <1>1 DEF JobOK, Compare, JobAt
  <2>1. CASE Concludes("error", "drain") /\ memo' = Remembered("error", job.token)
    BY <1>0, <2>1 DEF Concludes, Remembered, JobRecord, Verdicts, MemoRecord
  <2>2. CASE /\ job' = [job EXCEPT !.token = local, !.verdict = "active", !.at = "drain"]
             /\ memo' = memo
    BY <1>0, <2>0, <2>2 DEF JobRecord, MemoOK
  <2>3. CASE local # 0 /\ ~Rotated
             /\ LET verdict == CASE job.said = "refused" -> "awaiting_login"
                                 [] job.said = "failed" -> "error"
                                 [] OTHER -> "active"
                IN Concludes(verdict, "drain") /\ memo' = Remembered(verdict, job.token)
    <3>. DEFINE verdict == CASE job.said = "refused" -> "awaiting_login"
                             [] job.said = "failed" -> "error"
                             [] OTHER -> "active"
    <3>1. Concludes(verdict, "drain") /\ memo' = Remembered(verdict, job.token)
      BY <2>3
    <3>2. verdict \in Verdicts /\ (verdict = "awaiting_login" => job.said = "refused")
      BY DEF Verdicts, MemoRecord
    <3>3. verdict = "awaiting_login" => job.token \in dead
      BY <1>0, <1>1, <2>3, <3>2 DEF RefusalOK, Rotated, Compare, JobAt
    <3>. HIDE DEF verdict
    <3>4. job'.verdict = verdict /\ job'.token = job.token
      BY <1>0, <3>1 DEF Concludes, JobRecord
    <3>5. memo'.verdict = verdict /\ memo'.token = job.token /\ memo' \in MemoRecord
      BY <1>0, <3>1, <3>2 DEF Remembered, MemoRecord
    <3>. QED BY <2>0, <3>2, <3>3, <3>4, <3>5
  <2>. QED BY <1>1, <2>1, <2>2, <2>3 DEF Compare
<1>2. CASE Validate
  <2>0. ~Claude
    BY <1>0, <1>2 DEF JobOK, Validate, JobAt
  <2>1. CASE memo' = NoMemo /\ job' = [job EXCEPT !.token = local, !.verdict = "active", !.at = "drain"]
    BY <1>0, <2>1 DEF NoMemo, JobRecord, Verdicts, MemoRecord
  <2>2. CASE /\ ~Accepts(local) \/ stale'
             /\ memo' = Remembered("awaiting_login", job.token) /\ Concludes("awaiting_login", "drain")
    BY <1>0, <2>0, <2>2 DEF Remembered, Verdicts, MemoRecord
  <2>3. CASE memo' = Remembered("error", job.token) /\ Concludes("error", "drain")
    BY <1>0, <2>3 DEF Concludes, Remembered, JobRecord, Verdicts, MemoRecord
  <2>. QED BY <1>2, <2>1, <2>2, <2>3 DEF Validate
<1>. QED BY <1>1, <1>2

\* A login that lands is seen landing: it leaves the parked server completed, or
\* somebody has noted it.
LEMMA LandingMoves ==
  ASSUME ~Claude, [ProbesNext]_probeVars
  PROVE  /\ ~Accepts(local) => ~Accepts(local)' \/ parked' = "completed"
         /\ stale \/ parked = "completed" => \/ stale' \/ parked' = "completed"
                                           \/ (Drain /\ parked = "completed") \/ (Validate /\ memo' = NoMemo)
                                           \/ Forget \/ Restart
<1>1. CASE RefreshStep
  <2>1. CASE Poll
    BY <2>1 DEF Poll, Accepts
  <2>2. CASE Withdraw
    BY <2>2 DEF Withdraw, Accepts
  <2>3. CASE ReadAccount
    BY <2>3 DEF ReadAccount, Accepts
  <2>4. CASE Usage
    BY <2>4 DEF Usage, Accepts
  <2>5. CASE Compare
    BY <2>5 DEF Compare, Accepts
  <2>6. CASE Validate
    <3>1. local' = local /\ dead' = dead /\ parked' = parked
      BY <2>6 DEF Validate
    <3>2. memo' = NoMemo \/ UNCHANGED stale \/ (stale => stale')
      BY <2>6 DEF Validate
    <3>. QED BY <2>6, <3>1, <3>2 DEF Accepts
  <2>7. CASE Drain
    BY <2>7 DEF Drain, Accepts
  <2>8. CASE Attest
    BY <2>8 DEF Attest, Accepts
  <2>9. CASE CommitVerdict
    BY <2>9 DEF CommitVerdict, Accepts
  <2>10. CASE Backfill
    BY <2>10 DEF Backfill, Accepts
  <2>. QED BY <1>1, <2>1, <2>2, <2>3, <2>4, <2>5, <2>6, <2>7, <2>8, <2>9, <2>10 DEF RefreshStep
<1>2. CASE OperatorStep
  <2>1. CASE Reset
    BY <2>1 DEF Reset, Accepts
  <2>2. CASE Forget
    BY <2>2 DEF Forget, Accepts
  <2>3. CASE Clear
    BY <2>3 DEF Clear, Accepts
  <2>4. CASE ClaudeLogin
    BY <2>4 DEF ClaudeLogin, Accepts
  <2>5. CASE ParkLogin
    BY <2>5 DEF ParkLogin, Accepts
  <2>6. CASE SetPolicy
    BY <2>6 DEF SetPolicy, Accepts
  <2>. QED BY <1>2, <2>1, <2>2, <2>3, <2>4, <2>5, <2>6 DEF OperatorStep
<1>3. CASE LoginLands \/ ServerDies \/ Rotate \/ Revoke \/ Expire \/ Restart \/ UNCHANGED probeVars
  <2>1. CASE LoginLands
    BY <2>1 DEF LoginLands, Accepts
  <2>2. CASE ServerDies
    BY <2>2 DEF ServerDies, Accepts
  <2>3. CASE Rotate
    BY <2>3 DEF Rotate, Accepts
  <2>4. CASE Revoke
    BY <2>4 DEF Revoke, Accepts
  <2>5. CASE Expire
    BY <2>5 DEF Expire, Accepts
  <2>6. CASE Restart
    BY <2>6 DEF Restart, Accepts
  <2>7. CASE UNCHANGED probeVars
    BY <2>7 DEF probeVars, Accepts
  <2>. QED BY <1>3, <2>1, <2>2, <2>3, <2>4, <2>5, <2>6, <2>7
<1>. QED BY <1>1, <1>2, <1>3 DEF ProbesNext

LEMMA MemoKeeps ==
  ASSUME ProbesInv, [ProbesNext]_probeVars
  PROVE  memo' \in MemoRecord /\ MemoOK'
<1>0. /\ MemoOK /\ memo \in MemoRecord /\ dead \subseteq dead' /\ provider' = provider
      /\ (Claude <=> Claude')
  BY FileMoves DEF ProbesInv, Claude
<1>1. CASE Compare \/ Validate
  <2>1. /\ memo' \in MemoRecord
        /\ memo'.verdict = "awaiting_login" =>
              IF Claude THEN memo'.token \in dead ELSE ~Accepts(local) \/ stale'
    BY <1>1, VerdictsRemembered
  <2>2. local' = local /\ dead' = dead
    BY <1>1 DEF Compare, Validate
  <2>. QED BY <1>0, <2>1, <2>2 DEF MemoOK, Accepts
<1>2. CASE memo' = NoMemo \/ (\E token \in {job.token} : memo' = Remembered("active", token))
  <2>1. job.token \in Nat
    BY DEF ProbesInv, JobOK, JobRecord
  <2>2. memo' \in MemoRecord /\ memo'.verdict # "awaiting_login"
    <3>1. CASE memo' = NoMemo
      BY <3>1 DEF NoMemo, MemoRecord, Verdicts
    <3>2. CASE memo' = Remembered("active", job.token)
      BY <2>1, <3>2 DEF Remembered, MemoRecord, Verdicts
    <3>. QED BY <1>2, <3>1, <3>2
  <2>. QED BY <2>2 DEF MemoOK
<1>3. CASE memo' = memo \/ memo' = [memo EXCEPT !.fresh = FALSE]
  <2>1. memo'.verdict = memo.verdict /\ memo'.token = memo.token /\ memo' \in MemoRecord
    BY <1>0, <1>3 DEF MemoRecord
  <2>2. CASE Claude
    BY <1>0, <2>1, <2>2 DEF MemoOK
  <2>3. CASE ~Claude
    <3>2. (Drain /\ parked = "completed") \/ Forget \/ Restart => memo' = NoMemo
      BY DEF Drain, Forget, Restart
    <3>3. memo' # NoMemo \/ memo'.verdict # "awaiting_login"
      BY DEF NoMemo
    <3>. QED BY <1>0, <2>1, <2>3, <3>2, <3>3, LandingMoves DEF MemoOK
  <2>. QED BY <2>2, <2>3
<1>. QED BY <1>1, <1>2, <1>3, MemoMoves

LEMMA VerdictKeeps ==
  ASSUME ProbesInv, [ProbesNext]_probeVars
  PROVE  VerdictOK'
<1>0. /\ job \in JobRecord /\ job.token \in 0 .. minted /\ minted \in Nat /\ JobOK /\ MemoOK /\ VerdictOK
      /\ dead \subseteq dead' /\ (Claude <=> Claude')
      /\ local' = local \/ local' = 0 \/ local' > minted
  BY FileMoves DEF ProbesInv, JobOK, Claude
<1>. SUFFICES ASSUME job'.at \in {"drain", "attest", "commit"}, job'.verdict = "awaiting_login", job'.token # 0
              PROVE  IF Claude' THEN job'.token \in dead'
                     ELSE \/ stale' \/ job'.landed \/ parked' = "completed" \/ op' = "clear"
                          \/ job'.token \in dead' \/ local' # job'.token
  BY DEF VerdictOK
<1>1. CASE job' = NoJob \/ Poll \/ CommitVerdict
  <2>1. CASE job' = NoJob
    BY <2>1 DEF NoJob
  <2>2. CASE Poll
    BY <2>2, PollJob
  <2>3. CASE CommitVerdict
    BY <1>0, <2>3 DEF CommitVerdict, NoJob, JobRecord
  <2>. QED BY <1>1, <2>1, <2>2, <2>3
<1>2. CASE job' = job
  <2>1. CASE Claude
    BY <1>0, <1>2, <2>1 DEF VerdictOK
  <2>2. CASE ~Claude
    <3>1. \/ stale \/ job.landed \/ parked = "completed" \/ op = "clear"
          \/ job.token \in dead \/ local # job.token
      BY <1>0, <1>2, <2>2 DEF VerdictOK
    <3>2. ~Drain /\ ~Validate
      <4>1. CASE Drain
        <5>1. job.at = "drain" /\ job' = [job EXCEPT !.at = "attest", !.landed = parked = "completed"]
          BY <4>1 DEF Drain, JobAt
        <5>. QED BY <1>0, <1>2, <5>1 DEF JobRecord
      <4>2. CASE Validate
        BY <1>2, <4>2 DEF Validate, JobAt
      <4>. QED BY <4>1, <4>2
    <3>3. Restart => job' = NoJob
      BY DEF Restart
    <3>4. Forget => op' = "clear"
      BY DEF Forget
    <3>5. CASE stale \/ parked = "completed"
      BY <1>0, <1>1, <2>2, <3>2, <3>3, <3>4, <3>5, LandingMoves
    <3>6. CASE op = "clear"
      <4>1. op' = "clear" \/ Clear \/ Restart
        BY <3>6 DEF ProbesNext, OperatorStep, RefreshStep, Poll, Withdraw, ReadAccount, Usage, Compare,
                    Validate, Drain, Attest, CommitVerdict, Backfill, Reset, Forget, ClaudeLogin,
                    ParkLogin, SetPolicy, LoginLands, ServerDies, Rotate, Revoke, Expire, probeVars
      <4>2. Clear => local' = 0
        BY DEF Clear
      <4>. QED BY <1>0, <1>1, <2>2, <3>3, <4>1, <4>2
    <3>7. CASE local # job.token
      BY <1>0, <1>2, <2>2, <3>7
    <3>. QED BY <1>0, <1>2, <2>2, <3>1, <3>5, <3>6, <3>7
  <2>. QED BY <2>1, <2>2
<1>3. CASE ReadAccount
  <2>1. job.token = 0
    BY <1>0, <1>3 DEF ReadAccount, JobAt, JobOK
  <2>2. job' = [job EXCEPT !.token = local,
             !.verdict = IF Claude /\ anchor = local /\ MemoHolds(local) THEN memo.verdict ELSE "active",
             !.at = IF Claude /\ (anchor # local \/ MemoHolds(local)) THEN "drain" ELSE "usage"]
    <3>1. ASSUME NEW v, Concludes(v, "drain") PROVE job'.token = job.token
      BY <1>0, <3>1 DEF Concludes, JobRecord
    <3>. QED BY <1>3, <2>1, <3>1 DEF ReadAccount
  <2>3. job'.token = local /\ Claude /\ MemoHolds(local) /\ memo.verdict = "awaiting_login"
    BY <1>0, <2>2 DEF JobRecord
  <2>. QED BY <1>0, <2>3 DEF MemoHolds, MemoOK
<1>4. CASE Usage
  <2>1. PICK said \in {"ok", "refused", "failed"} :
          IF Claude THEN job' = [job EXCEPT !.said = said, !.at = "compare"]
          ELSE IF said = "ok" \/ (memo = NoMemo /\ pin = 0) THEN Concludes("active", "drain")
          ELSE IF MemoHolds(job.token) THEN Concludes(memo.verdict, "drain")
          ELSE Concludes("error", "validate")
    BY <1>4 DEF Usage
  <2>2. local' = local /\ dead' = dead /\ stale' = stale /\ parked' = parked
    BY <1>4 DEF Usage
  <2>3. CASE Claude
    BY <1>0, <2>1, <2>3 DEF JobRecord
  <2>4. CASE ~Claude
    <3>1. Concludes("active", "drain") \/ Concludes(memo.verdict, "drain") \/ Concludes("error", "validate")
      BY <2>1, <2>4
    <3>2. memo.verdict = "awaiting_login"
      BY <1>0, <3>1 DEF Concludes, JobRecord
    <3>3. stale \/ parked = "completed" \/ ~Accepts(local)
      BY <1>0, <2>4, <3>2 DEF MemoOK
    <3>4. ~Accepts(local) => local = 0 \/ local \in dead
      BY DEF Accepts
    <3>. QED BY <1>0, <2>2, <2>4, <3>3, <3>4
  <2>. QED BY <2>3, <2>4
<1>5. CASE Compare \/ Validate
  <2>1. IF Claude THEN job'.token \in dead ELSE ~Accepts(local) \/ stale'
    BY <1>5, VerdictsRemembered
  <2>2. local' = local /\ dead' = dead
    BY <1>5 DEF Compare, Validate
  <2>3. ~Accepts(local) => local = 0 \/ local \in dead
    BY DEF Accepts
  <2>. QED BY <1>0, <2>1, <2>2, <2>3
<1>6. CASE Drain
  <2>1. job' = [job EXCEPT !.at = "attest", !.landed = parked = "completed"] /\ job.at = "drain"
    BY <1>6 DEF Drain, JobAt
  <2>2. /\ job'.token = job.token /\ job'.verdict = job.verdict /\ job'.landed = (parked = "completed")
        /\ ~job.landed
    BY <1>0, <2>1 DEF JobRecord, JobOK
  <2>3. local' = local /\ op' = op /\ (parked # "completed" => stale' = stale /\ parked' = parked)
    BY <1>6 DEF Drain
  <2>4. CASE Claude
    BY <1>0, <2>1, <2>2, <2>4 DEF VerdictOK
  <2>5. CASE ~Claude
    <3>1. \/ stale \/ parked = "completed" \/ op = "clear" \/ job.token \in dead \/ local # job.token
      BY <1>0, <2>1, <2>2, <2>5 DEF VerdictOK
    <3>2. CASE parked = "completed"
      <4>1. job'.landed
        BY <2>2, <3>2
      <4>. QED BY <1>0, <2>5, <4>1
    <3>3. CASE parked # "completed"
      BY <1>0, <2>2, <2>3, <2>5, <3>1, <3>3
    <3>. QED BY <3>2, <3>3
  <2>. QED BY <2>4, <2>5
<1>7. CASE Attest
  <2>1. \/ job' = [job EXCEPT !.said = "attested", !.at = "commit"]
        \/ job' = [job EXCEPT !.said = "unattested", !.at = "commit"]
    BY <1>7 DEF Attest
  <2>2. job'.token = job.token /\ job'.verdict = job.verdict /\ job'.landed = job.landed /\ job.at = "attest"
    BY <1>0, <1>7, <2>1 DEF JobRecord, Attest, JobAt
  <2>3. local' = local /\ op' = op /\ stale' = stale /\ parked' = parked
    BY <1>7 DEF Attest
  <2>. QED BY <1>0, <2>2, <2>3 DEF VerdictOK
<1>. QED BY <1>1, <1>2, <1>3, <1>4, <1>5, <1>6, <1>7, JobMoves

LEMMA ProbesInvariant == ProbesSpec => []ProbesInv
<1>1. ProbesInit => ProbesInv
  <2>. SUFFICES ASSUME ProbesInit PROVE ProbesInv
    OBVIOUS
  <2>1. JobOK
    BY NoJobType DEF ProbesInit, JobOK, NoJob
  <2>2. memo \in MemoRecord /\ memo.verdict # "awaiting_login"
    BY DEF ProbesInit, NoMemo, MemoRecord, Verdicts
  <2>3. job.at = "idle"
    BY DEF ProbesInit, NoJob
  <2>. QED BY <2>1, <2>2, <2>3 DEF ProbesInv, RefusalOK, MemoOK, VerdictOK
<1>2. ProbesInv /\ [ProbesNext]_probeVars => ProbesInv'
  BY JobKeeps, RefusalKeeps, MemoKeeps, VerdictKeeps DEF ProbesInv
<1>. QED BY <1>1, <1>2, PTL DEF ProbesSpec

(* The operator is asked to log in again over an approved credential only  *)
(* when the provider refuses it or it is gone, for either runtime and any  *)
(* number of rotations, logins, revocations, resets and failures between   *)
(* the refresh's steps.                                                    *)
THEOREM LoginsAreNeeded == ProbesSpec => LoginIsNeeded
<1>. DEFINE Asks == JobAt("commit") /\ health # "awaiting_login" /\ health' = "awaiting_login"
                    /\ job' = NoJob /\ job # NoJob /\ op = "idle" /\ op' = "idle"
                    /\ job.token # 0 /\ anchor # 0 /\ ~stale /\ ~job.landed /\ parked # "completed"
                    => job.token \in dead \/ (~Claude /\ local # job.token)
<1>1. ProbesInv /\ [ProbesNext]_probeVars => [Asks]_probeVars
  <2>. SUFFICES ASSUME ProbesInv, ProbesNext, JobAt("commit"), health # "awaiting_login",
                       health' = "awaiting_login", job' = NoJob, job # NoJob, op = "idle", op' = "idle",
                       job.token # 0, anchor # 0, ~stale, ~job.landed, parked # "completed"
                PROVE  job.token \in dead \/ (~Claude /\ local # job.token)
    OBVIOUS
  <2>1. CommitVerdict \/ Restart
    BY DEF ProbesNext, OperatorStep, RefreshStep, Poll, Withdraw, ReadAccount, Usage, Compare, Validate,
           Drain, Attest, Backfill, Reset, Forget, Clear, ClaudeLogin, ParkLogin, SetPolicy, LoginLands,
           ServerDies, Rotate, Revoke, Expire, JobAt
  <2>2. ~Restart
    BY DEF Restart
  <2>3. Outcome = "awaiting_login"
    BY <2>1, <2>2 DEF CommitVerdict, Deactivated
  <2>4. job.verdict = "awaiting_login"
    BY <2>3 DEF Outcome, Approved
  <2>. QED BY <2>4 DEF ProbesInv, VerdictOK, JobAt
<1>. QED BY <1>1, ProbesInvariant, PTL DEF ProbesSpec, LoginIsNeeded

-----------------------------------------------------------------------------
(* The steering of a task                                                  *)

EventRecord == [kind : EventKinds, answers : SUBSET Messages]
Endings == {"result", "error"}

\* f grows along the stream, with every result and every error in it.
Counts(f) ==
    /\ f \in [0 .. Len(stream) -> Nat]
    /\ f[0] = 0
    /\ \A i, j \in 0 .. Len(stream) : i <= j => f[i] <= f[j]
    /\ \A i \in 1 .. Len(stream) : stream[i].kind \in Endings => f[i - 1] < f[i]

\* Every turn the agent has run, is running or may still run for a message it has
\* been handed is among the results the worker still expects.
Ahead(a) == Len(a.inbox) + (IF a.took = {} THEN 0 ELSE 1)
Expected == \E f : Counts(f) /\ Ahead(agent) + f[Len(stream)] <= worker.outstanding

\* Where a message that was handed over may be.
Known(m) ==
    \/ m \in answered \/ m \in agent.took
    \/ \E i \in DOMAIN agent.inbox : agent.inbox[i] = m
    \/ \E i \in DOMAIN stream : m \in stream[i].answers

HandedOver == {sent[i] : i \in DOMAIN sent}
ErrorComes == \E i \in DOMAIN stream : stream[i].kind = "error"

Tracked == worker.at \notin {"raise", "over"} => ErrorComes \/ \A m \in HandedOver : Known(m)

\* A turn in progress has stopped the clock, or its announcement is still to be read.
Announced ==
    agent.took # {} =>
       \/ worker.deadline = "off" /\ \A i \in DOMAIN stream : stream[i].kind # "result"
       \/ \E i \in DOMAIN stream :
             /\ stream[i].kind = "turn"
             /\ \A j \in DOMAIN stream : j > i => stream[j].kind # "result"

\* The process and the clock.
AgentFits ==
    /\ agent.turn # "none" <=> agent.alive /\ agent.took # {}
    /\ runtime # "claude_code" => worker.deadline = "off" /\ worker.outstanding <= 1
    /\ worker.deadline = "passed" => agent.inbox = <<>>
    /\ runtime # "claude_code" => \A i \in DOMAIN stream : stream[i].kind \in Endings
    /\ \A i \in DOMAIN stream : stream[i].kind # "result" => stream[i].answers = {}
    /\ worker.at \in {"send", "pop"} => worker.batch # <<>>

\* Before the first message there is nothing to tell apart.
NotBegun ==
    worker.at = "start" =>
       /\ worker.deadline = "off" /\ worker.outstanding = 0
       /\ sent = <<>> /\ agent.inbox = <<>> /\ agent.took = {}
       /\ \A i \in DOMAIN stream : stream[i].kind = "noise"

AllRead == \A i \in DOMAIN sent : sent[i] \in answered

Concluded ==
    /\ worker.at \in {"settle", "return"} => AllRead
    /\ status = "completed" => worker.at = "over" /\ AllRead

SteeringInv ==
    /\ SteeringTypeOK /\ Expected /\ Tracked /\ Announced /\ AgentFits /\ NotBegun /\ Concluded

WorkerRecord == [at : Places, batch : Seq(Steers), outstanding : Nat, deadline : Deadlines]
AgentRecord == [alive : BOOLEAN, turn : {"none", "starting", "active"},
                took : SUBSET Messages, inbox : Seq(Messages)]

LEMMA SteeringTypes ==
  ASSUME SteeringTypeOK
  PROVE  /\ worker \in WorkerRecord /\ agent \in AgentRecord /\ stream \in Seq(EventRecord)
         /\ sent \in Seq(Messages) /\ pending \in Seq(Steers) /\ answered \subseteq Messages
         /\ runtime \in Runtimes /\ accepted \in 0 .. MaxSteers /\ noise \in 0 .. MaxNoise
BY DEF SteeringTypeOK, WorkerRecord, AgentRecord, EventRecord

\* What the elements of a longer and of a shorter sequence are.
LEMMA Appended ==
  ASSUME NEW S, NEW s \in Seq(S), NEW e \in S
  PROVE  /\ Append(s, e) \in Seq(S) /\ Len(Append(s, e)) = Len(s) + 1
         /\ \A i \in 1 .. Len(s) : Append(s, e)[i] = s[i]
         /\ Append(s, e)[Len(s) + 1] = e
         /\ DOMAIN s = 1 .. Len(s) /\ DOMAIN Append(s, e) = 1 .. Len(s) + 1 /\ Len(s) \in Nat
OBVIOUS

LEMMA Shortened ==
  ASSUME NEW S, NEW s \in Seq(S), s # <<>>
  PROVE  /\ Tail(s) \in Seq(S) /\ Len(Tail(s)) = Len(s) - 1 /\ Head(s) = s[1] /\ Head(s) \in S
         /\ \A i \in 1 .. Len(s) - 1 : Tail(s)[i] = s[i + 1]
         /\ DOMAIN s = 1 .. Len(s) /\ DOMAIN Tail(s) = 1 .. Len(s) - 1 /\ Len(s) \in Nat \ {0}
OBVIOUS

\* What reading one event makes of the worker.
LEMMA ReadMoves ==
  ASSUME SteeringTypeOK, AgentFits, Read, NEW head, head = Head(stream)
  PROVE  /\ stream # <<>> /\ head \in EventRecord /\ stream' = Tail(stream) /\ worker' \in WorkerRecord
         /\ worker'.batch = worker.batch /\ worker'.at \in {"check", "return", "raise"}
         /\ worker'.outstanding = IF runtime = "claude_code" /\ head.kind = "result"
                                  THEN LeftOver(worker.outstanding) ELSE worker.outstanding
         /\ head.kind = "error" => worker'.at = "raise"
         /\ worker'.at = "return" =>
               head.kind = "result" /\ (runtime = "claude_code" => LeftOver(worker.outstanding) = 0)
         /\ runtime # "claude_code" => worker'.deadline = worker.deadline
         /\ head.kind = "turn" => worker'.deadline = "off"
         /\ head.kind # "result" /\ worker.deadline = "off" => worker'.deadline = "off"
         /\ worker'.deadline = "passed" => worker.deadline = "passed"
         /\ runtime' = runtime /\ status' = status /\ agent' = agent /\ sent' = sent
         /\ answered' = answered \cup head.answers
<1>0. /\ stream # <<>> /\ head \in EventRecord /\ stream' = Tail(stream) /\ worker \in WorkerRecord
      /\ runtime \in Runtimes /\ (runtime # "claude_code" => worker.deadline = "off")
      /\ runtime' = runtime /\ status' = status /\ agent' = agent /\ sent' = sent
      /\ answered' = answered \cup head.answers
  BY SteeringTypes, Shortened DEF Read, task, AgentFits
<1>t. runtime # "claude_code" => head.kind \in Endings
  BY <1>0, SteeringTypes, Shortened DEF AgentFits
<1>1. CASE runtime = "claude_code"
  <2>. DEFINE left == LeftOver(worker.outstanding)
  <2>0. left \in Nat
    BY <1>0 DEF LeftOver, WorkerRecord
  <2>1. worker' = OnClaudeEvent(head)
    BY <1>1 DEF Read
  <2>2. CASE head.kind = "turn"
    <3>1. worker' = [worker EXCEPT !.at = "check", !.deadline = "off"]
      BY <2>1, <2>2 DEF OnClaudeEvent
    <3>. QED BY <1>0, <1>1, <2>2, <3>1 DEF WorkerRecord, Places, Deadlines
  <2>3. CASE head.kind = "noise"
    <3>1. worker' = [worker EXCEPT !.at = "check",
                                   !.deadline = IF worker.deadline = "off" THEN "off" ELSE "set"]
      BY <2>1, <2>3 DEF OnClaudeEvent
    <3>. QED BY <1>0, <1>1, <2>3, <3>1 DEF WorkerRecord, Places, Deadlines
  <2>4. CASE head.kind = "error"
    <3>1. worker' = [worker EXCEPT !.at = "raise"]
      BY <2>1, <2>4 DEF OnClaudeEvent
    <3>. QED BY <1>0, <1>1, <2>4, <3>1 DEF WorkerRecord, Places, Deadlines
  <2>5. CASE head.kind = "result" /\ left = 0
    <3>1. worker' = [worker EXCEPT !.at = "return", !.outstanding = 0]
      BY <2>1, <2>5 DEF OnClaudeEvent
    <3>. QED BY <1>0, <1>1, <2>5, <3>1 DEF WorkerRecord, Places, Deadlines
  <2>6. CASE head.kind = "result" /\ left > 0
    <3>1. worker' = [worker EXCEPT !.at = "check", !.outstanding = left, !.deadline = "set"]
      BY <2>1, <2>6, <2>0 DEF OnClaudeEvent, Arms
    <3>. HIDE DEF left
    <3>2. /\ worker' \in WorkerRecord /\ worker'.batch = worker.batch /\ worker'.at = "check"
          /\ worker'.outstanding = left /\ worker'.deadline = "set"
      BY <1>0, <2>0, <3>1 DEF WorkerRecord, Places, Deadlines
    <3>3. left = LeftOver(worker.outstanding)
      BY DEF left
    <3>. QED BY <1>0, <1>1, <2>6, <3>2, <3>3
  <2>7. head.kind \in {"turn", "noise", "error", "result"}
    BY <1>0 DEF EventRecord, EventKinds
  <2>. QED BY <2>0, <2>2, <2>3, <2>4, <2>5, <2>6, <2>7
<1>2. CASE runtime # "claude_code"
  <2>1. worker' = [worker EXCEPT !.at = IF head.kind = "result" THEN "return" ELSE "raise"]
    BY <1>0, <1>2 DEF Read, OnCodexEvent, OnHermesExit, Runtimes
  <2>2. CASE head.kind = "result"
    <3>1. worker' = [worker EXCEPT !.at = "return"]
      BY <2>1, <2>2
    <3>. QED BY <1>0, <1>2, <2>2, <3>1 DEF WorkerRecord, Places
  <2>3. CASE head.kind # "result"
    <3>1. worker' = [worker EXCEPT !.at = "raise"]
      BY <2>1, <2>3
    <3>. QED BY <1>0, <1>2, <1>t, <2>3, <3>1 DEF WorkerRecord, Places, Endings
  <2>. QED BY <2>2, <2>3
<1>. QED BY <1>1, <1>2

LEMMA SteeringTypeKeeps ==
  ASSUME SteeringTypeOK, AgentFits, [SteeringNext]_steeringVars
  PROVE  SteeringTypeOK'
<1>0. /\ worker \in WorkerRecord /\ agent \in AgentRecord /\ stream \in Seq(EventRecord)
      /\ sent \in Seq(Messages) /\ pending \in Seq(Steers) /\ answered \subseteq Messages
      /\ runtime \in Runtimes /\ accepted \in 0 .. MaxSteers /\ noise \in 0 .. MaxNoise
      /\ status \in {"running", "completed", "failed", "cancelled"}
      /\ MaxSteers \in Nat /\ MaxNoise \in Nat /\ Input \in Messages /\ Steers \subseteq Messages
  BY SteeringTypes, SteeringAssumption DEF SteeringTypeOK, Messages
<1>. DEFINE Good == /\ worker' \in WorkerRecord /\ agent' \in AgentRecord /\ stream' \in Seq(EventRecord)
                    /\ sent' \in Seq(Messages) /\ pending' \in Seq(Steers) /\ answered' \subseteq Messages
                    /\ runtime' \in Runtimes /\ accepted' \in 0 .. MaxSteers /\ noise' \in 0 .. MaxNoise
                    /\ status' \in {"running", "completed", "failed", "cancelled"}
<1>s. SUFFICES Good
  BY DEF SteeringTypeOK, WorkerRecord, AgentRecord, EventRecord
<1>st. Stopped \in AgentRecord
  BY <1>0 DEF Stopped, AgentRecord
<1>h. worker.at \in {"send", "pop"} => /\ worker.batch # <<>> /\ Head(worker.batch) \in Steers
                                      /\ Tail(worker.batch) \in Seq(Steers)
  BY <1>0 DEF AgentFits, WorkerRecord
<1>1. CASE Steer
  <2>1. accepted + 1 \in Steers /\ accepted + 1 \in 0 .. MaxSteers
    BY <1>0, <1>1 DEF Steer, Steers
  <2>. QED BY <1>0, <1>1, <2>1 DEF Steer, history
<1>2. CASE Kill \/ CloseKilled \/ Dies \/ TurnActivates
  BY <1>0, <1>st, <1>2 DEF Kill, CloseKilled, Dies, TurnActivates, task, history, AgentRecord
<1>3. CASE StartClaude \/ StartCodex \/ StartHermes
  <2>1. <<Input>> \in Seq(Messages) /\ {Input} \subseteq Messages
    BY <1>0
  <2>2. worker' \in WorkerRecord
    <3>1. PICK place \in {"check", "wait"} : worker' = [worker EXCEPT !.at = place, !.outstanding = 1]
      BY <1>3 DEF StartClaude, StartCodex, StartHermes, StartsTurn
    <3>. QED BY <1>0, <3>1 DEF WorkerRecord, Places
  <2>3. agent' \in AgentRecord
    <3>1. \/ agent' = [agent EXCEPT !.inbox = <<Input>>]
          \/ agent' = [agent EXCEPT !.turn = "starting", !.took = {Input}]
          \/ agent' = [agent EXCEPT !.turn = "active", !.took = {Input}]
      BY <1>3 DEF StartClaude, StartCodex, StartHermes, StartsTurn
    <3>2. CASE agent' = [agent EXCEPT !.inbox = <<Input>>]
      BY <1>0, <2>1, <3>2 DEF AgentRecord
    <3>3. ASSUME NEW turn \in {"starting", "active"}, agent' = [agent EXCEPT !.turn = turn, !.took = {Input}]
          PROVE  agent' \in AgentRecord
      BY <1>0, <2>1, <3>3 DEF AgentRecord
    <3>. QED BY <3>1, <3>2, <3>3
  <2>. QED BY <1>0, <1>3, <2>1, <2>2, <2>3 DEF StartClaude, StartCodex, StartHermes, StartsTurn, task
<1>4. CASE Check
  <2>1. worker' = [worker EXCEPT !.at = "wait", !.batch = pending]
        \/ worker' = [worker EXCEPT !.at = "send", !.batch = pending]
    BY <1>4 DEF Check
  <2>. QED BY <1>0, <1>4, <2>1 DEF Check, task, history, WorkerRecord, Places
<1>5. CASE SendClaude
  <2>0. Head(worker.batch) \in Messages
    BY <1>0, <1>h, <1>5 DEF SendClaude, AtPlace
  <2>1. worker' \in WorkerRecord
    <3>1. worker' = [worker EXCEPT !.at = "pop", !.outstanding = worker.outstanding + 1, !.deadline = "off"]
      BY <1>5 DEF SendClaude, OnSend
    <3>2. worker.outstanding + 1 \in Nat
      BY <1>0 DEF WorkerRecord
    <3>. QED BY <1>0, <3>1, <3>2 DEF WorkerRecord, Places, Deadlines
  <2>2. agent' \in AgentRecord
    <3>1. agent' = [agent EXCEPT !.inbox = Append(agent.inbox, Head(worker.batch))]
      BY <1>5 DEF SendClaude
    <3>2. Append(agent.inbox, Head(worker.batch)) \in Seq(Messages)
      BY <1>0, <2>0, Appended DEF AgentRecord
    <3>. QED BY <1>0, <3>1, <3>2 DEF AgentRecord
  <2>3. sent' \in Seq(Messages)
    BY <1>0, <1>5, <2>0 DEF SendClaude
  <2>. QED BY <1>0, <1>5, <2>1, <2>2, <2>3 DEF SendClaude, task
<1>6. CASE SendCodex
  <2>0. Head(worker.batch) \in Messages
    BY <1>0, <1>h, <1>6 DEF SendCodex, AtPlace
  <2>1. worker' \in WorkerRecord
    BY <1>0, <1>6 DEF SendCodex, WorkerRecord, Places
  <2>2. agent' \in AgentRecord
    BY <1>0, <1>6, <2>0 DEF SendCodex, AgentRecord
  <2>3. sent' \in Seq(Messages)
    BY <1>0, <1>6, <2>0 DEF SendCodex
  <2>. QED BY <1>0, <1>6, <2>1, <2>2, <2>3 DEF SendCodex, task
<1>7. CASE Refused
  <2>1. worker' = [worker EXCEPT !.at = "wait", !.batch = <<>>]
    BY <1>7 DEF Refused, OnRefusal
  <2>2. <<>> \in Seq(Steers)
    OBVIOUS
  <2>. QED BY <1>0, <1>7, <2>1, <2>2 DEF Refused, task, history, WorkerRecord, Places
<1>8. CASE Pop
  <2>1. worker' = [worker EXCEPT !.at = "wait", !.batch = Tail(worker.batch)]
        \/ worker' = [worker EXCEPT !.at = "send", !.batch = Tail(worker.batch)]
    BY <1>8 DEF Pop
  <2>2. Tail(worker.batch) \in Seq(Steers)
    BY <1>h, <1>8 DEF Pop, AtPlace
  <2>3. worker' \in WorkerRecord
    BY <1>0, <2>1, <2>2 DEF WorkerRecord, Places
  <2>4. pending' \in Seq(Steers)
    BY <1>0, <1>8 DEF Pop, PopTaskSteer
  <2>. QED BY <1>0, <1>8, <2>3, <2>4 DEF Pop, history
<1>9. CASE Read
  <2>2. /\ stream # <<>> /\ Head(stream) \in EventRecord /\ stream' = Tail(stream) /\ worker' \in WorkerRecord
        /\ runtime' = runtime /\ status' = status /\ agent' = agent /\ sent' = sent
        /\ answered' = answered \cup Head(stream).answers
    BY <1>9, ReadMoves
  <2>3. stream' \in Seq(EventRecord) /\ Head(stream).answers \subseteq Messages
    BY <1>0, <2>2 DEF EventRecord
  <2>. QED BY <1>0, <1>9, <2>2, <2>3 DEF Read, task
<1>10. CASE ReadNothing \/ Settle \/ WriteFails \/ Raise \/ DeadlinePasses
  <2>1. \/ \E place \in {"settle", "check", "raise", "return"} : worker' = [worker EXCEPT !.at = place]
        \/ worker' = [worker EXCEPT !.deadline = "passed"]
    BY <1>10 DEF ReadNothing, Settle, WriteFails, Raise, DeadlinePasses
  <2>2. worker' \in WorkerRecord
    BY <1>0, <2>1 DEF WorkerRecord, Places, Deadlines
  <2>. QED BY <1>0, <1>10, <2>2 DEF ReadNothing, Settle, WriteFails, Raise, DeadlinePasses, task, history
<1>11. CASE Finish("return", "completed") \/ Finish("raise", "failed")
  <2>1. worker' = [worker EXCEPT !.at = "over"] /\ agent' = Stopped
    BY <1>11 DEF Finish
  <2>2. worker' \in WorkerRecord
    BY <1>0, <2>1 DEF WorkerRecord, Places
  <2>. QED BY <1>0, <1>11, <1>st, <2>1, <2>2 DEF Finish, history
<1>12. CASE TurnBegins \/ TurnMerges
  <2>1. Head(agent.inbox) \in Messages /\ Tail(agent.inbox) \in Seq(Messages)
    BY <1>0, <1>12 DEF TurnBegins, TurnMerges, AgentRecord
  <2>2. agent' \in AgentRecord
    <3>1. \/ agent' = [agent EXCEPT !.turn = "active", !.took = {Head(agent.inbox)}, !.inbox = Tail(agent.inbox)]
          \/ agent' = [agent EXCEPT !.took = agent.took \cup {Head(agent.inbox)}, !.inbox = Tail(agent.inbox)]
      BY <1>12 DEF TurnBegins, TurnMerges
    <3>2. {Head(agent.inbox)} \subseteq Messages /\ agent.took \cup {Head(agent.inbox)} \subseteq Messages
      BY <1>0, <2>1 DEF AgentRecord
    <3>3. ASSUME NEW turn \in {"none", "starting", "active"}, NEW took \in SUBSET Messages,
                 NEW inbox \in Seq(Messages),
                 agent' = [agent EXCEPT !.turn = turn, !.took = took, !.inbox = inbox]
          PROVE  agent' \in AgentRecord
      BY <1>0, <3>3 DEF AgentRecord
    <3>4. ASSUME NEW took \in SUBSET Messages, NEW inbox \in Seq(Messages),
                 agent' = [agent EXCEPT !.took = took, !.inbox = inbox]
          PROVE  agent' \in AgentRecord
      BY <1>0, <3>4 DEF AgentRecord
    <3>. QED BY <2>1, <3>1, <3>2, <3>3, <3>4
  <2>3. [kind |-> "turn", answers |-> {}] \in EventRecord
    BY DEF EventRecord, EventKinds
  <2>4. stream' \in Seq(EventRecord)
    <3>1. stream' = stream \/ stream' = Append(stream, [kind |-> "turn", answers |-> {}])
      BY <1>12 DEF TurnBegins, TurnMerges, Emits
    <3>. QED BY <1>0, <2>3, <3>1, Appended
  <2>. QED BY <1>0, <1>12, <2>2, <2>4 DEF TurnBegins, TurnMerges, task, history
<1>13. CASE TurnEnds \/ Notifies
  <2>1. agent' \in AgentRecord
    BY <1>0, <1>13 DEF TurnEnds, Notifies, AgentRecord
  <2>2. /\ [kind |-> "result", answers |-> agent.took] \in EventRecord
        /\ [kind |-> "error", answers |-> {}] \in EventRecord
        /\ [kind |-> "noise", answers |-> {}] \in EventRecord
    BY <1>0 DEF EventRecord, EventKinds, AgentRecord
  <2>3. noise' \in 0 .. MaxNoise
    BY <1>0, <1>13 DEF TurnEnds, Notifies
  <2>4. stream' \in Seq(EventRecord)
    <3>1. \/ stream' = Append(stream, [kind |-> "result", answers |-> agent.took])
          \/ stream' = Append(stream, [kind |-> "error", answers |-> {}])
          \/ stream' = Append(stream, [kind |-> "noise", answers |-> {}])
      BY <1>13 DEF TurnEnds, Notifies, Emits
    <3>2. ASSUME NEW e \in EventRecord, stream' = Append(stream, e) PROVE stream' \in Seq(EventRecord)
      BY <1>0, <3>2, Appended
    <3>. QED BY <2>2, <3>1, <3>2
  <2>. QED BY <1>0, <1>13, <2>1, <2>3, <2>4 DEF TurnEnds, Notifies, task, history
<1>14. CASE Over \/ UNCHANGED steeringVars
  BY <1>0, <1>14 DEF Over, steeringVars
<1>. HIDE DEF Good
<1>. QED BY <1>1, <1>2, <1>3, <1>4, <1>5, <1>6, <1>7, <1>8, <1>9, <1>10, <1>11, <1>12, <1>13, <1>14
         DEF SteeringNext, Works

-----------------------------------------------------------------------------
\* One more event: the count goes on, by one if the event ends a turn.
LEMMA CountsAppend ==
  ASSUME stream \in Seq(EventRecord), NEW e \in EventRecord, stream' = Append(stream, e), NEW f, Counts(f)
  PROVE  \E g : /\ Counts(g)'
               /\ g[Len(stream')] = f[Len(stream)] + (IF e.kind \in Endings THEN 1 ELSE 0)
<1>. DEFINE n == Len(stream)
            one == IF e.kind \in Endings THEN 1 ELSE 0
            g == [i \in 0 .. n + 1 |-> IF i = n + 1 THEN f[n] + one ELSE f[i]]
<1>0. /\ n \in Nat /\ one \in {0, 1} /\ (e.kind \in Endings => one = 1)
      /\ Len(stream') = n + 1 /\ stream'[n + 1] = e /\ \A i \in 1 .. n : stream'[i] = stream[i]
  BY Appended
<1>1. /\ f \in [0 .. n -> Nat] /\ f[0] = 0
      /\ \A i, j \in 0 .. n : i <= j => f[i] <= f[j]
      /\ \A i \in 1 .. n : stream[i].kind \in Endings => f[i - 1] < f[i]
  BY DEF Counts
<1>. HIDE DEF n, one
<1>2. /\ f[n] \in Nat /\ \A i \in 0 .. n : g[i] = f[i] /\ f[i] \in Nat
      /\ g[n + 1] = f[n] + one
  BY <1>0, <1>1
<1>3. g \in [0 .. n + 1 -> Nat]
  BY <1>0, <1>1, <1>2
<1>. HIDE DEF g
<1>4. \A i, j \in 0 .. n + 1 : i <= j => g[i] <= g[j]
  <2>. SUFFICES ASSUME NEW i \in 0 .. n + 1, NEW j \in 0 .. n + 1, i <= j PROVE g[i] <= g[j]
    OBVIOUS
  <2>1. CASE j = n + 1 /\ i # n + 1
    <3>1. i \in 0 .. n /\ n \in 0 .. n /\ i <= n
      BY <1>0, <2>1
    <3>2. f[i] <= f[n] /\ g[i] = f[i] /\ f[i] \in Nat
      BY <1>1, <1>2, <3>1
    <3>. QED BY <1>0, <1>2, <2>1, <3>2
  <2>2. CASE j # n + 1
    <3>1. i \in 0 .. n /\ j \in 0 .. n
      BY <1>0, <2>2
    <3>. QED BY <1>1, <1>2, <3>1
  <2>3. CASE i = n + 1
    BY <1>0, <1>2, <2>3
  <2>. QED BY <2>1, <2>2, <2>3
<1>5. \A i \in 1 .. n + 1 : stream'[i].kind \in Endings => g[i - 1] < g[i]
  <2>. SUFFICES ASSUME NEW i \in 1 .. n + 1, stream'[i].kind \in Endings PROVE g[i - 1] < g[i]
    OBVIOUS
  <2>1. CASE i = n + 1
    BY <1>0, <1>2, <2>1
  <2>2. CASE i # n + 1
    <3>1. i \in 1 .. n /\ i - 1 \in 0 .. n /\ i \in 0 .. n
      BY <1>0, <2>2
    <3>. QED BY <1>0, <1>1, <1>2, <3>1
  <2>. QED BY <2>1, <2>2
<1>6. g[0] = 0
  BY <1>0, <1>1, <1>2
<1>. PICK h : h = g
  OBVIOUS
<1>7. Counts(h)'
  BY <1>0, <1>3, <1>4, <1>5, <1>6 DEF Counts
<1>. QED BY <1>0, <1>2, <1>7 DEF n, one

\* One event less: the count loses what the event was counted for.
LEMMA CountsTail ==
  ASSUME stream \in Seq(EventRecord), stream # <<>>, stream' = Tail(stream), NEW f, Counts(f)
  PROVE  \E g : /\ Counts(g)'
               /\ g[Len(stream')] + (IF Head(stream).kind \in Endings THEN 1 ELSE 0) <= f[Len(stream)]
<1>. DEFINE n == Len(stream)
            one == IF Head(stream).kind \in Endings THEN 1 ELSE 0
            g == [i \in 0 .. n - 1 |-> f[i + 1] - f[1]]
<1>0. /\ n \in Nat \ {0} /\ one \in {0, 1} /\ (stream[1].kind \in Endings => one = 1)
      /\ (stream[1].kind \notin Endings => one = 0)
      /\ Len(stream') = n - 1 /\ \A i \in 1 .. n - 1 : stream'[i] = stream[i + 1]
  BY Shortened
<1>1. /\ f \in [0 .. n -> Nat] /\ f[0] = 0
      /\ \A i, j \in 0 .. n : i <= j => f[i] <= f[j]
      /\ \A i \in 1 .. n : stream[i].kind \in Endings => f[i - 1] < f[i]
  BY DEF Counts
<1>. HIDE DEF n, one
<1>2. 1 \in 0 .. n /\ f[1] \in Nat /\ one <= f[1]
  <2>1. 1 \in 1 .. n /\ 0 \in 0 .. n /\ 1 \in 0 .. n
    BY <1>0
  <2>2. f[1] \in Nat
    BY <1>1, <2>1
  <2>3. stream[1].kind \in Endings => f[1 - 1] < f[1]
    BY <1>1, <2>1
  <2>. QED BY <1>0, <1>1, <2>1, <2>2, <2>3
<1>3. \A i \in 0 .. n - 1 : /\ i + 1 \in 0 .. n /\ f[i + 1] \in Nat /\ f[1] <= f[i + 1]
                          /\ g[i] = f[i + 1] - f[1] /\ g[i] \in Nat
  <2>. SUFFICES ASSUME NEW i \in 0 .. n - 1
                PROVE  /\ i + 1 \in 0 .. n /\ f[i + 1] \in Nat /\ f[1] <= f[i + 1]
                       /\ g[i] = f[i + 1] - f[1] /\ g[i] \in Nat
    OBVIOUS
  <2>1. i + 1 \in 0 .. n /\ 1 <= i + 1
    BY <1>0
  <2>2. f[i + 1] \in Nat /\ f[1] <= f[i + 1]
    BY <1>1, <1>2, <2>1
  <2>. QED BY <1>2, <2>1, <2>2
<1>4. g \in [0 .. n - 1 -> Nat]
  BY <1>3
<1>. HIDE DEF g
<1>5. \A i, j \in 0 .. n - 1 : i <= j => g[i] <= g[j]
  <2>. SUFFICES ASSUME NEW i \in 0 .. n - 1, NEW j \in 0 .. n - 1, i <= j PROVE g[i] <= g[j]
    OBVIOUS
  <2>1. f[i + 1] <= f[j + 1]
    BY <1>1, <1>3
  <2>. QED BY <1>2, <1>3, <2>1
<1>6. \A i \in 1 .. n - 1 : stream'[i].kind \in Endings => g[i - 1] < g[i]
  <2>. SUFFICES ASSUME NEW i \in 1 .. n - 1, stream'[i].kind \in Endings PROVE g[i - 1] < g[i]
    OBVIOUS
  <2>1. i - 1 \in 0 .. n - 1 /\ i \in 0 .. n - 1 /\ i + 1 \in 1 .. n /\ (i - 1) + 1 = i /\ (i + 1) - 1 = i
    BY <1>0
  <2>2. f[i] < f[i + 1]
    BY <1>0, <1>1, <2>1
  <2>. QED BY <1>2, <1>3, <2>1, <2>2
<1>7. g[0] = 0 /\ g[n - 1] = f[n] - f[1] /\ f[n] \in Nat
  <2>1. 0 \in 0 .. n - 1 /\ n - 1 \in 0 .. n - 1 /\ 0 + 1 = 1 /\ (n - 1) + 1 = n
    BY <1>0
  <2>. QED BY <1>2, <1>3, <2>1
<1>. PICK h : h = g
  OBVIOUS
<1>8. Counts(h)'
  BY <1>0, <1>4, <1>5, <1>6, <1>7 DEF Counts
<1>. QED BY <1>0, <1>2, <1>7, <1>8 DEF n, one

\* Where nothing is counted, nothing ends a turn.
LEMMA CountsNone ==
  ASSUME NEW s \in Seq(EventRecord), NEW f \in [0 .. Len(s) -> Nat], f[Len(s)] = 0,
         \A i, j \in 0 .. Len(s) : i <= j => f[i] <= f[j],
         \A i \in 1 .. Len(s) : s[i].kind \in Endings => f[i - 1] < f[i]
  PROVE  \A i \in DOMAIN s : s[i].kind \notin Endings
<1>. SUFFICES ASSUME NEW i \in 1 .. Len(s), s[i].kind \in Endings PROVE FALSE
  OBVIOUS
<1>1. Len(s) \in Nat /\ i - 1 \in 0 .. Len(s) /\ i \in 0 .. Len(s) /\ Len(s) \in 0 .. Len(s)
  OBVIOUS
<1>2. f[i - 1] \in Nat /\ f[i] \in Nat /\ f[i - 1] < f[i] /\ f[i] <= f[Len(s)]
  BY <1>1
<1>. QED BY <1>2

\* The turns an agent may still run, with a turn under way and without one.
LEMMA AheadIs ==
  ASSUME NEW a \in AgentRecord
  PROVE  /\ Len(a.inbox) \in Nat /\ Ahead(a) \in Nat
         /\ a.took = {} => Ahead(a) = Len(a.inbox)
         /\ a.took # {} => Ahead(a) = Len(a.inbox) + 1
<1>1. Len(a.inbox) \in Nat
  BY DEF AgentRecord
<1>2. CASE a.took = {}
  BY <1>1, <1>2 DEF Ahead
<1>3. CASE a.took # {}
  <2>1. Ahead(a) = Len(a.inbox) + 1
    BY <1>3, Zenon DEF Ahead
  <2>. QED BY <1>1, <1>3, <2>1
<1>. QED BY <1>1, <1>2, <1>3

\* The steps that leave the stream alone: what they add to the agent's work, they
\* add to what the worker expects.
LEMMA QuietSteps ==
  ASSUME SteeringInv, [SteeringNext]_steeringVars, ~Read, ~TurnBegins, ~TurnEnds, ~Notifies
  PROVE  stream' = stream /\ Ahead(agent') + worker.outstanding <= Ahead(agent) + worker'.outstanding
<1>0. /\ agent \in AgentRecord /\ worker \in WorkerRecord /\ AgentFits /\ NotBegun /\ SteeringTypeOK
      /\ worker' \in WorkerRecord /\ agent' \in AgentRecord
  BY SteeringTypes, SteeringTypeKeeps DEF SteeringInv, SteeringTypeOK, AgentRecord, WorkerRecord
<1>n. /\ worker.outstanding \in Nat /\ worker'.outstanding \in Nat
      /\ Len(agent.inbox) \in Nat /\ Len(agent'.inbox) \in Nat
      /\ agent.took = {} => Ahead(agent) = Len(agent.inbox)
      /\ agent.took # {} => Ahead(agent) = Len(agent.inbox) + 1
      /\ agent'.took = {} => Ahead(agent') = Len(agent'.inbox)
      /\ agent'.took # {} => Ahead(agent') = Len(agent'.inbox) + 1
  <2>1. worker.outstanding \in Nat /\ worker'.outstanding \in Nat
    BY <1>0 DEF WorkerRecord
  <2>. QED BY <1>0, <2>1, AheadIs
<1>s. ASSUME agent'.inbox = agent.inbox, agent'.took = agent.took, worker'.outstanding = worker.outstanding
      PROVE  Ahead(agent') + worker.outstanding <= Ahead(agent) + worker'.outstanding
  BY <1>n, <1>s
<1>1. CASE Steer \/ Kill \/ Over \/ UNCHANGED steeringVars
  BY <1>1, <1>s DEF Steer, Kill, Over, steeringVars, history
<1>2. CASE CloseKilled \/ Dies \/ TurnActivates
  <2>1. agent'.inbox = agent.inbox /\ agent'.took = agent.took
    BY <1>0, <1>2 DEF CloseKilled, Dies, TurnActivates, Stopped, AgentRecord
  <2>. QED BY <1>2, <1>s, <2>1 DEF CloseKilled, Dies, TurnActivates
<1>3. CASE Check \/ Refused \/ Pop \/ ReadNothing \/ Settle \/ WriteFails \/ Raise \/ DeadlinePasses
  <2>1. worker'.outstanding = worker.outstanding
    BY <1>0, <1>3 DEF Check, Refused, Pop, ReadNothing, Settle, WriteFails, Raise, DeadlinePasses, WorkerRecord
  <2>. QED BY <1>3, <1>s, <2>1 DEF Check, Refused, Pop, ReadNothing, Settle, WriteFails, Raise, DeadlinePasses
<1>4. CASE Finish("return", "completed") \/ Finish("raise", "failed")
  <2>1. worker'.outstanding = worker.outstanding
    BY <1>0, <1>4 DEF Finish, WorkerRecord
  <2>2. agent'.inbox = agent.inbox /\ agent'.took = agent.took
    BY <1>0, <1>4 DEF Finish, Stopped, AgentRecord
  <2>. QED BY <1>4, <1>s, <2>1, <2>2 DEF Finish
<1>5. CASE StartClaude \/ StartCodex \/ StartHermes
  <2>1. worker'.outstanding = 1 /\ worker.outstanding = 0 /\ agent.took = {} /\ agent.inbox = <<>>
    BY <1>0, <1>5 DEF StartClaude, StartCodex, StartHermes, StartsTurn, WorkerRecord, NotBegun, AtPlace
  <2>2. \/ agent'.inbox = <<Input>> /\ agent'.took = {}
        \/ agent'.inbox = <<>> /\ agent'.took = {Input}
    BY <1>0, <1>5, <2>1 DEF StartClaude, StartCodex, StartHermes, StartsTurn, AgentRecord
  <2>3. Ahead(agent') = 1 /\ Ahead(agent) = 0
    <3>1. Len(<<>>) = 0 /\ Len(<<Input>>) = 1 /\ {Input} # {}
      OBVIOUS
    <3>2. Ahead(agent) = 0
      BY <1>n, <2>1, <3>1
    <3>3. CASE agent'.inbox = <<Input>> /\ agent'.took = {}
      BY <1>n, <3>1, <3>2, <3>3
    <3>4. CASE agent'.inbox = <<>> /\ agent'.took = {Input}
      <4>1. Len(agent'.inbox) = 0 /\ agent'.took # {}
        BY <3>1, <3>4
      <4>. QED BY <1>n, <3>2, <4>1
    <3>. QED BY <2>2, <3>3, <3>4
  <2>4. stream' = stream
    BY <1>5 DEF StartClaude, StartCodex, StartHermes, StartsTurn
  <2>. QED BY <2>1, <2>3, <2>4
<1>6. CASE SendClaude
  <2>0. Head(worker.batch) \in Messages
    BY <1>0, <1>6 DEF SendClaude, AtPlace, AgentFits, WorkerRecord, Messages
  <2>1. worker'.outstanding = worker.outstanding + 1
    BY <1>0, <1>6 DEF SendClaude, WorkerRecord
  <2>2. agent'.took = agent.took /\ agent'.inbox = Append(agent.inbox, Head(worker.batch))
    BY <1>0, <1>6 DEF SendClaude, AgentRecord
  <2>3. Len(agent'.inbox) = Len(agent.inbox) + 1
    BY <1>0, <2>0, <2>2, Appended DEF AgentRecord
  <2>. QED BY <1>6, <1>n, <2>1, <2>2, <2>3 DEF SendClaude
<1>7. CASE SendCodex
  <2>1. worker'.outstanding = worker.outstanding
    BY <1>0, <1>7 DEF SendCodex, WorkerRecord
  <2>2. agent'.inbox = agent.inbox /\ agent'.took # {}
    BY <1>0, <1>7 DEF SendCodex, AgentRecord
  <2>3. agent.took # {}
    BY <1>0, <1>7 DEF SendCodex, AgentFits
  <2>. QED BY <1>7, <1>n, <2>1, <2>2, <2>3 DEF SendCodex
<1>8. CASE TurnMerges
  <2>1. agent'.inbox = Tail(agent.inbox) /\ agent.inbox # <<>> /\ agent.took # {}
    BY <1>0, <1>8 DEF TurnMerges, AgentRecord, AgentFits
  <2>2. Len(agent'.inbox) = Len(agent.inbox) - 1
    BY <1>0, <2>1, Shortened DEF AgentRecord
  <2>. QED BY <1>8, <1>n, <2>1, <2>2 DEF TurnMerges
<1>. QED BY <1>1, <1>2, <1>3, <1>4, <1>5, <1>6, <1>7, <1>8 DEF SteeringNext, Works

\* What the agent's own steps write.
LEMMA Writes ==
  ASSUME SteeringInv, TurnBegins \/ TurnEnds \/ Notifies
  PROVE  \E e \in EventRecord :
            /\ stream' = Append(stream, e) /\ worker' = worker
            /\ (e.kind # "result" => e.answers = {})
            /\ \/ /\ TurnBegins /\ e.kind = "turn" /\ runtime = "claude_code" /\ agent.took = {} /\ agent.inbox # <<>>
                  /\ agent'.took = {Head(agent.inbox)} /\ agent'.inbox = Tail(agent.inbox)
               \/ /\ TurnEnds /\ e.kind \in Endings /\ agent.took # {} /\ agent'.took = {} /\ agent'.inbox = agent.inbox
                  /\ e.kind = "result" => e.answers = agent.took
               \/ Notifies /\ e.kind = "noise" /\ runtime = "claude_code" /\ agent' = agent
<1>0. agent \in AgentRecord /\ stream \in Seq(EventRecord) /\ AgentFits
  BY SteeringTypes DEF SteeringInv
<1>1. CASE TurnBegins
  <2>1. [kind |-> "turn", answers |-> {}] \in EventRecord
    BY DEF EventRecord, EventKinds
  <2>2. agent'.took = {Head(agent.inbox)} /\ agent'.inbox = Tail(agent.inbox)
    BY <1>0, <1>1 DEF TurnBegins, AgentRecord
  <2>3. agent.took = {} /\ agent.inbox # <<>> /\ runtime = "claude_code"
    BY <1>0, <1>1 DEF TurnBegins, AgentFits
  <2>4. stream' = Append(stream, [kind |-> "turn", answers |-> {}]) /\ worker' = worker
    BY <1>1 DEF TurnBegins, Emits
  <2>. QED BY <1>1, <2>1, <2>2, <2>3, <2>4
<1>2. CASE TurnEnds
  <2>1. /\ [kind |-> "result", answers |-> agent.took] \in EventRecord
        /\ [kind |-> "error", answers |-> {}] \in EventRecord
    BY <1>0 DEF EventRecord, EventKinds, AgentRecord
  <2>2. agent'.took = {} /\ agent'.inbox = agent.inbox /\ agent.took # {} /\ worker' = worker
    BY <1>0, <1>2 DEF TurnEnds, AgentRecord, AgentFits
  <2>3. CASE stream' = Append(stream, [kind |-> "result", answers |-> agent.took])
    BY <1>2, <2>1, <2>2, <2>3 DEF Endings
  <2>4. CASE stream' = Append(stream, [kind |-> "error", answers |-> {}])
    BY <1>2, <2>1, <2>2, <2>4 DEF Endings
  <2>. QED BY <1>2, <2>3, <2>4 DEF TurnEnds, Emits
<1>3. CASE Notifies
  <2>1. [kind |-> "noise", answers |-> {}] \in EventRecord
    BY DEF EventRecord, EventKinds
  <2>. QED BY <1>3, <2>1 DEF Notifies, Emits
<1>. QED BY <1>1, <1>2, <1>3

LEMMA ExpectedKeeps ==
  ASSUME SteeringInv, [SteeringNext]_steeringVars
  PROVE  Expected'
<1>0. /\ agent \in AgentRecord /\ worker \in WorkerRecord /\ stream \in Seq(EventRecord)
      /\ AgentFits /\ SteeringTypeOK /\ worker' \in WorkerRecord /\ agent' \in AgentRecord
  BY SteeringTypes, SteeringTypeKeeps DEF SteeringInv, SteeringTypeOK, AgentRecord, WorkerRecord
<1>n. /\ worker.outstanding \in Nat /\ worker'.outstanding \in Nat
      /\ Ahead(agent) \in Nat /\ Ahead(agent') \in Nat
      /\ agent.took = {} => Ahead(agent) = Len(agent.inbox)
      /\ agent.took # {} => Ahead(agent) = Len(agent.inbox) + 1
      /\ agent'.took = {} => Ahead(agent') = Len(agent'.inbox)
      /\ agent'.took # {} => Ahead(agent') = Len(agent'.inbox) + 1
  <2>1. worker.outstanding \in Nat /\ worker'.outstanding \in Nat
    BY <1>0 DEF WorkerRecord
  <2>. QED BY <1>0, <2>1, AheadIs
<1>. PICK f : Counts(f) /\ Ahead(agent) + f[Len(stream)] <= worker.outstanding
  BY DEF SteeringInv, Expected
<1>f. f[Len(stream)] \in Nat
  BY <1>0 DEF Counts
<1>1. CASE ~Read /\ ~TurnBegins /\ ~TurnEnds /\ ~Notifies
  <2>1. stream' = stream /\ Ahead(agent') + worker.outstanding <= Ahead(agent) + worker'.outstanding
    BY <1>1, QuietSteps
  <2>2. Counts(f)'
    BY <2>1 DEF Counts
  <2>3. Ahead(agent') + f[Len(stream')] <= worker'.outstanding
    BY <1>n, <1>f, <2>1
  <2>. QED BY <2>2, <2>3 DEF Expected, Ahead
<1>2. CASE TurnBegins \/ TurnEnds \/ Notifies
  <2>. PICK e \in EventRecord :
            /\ stream' = Append(stream, e) /\ worker' = worker
            /\ \/ /\ e.kind = "turn" /\ agent.inbox # <<>>
                  /\ agent'.took = {Head(agent.inbox)} /\ agent'.inbox = Tail(agent.inbox)
               \/ /\ e.kind \in Endings /\ agent.took # {} /\ agent'.took = {} /\ agent'.inbox = agent.inbox
               \/ e.kind = "noise" /\ agent' = agent
    BY <1>2, Writes
  <2>. DEFINE one == IF e.kind \in Endings THEN 1 ELSE 0
  <2>1. PICK g : Counts(g)' /\ g[Len(stream')] = f[Len(stream)] + one
    BY <1>0, CountsAppend
  <2>2. Ahead(agent') + one <= Ahead(agent)
    <3>1. CASE e.kind = "turn" /\ agent.inbox # <<>>
               /\ agent'.took = {Head(agent.inbox)} /\ agent'.inbox = Tail(agent.inbox)
      <4>1. Len(agent'.inbox) = Len(agent.inbox) - 1 /\ Len(agent.inbox) \in Nat
        BY <1>0, <3>1, Shortened DEF AgentRecord
      <4>2. agent'.took # {} /\ one = 0
        BY <3>1 DEF Endings
      <4>. QED BY <1>n, <3>1, <4>1, <4>2
    <3>2. CASE e.kind \in Endings /\ agent.took # {} /\ agent'.took = {} /\ agent'.inbox = agent.inbox
      <4>1. Len(agent.inbox) \in Nat
        BY <1>0 DEF AgentRecord
      <4>. QED BY <1>n, <3>2, <4>1
    <3>3. CASE e.kind = "noise" /\ agent' = agent
      <4>1. one = 0
        BY <3>3 DEF Endings
      <4>. QED BY <1>n, <3>3, <4>1
    <3>. QED BY <3>1, <3>2, <3>3
  <2>3. one \in {0, 1}
    OBVIOUS
  <2>. HIDE DEF one
  <2>4. Ahead(agent') + g[Len(stream')] <= worker'.outstanding
    BY <1>n, <1>f, <2>1, <2>2, <2>3
  <2>. QED BY <2>1, <2>4 DEF Expected, Ahead
<1>3. CASE Read
  <2>. DEFINE head == Head(stream)
              one == IF head.kind \in Endings THEN 1 ELSE 0
  <2>1. /\ stream # <<>> /\ stream' = Tail(stream) /\ agent' = agent
        /\ worker'.outstanding = IF runtime = "claude_code" /\ head.kind = "result"
                                 THEN LeftOver(worker.outstanding) ELSE worker.outstanding
    BY <1>0, <1>3, ReadMoves
  <2>2. PICK g : Counts(g)' /\ g[Len(stream')] + one <= f[Len(stream)]
    BY <1>0, <2>1, CountsTail
  <2>3. one \in {0, 1} /\ (head.kind = "result" => one = 1)
    BY DEF Endings
  <2>4. g[Len(stream')] \in Nat
    <3>1. Len(stream') \in Nat
      BY <1>0, <2>1, Shortened
    <3>. QED BY <2>2, <3>1 DEF Counts
  <2>. HIDE DEF one, head
  <2>5. worker'.outstanding + one >= worker.outstanding
    BY <1>n, <2>1, <2>3 DEF LeftOver
  <2>6. Ahead(agent') + g[Len(stream')] <= worker'.outstanding
    BY <1>n, <1>f, <2>1, <2>2, <2>3, <2>4, <2>5
  <2>. QED BY <2>2, <2>6 DEF Expected, Ahead
<1>. QED BY <1>1, <1>2, <1>3

-----------------------------------------------------------------------------
\* Which steps write the history and which leave a task that is over alone.
LEMMA PlacesStick ==
  ASSUME SteeringTypeOK, AgentFits, [SteeringNext]_steeringVars
  PROVE  /\ worker.at \in {"raise", "over"} => worker'.at \in {"raise", "over"}
         /\ worker.at = "over" => worker'.at = "over" /\ sent' = sent /\ answered' = answered
         /\ worker'.at = "start" => worker.at = "start"
<1>0. worker \in WorkerRecord
  BY SteeringTypes
<1>1. CASE Read
  BY <1>1, ReadMoves DEF Read, AtPlace
<1>2. CASE ~Read
  BY <1>0, <1>2 DEF SteeringNext, Works, Steer, Kill, CloseKilled, StartClaude, StartCodex, StartHermes, StartsTurn,
     Check, SendClaude, SendCodex, Refused, OnRefusal, Pop, ReadNothing, Settle, WriteFails, Finish, DeadlinePasses, Raise,
     TurnBegins, TurnMerges, TurnActivates, TurnEnds, Notifies, Dies, Over, AtPlace, steeringVars, history, WorkerRecord
<1>. QED BY <1>1, <1>2

\* The steps that hand nothing over, read nothing and write nothing: only the clock
\* may move.
LEMMA StillSteps ==
  ASSUME SteeringTypeOK, AgentFits, [SteeringNext]_steeringVars,
         ~StartClaude, ~StartCodex, ~StartHermes, ~SendClaude, ~SendCodex,
         ~Read, ~TurnBegins, ~TurnMerges, ~TurnEnds, ~Notifies
  PROVE  /\ stream' = stream /\ agent'.took = agent.took /\ agent'.inbox = agent.inbox
         /\ sent' = sent /\ answered' = answered /\ runtime' = runtime
         /\ worker'.outstanding = worker.outstanding
         /\ \/ worker'.deadline = worker.deadline
            \/ worker.deadline = "set" /\ agent.inbox = <<>> /\ worker'.deadline = "passed"
<1>0. worker \in WorkerRecord /\ agent \in AgentRecord
  BY SteeringTypes
<1>1. CASE CloseKilled \/ TurnActivates \/ Dies
  BY <1>0, <1>1 DEF CloseKilled, TurnActivates, Dies, Stopped, AgentRecord, task, history
<1>2. CASE Finish("return", "completed") \/ Finish("raise", "failed")
  BY <1>0, <1>2 DEF Finish, Stopped, AgentRecord, WorkerRecord, history
<1>3. CASE Check \/ Refused \/ Pop \/ ReadNothing \/ Settle \/ WriteFails \/ DeadlinePasses \/ Raise
  BY <1>0, <1>3 DEF Check, Refused, Pop, ReadNothing, Settle, WriteFails, DeadlinePasses, Raise,
     WorkerRecord, task, history
<1>4. CASE Steer \/ Kill \/ Over \/ UNCHANGED steeringVars
  BY <1>4 DEF Steer, Kill, Over, steeringVars, history
<1>. QED BY <1>1, <1>2, <1>3, <1>4 DEF SteeringNext, Works

\* The steps that hand a message over: it is in the pipe and the clock is off, or it
\* is in the turn.
LEMMA HandsOver ==
  ASSUME SteeringInv, StartClaude \/ StartCodex \/ StartHermes \/ SendClaude \/ SendCodex
  PROVE  \E m \in Messages :
           /\ sent' = Append(sent, m) /\ stream' = stream /\ answered' = answered /\ runtime' = runtime
           /\ \/ /\ agent'.took = agent.took /\ agent'.inbox = Append(agent.inbox, m)
                 /\ worker'.deadline = "off" /\ runtime = "claude_code"
              \/ /\ agent'.took = agent.took \cup {m} /\ agent'.inbox = agent.inbox
                 /\ worker'.deadline = worker.deadline /\ runtime # "claude_code"
                 /\ \/ agent.took # {}
                    \/ /\ worker.deadline = "off"
                       /\ \A i \in DOMAIN stream : stream[i].kind = "noise"
<1>0. /\ worker \in WorkerRecord /\ agent \in AgentRecord /\ AgentFits /\ NotBegun /\ SteeringTypeOK
      /\ Input \in Messages /\ Steers \subseteq Messages
  BY SteeringTypes DEF SteeringInv, Messages
<1>1. CASE StartClaude \/ StartCodex \/ StartHermes
  <2>1. /\ sent' = <<Input>> /\ sent = <<>> /\ agent.took = {} /\ agent.inbox = <<>> /\ worker.deadline = "off"
        /\ \A i \in DOMAIN stream : stream[i].kind = "noise"
        /\ stream' = stream /\ answered' = answered /\ runtime' = runtime
    BY <1>0, <1>1 DEF StartClaude, StartCodex, StartHermes, StartsTurn, NotBegun, AtPlace, task
  <2>2. Append(<<>>, Input) = <<Input>> /\ {} \cup {Input} = {Input}
    OBVIOUS
  <2>3. worker'.deadline = worker.deadline
    BY <1>0, <1>1 DEF StartClaude, StartCodex, StartHermes, StartsTurn, WorkerRecord
  <2>4. CASE StartClaude
    <3>1. agent'.took = agent.took /\ agent'.inbox = <<Input>> /\ runtime = "claude_code"
      BY <1>0, <2>4 DEF StartClaude, StartsTurn, AgentRecord
    <3>. QED BY <1>0, <2>1, <2>2, <2>3, <3>1
  <2>5. CASE StartCodex \/ StartHermes
    <3>1. agent'.took = {Input} /\ agent'.inbox = agent.inbox /\ runtime # "claude_code"
      BY <1>0, <2>5 DEF StartCodex, StartHermes, StartsTurn, AgentRecord
    <3>. QED BY <1>0, <2>1, <2>2, <2>3, <3>1
  <2>. QED BY <1>1, <2>4, <2>5
<1>2. CASE SendClaude
  <2>0. Head(worker.batch) \in Messages
    BY <1>0, <1>2 DEF SendClaude, AtPlace, AgentFits, WorkerRecord
  <2>1. agent'.took = agent.took /\ agent'.inbox = Append(agent.inbox, Head(worker.batch))
    BY <1>0, <1>2 DEF SendClaude, AgentRecord
  <2>2. worker'.deadline = "off"
    BY <1>0, <1>2 DEF SendClaude, OnSend, WorkerRecord
  <2>. QED BY <1>2, <2>0, <2>1, <2>2 DEF SendClaude, task
<1>3. CASE SendCodex
  <2>0. Head(worker.batch) \in Messages
    BY <1>0, <1>3 DEF SendCodex, AtPlace, AgentFits, WorkerRecord
  <2>1. agent'.took = agent.took \cup {Head(worker.batch)} /\ agent'.inbox = agent.inbox
    BY <1>0, <1>3 DEF SendCodex, AgentRecord
  <2>2. worker'.deadline = worker.deadline /\ agent.took # {}
    BY <1>0, <1>3 DEF SendCodex, WorkerRecord, AgentFits
  <2>. QED BY <1>3, <2>0, <2>1, <2>2 DEF SendCodex, task
<1>. QED BY <1>1, <1>2, <1>3

\* The agent merges a message into its turn.
LEMMA Merges ==
  ASSUME SteeringInv, TurnMerges
  PROVE  /\ worker' = worker /\ stream' = stream /\ sent' = sent /\ answered' = answered /\ runtime' = runtime
         /\ runtime = "claude_code" /\ agent.inbox # <<>> /\ agent.took # {}
         /\ agent'.took = agent.took \cup {Head(agent.inbox)} /\ agent'.inbox = Tail(agent.inbox)
         /\ agent'.turn = agent.turn /\ agent'.alive = agent.alive
BY SteeringTypes DEF SteeringInv, TurnMerges, AgentRecord, AgentFits, task, history

-----------------------------------------------------------------------------
\* An error in the stream stays there, or the worker has read it.
LEMMA ErrorKeeps ==
  ASSUME SteeringInv, [SteeringNext]_steeringVars, ErrorComes
  PROVE  ErrorComes' \/ worker'.at = "raise"
<1>0. stream \in Seq(EventRecord) /\ SteeringTypeOK /\ AgentFits
  BY SteeringTypes DEF SteeringInv
<1>. PICK i \in DOMAIN stream : stream[i].kind = "error"
  BY DEF ErrorComes
<1>1. CASE stream' = stream
  BY <1>1 DEF ErrorComes
<1>2. CASE TurnBegins \/ TurnEnds \/ Notifies
  <2>1. PICK e \in EventRecord : stream' = Append(stream, e)
    BY <1>2, Writes
  <2>2. i \in DOMAIN stream' /\ stream'[i] = stream[i]
    BY <1>0, <2>1, Appended
  <2>. QED BY <2>2 DEF ErrorComes
<1>3. CASE Read
  <2>1. /\ stream # <<>> /\ stream' = Tail(stream)
        /\ Head(stream).kind = "error" => worker'.at = "raise"
    BY <1>0, <1>3, ReadMoves
  <2>2. CASE i = 1
    BY <1>0, <2>1, <2>2, Shortened
  <2>3. CASE i # 1
    <3>1. i - 1 \in DOMAIN stream' /\ stream'[i - 1] = stream[i]
      <4>1. i - 1 \in 1 .. Len(stream) - 1 /\ (i - 1) + 1 = i
        BY <1>0, <2>1, <2>3, Shortened
      <4>. QED BY <1>0, <2>1, <4>1, Shortened
    <3>. QED BY <3>1 DEF ErrorComes
  <2>. QED BY <2>2, <2>3
<1>. QED BY <1>0, <1>1, <1>2, <1>3, StillSteps, HandsOver, Merges

\* A message is never lost between the pipe, the turn, the stream and the worker,
\* except with a turn that ends in an error.
LEMMA KnownKeeps ==
  ASSUME SteeringInv, [SteeringNext]_steeringVars, NEW m, Known(m)
  PROVE  Known(m)' \/ ErrorComes'
<1>0. /\ stream \in Seq(EventRecord) /\ agent \in AgentRecord /\ agent.inbox \in Seq(Messages)
      /\ SteeringTypeOK /\ AgentFits
  BY SteeringTypes DEF SteeringInv, AgentRecord
<1>1. CASE /\ stream' = stream /\ answered' = answered
           /\ agent'.took = agent.took /\ agent'.inbox = agent.inbox
  BY <1>1 DEF Known
<1>2. CASE StartClaude \/ StartCodex \/ StartHermes \/ SendClaude \/ SendCodex
  <2>. PICK n \in Messages :
           /\ stream' = stream /\ answered' = answered
           /\ \/ agent'.took = agent.took /\ agent'.inbox = Append(agent.inbox, n)
              \/ agent'.took = agent.took \cup {n} /\ agent'.inbox = agent.inbox
    BY <1>2, HandsOver
  <2>1. CASE agent'.took = agent.took /\ agent'.inbox = Append(agent.inbox, n)
    <3>1. \A i \in DOMAIN agent.inbox : i \in DOMAIN agent'.inbox /\ agent'.inbox[i] = agent.inbox[i]
      BY <1>0, <2>1, Appended
    <3>. QED BY <2>1, <3>1 DEF Known
  <2>2. CASE agent'.took = agent.took \cup {n} /\ agent'.inbox = agent.inbox
    BY <2>2 DEF Known
  <2>. QED BY <2>1, <2>2
<1>3. CASE TurnMerges \/ TurnBegins
  <2>1. /\ agent.inbox # <<>> /\ answered' = answered
        /\ agent'.inbox = Tail(agent.inbox)
        /\ agent.took \subseteq agent'.took /\ Head(agent.inbox) \in agent'.took
    <3>1. CASE TurnMerges
      BY <3>1, Merges
    <3>2. CASE TurnBegins
      <4>1. agent.inbox # <<>> /\ agent.took = {} /\ answered' = answered
        BY <1>0, <3>2 DEF TurnBegins, AgentFits, history
      <4>2. agent'.took = {Head(agent.inbox)} /\ agent'.inbox = Tail(agent.inbox)
        BY <1>0, <3>2 DEF TurnBegins, AgentRecord
      <4>. QED BY <4>1, <4>2
    <3>. QED BY <1>3, <3>1, <3>2
  <2>2. \A i \in DOMAIN stream : i \in DOMAIN stream' /\ stream'[i] = stream[i]
    <3>1. CASE TurnMerges
      BY <3>1, Merges
    <3>2. CASE TurnBegins
      BY <1>0, <3>2, Writes, Appended
    <3>. QED BY <1>3, <3>1, <3>2
  <2>3. ASSUME NEW i \in DOMAIN agent.inbox, agent.inbox[i] = m
        PROVE  m \in agent'.took \/ \E j \in DOMAIN agent'.inbox : agent'.inbox[j] = m
    <3>1. CASE i = 1
      BY <1>0, <2>1, <2>3, <3>1, Shortened
    <3>2. CASE i # 1
      <4>1. i - 1 \in 1 .. Len(agent.inbox) - 1 /\ (i - 1) + 1 = i
        BY <1>0, <2>1, <3>2, Shortened
      <4>2. i - 1 \in DOMAIN agent'.inbox /\ agent'.inbox[i - 1] = agent.inbox[i]
        BY <1>0, <2>1, <4>1, Shortened
      <4>. QED BY <2>3, <4>2
    <3>. QED BY <3>1, <3>2
  <2>. QED BY <2>1, <2>2, <2>3 DEF Known
<1>4. CASE TurnEnds \/ Notifies
  <2>1. PICK e \in EventRecord :
            /\ stream' = Append(stream, e)
            /\ \/ /\ e.kind \in Endings /\ agent'.took = {} /\ agent'.inbox = agent.inbox
                  /\ e.kind = "result" => e.answers = agent.took
               \/ agent' = agent
    <3>1. CASE TurnEnds
      BY <3>1, Writes DEF TurnBegins, TurnEnds, Notifies
    <3>2. CASE Notifies
      BY <3>2, Writes DEF Notifies
    <3>. QED BY <1>4, <3>1, <3>2
  <2>2. answered' = answered
    BY <1>4 DEF TurnEnds, Notifies, history
  <2>3. \A i \in DOMAIN stream : i \in DOMAIN stream' /\ stream'[i] = stream[i]
    BY <1>0, <2>1, Appended
  <2>4. Len(stream) + 1 \in DOMAIN stream' /\ stream'[Len(stream) + 1] = e
    BY <1>0, <2>1, Appended
  <2>5. CASE agent' = agent
    BY <2>2, <2>3, <2>5 DEF Known
  <2>6. CASE e.kind = "error"
    BY <2>4, <2>6 DEF ErrorComes
  <2>7. CASE e.kind = "result" /\ e.answers = agent.took /\ agent'.inbox = agent.inbox
    BY <2>2, <2>3, <2>4, <2>7 DEF Known
  <2>. QED BY <2>1, <2>5, <2>6, <2>7 DEF Endings
<1>5. CASE Read
  <2>1. /\ stream # <<>> /\ stream' = Tail(stream) /\ agent' = agent
        /\ answered' = answered \cup Head(stream).answers
    BY <1>0, <1>5, ReadMoves
  <2>2. ASSUME NEW i \in DOMAIN stream, m \in stream[i].answers
        PROVE  m \in answered' \/ \E j \in DOMAIN stream' : m \in stream'[j].answers
    <3>1. CASE i = 1
      BY <1>0, <2>1, <2>2, <3>1, Shortened
    <3>2. CASE i # 1
      <4>1. i - 1 \in 1 .. Len(stream) - 1 /\ (i - 1) + 1 = i
        BY <1>0, <2>1, <3>2, Shortened
      <4>2. i - 1 \in DOMAIN stream' /\ stream'[i - 1] = stream[i]
        BY <1>0, <2>1, <4>1, Shortened
      <4>. QED BY <2>2, <4>2
    <3>. QED BY <3>1, <3>2
  <2>. QED BY <2>1, <2>2 DEF Known
<1>. QED BY <1>0, <1>1, <1>2, <1>3, <1>4, <1>5, StillSteps

LEMMA TrackedKeeps ==
  ASSUME SteeringInv, [SteeringNext]_steeringVars
  PROVE  Tracked'
<1>0. sent \in Seq(Messages) /\ SteeringTypeOK /\ AgentFits /\ Tracked /\ agent \in AgentRecord
  BY SteeringTypes DEF SteeringInv
<1>. SUFFICES ASSUME worker'.at \notin {"raise", "over"}, ~ErrorComes', NEW m \in HandedOver'
              PROVE  Known(m)'
  BY DEF Tracked
<1>1. worker.at \notin {"raise", "over"} /\ ~ErrorComes
  BY <1>0, PlacesStick, ErrorKeeps
<1>2. CASE m \in HandedOver
  BY <1>0, <1>1, <1>2, KnownKeeps DEF Tracked
<1>3. CASE m \notin HandedOver
  <2>1. StartClaude \/ StartCodex \/ StartHermes \/ SendClaude \/ SendCodex
    <3>1. sent' # sent
      BY <1>3 DEF HandedOver
    <3>. QED BY <1>0, <3>1, StillSteps, ReadMoves, Merges DEF TurnBegins, TurnEnds, Notifies, history
  <2>2. PICK n \in Messages :
           /\ sent' = Append(sent, n)
           /\ \/ agent'.took = agent.took /\ agent'.inbox = Append(agent.inbox, n)
              \/ agent'.took = agent.took \cup {n} /\ agent'.inbox = agent.inbox
    BY <2>1, HandsOver
  <2>3. m = n
    BY <1>0, <1>3, <2>2, Appended DEF HandedOver
  <2>4. CASE agent'.took = agent.took /\ agent'.inbox = Append(agent.inbox, n)
    <3>1. Len(agent.inbox) + 1 \in DOMAIN agent'.inbox /\ agent'.inbox[Len(agent.inbox) + 1] = n
      BY <1>0, <2>4, Appended DEF AgentRecord
    <3>. QED BY <2>3, <3>1 DEF Known
  <2>5. CASE agent'.took = agent.took \cup {n}
    BY <2>3, <2>5 DEF Known
  <2>. QED BY <2>2, <2>4, <2>5
<1>. QED BY <1>2, <1>3

LEMMA AnnouncedKeeps ==
  ASSUME SteeringInv, [SteeringNext]_steeringVars
  PROVE  Announced'
<1>0. /\ stream \in Seq(EventRecord) /\ SteeringTypeOK /\ AgentFits /\ Announced
  BY SteeringTypes DEF SteeringInv
<1>. SUFFICES ASSUME agent'.took # {}
              PROVE  \/ worker'.deadline = "off" /\ \A i \in DOMAIN stream' : stream'[i].kind # "result"
                     \/ \E i \in DOMAIN stream' :
                           /\ stream'[i].kind = "turn"
                           /\ \A j \in DOMAIN stream' : j > i => stream'[j].kind # "result"
  BY DEF Announced
<1>1. CASE /\ stream' = stream /\ agent.took # {}
           /\ worker'.deadline = worker.deadline \/ worker.deadline = "set" \/ worker'.deadline = "off"
  BY <1>0, <1>1 DEF Announced
<1>2. CASE StartClaude \/ StartCodex \/ StartHermes \/ SendClaude \/ SendCodex
  <2>1. CASE agent.took # {}
    BY <1>1, <1>2, <2>1, HandsOver
  <2>2. CASE agent.took = {}
    <3>1. /\ stream' = stream /\ worker'.deadline = "off"
          /\ \A i \in DOMAIN stream : stream[i].kind = "noise"
      BY <1>2, <2>2, HandsOver
    <3>. QED BY <3>1
  <2>. QED BY <2>1, <2>2
<1>3. CASE TurnMerges
  BY <1>1, <1>3, Merges
<1>4. CASE TurnBegins \/ TurnEnds \/ Notifies
  <2>1. PICK e \in EventRecord :
            /\ stream' = Append(stream, e) /\ worker' = worker
            /\ e.kind = "turn" \/ (e.kind = "noise" /\ agent' = agent)
    <3>1. CASE TurnEnds
      BY <1>0, <3>1, SteeringTypes DEF TurnEnds, AgentRecord
    <3>2. CASE TurnBegins
      <4>1. runtime = "claude_code" /\ agent.turn = "none"
        BY <3>2 DEF TurnBegins
      <4>. QED BY <1>0, <3>2, <4>1, Writes DEF TurnEnds
    <3>3. CASE Notifies
      BY <3>3, Writes
    <3>. QED BY <1>4, <3>1, <3>2, <3>3
  <2>2. /\ \A i \in DOMAIN stream : i \in DOMAIN stream' /\ stream'[i] = stream[i]
        /\ Len(stream) + 1 \in DOMAIN stream' /\ stream'[Len(stream) + 1] = e
        /\ DOMAIN stream' = 1 .. Len(stream) + 1 /\ DOMAIN stream = 1 .. Len(stream) /\ Len(stream) \in Nat
    BY <1>0, <2>1, Appended
  <2>3. CASE e.kind = "turn"
    <3>1. \A j \in DOMAIN stream' : ~(j > Len(stream) + 1)
      BY <2>2
    <3>. QED BY <2>2, <2>3, <3>1
  <2>4. CASE e.kind = "noise" /\ agent' = agent
    <3>1. \A j \in DOMAIN stream' : j \in DOMAIN stream \/ stream'[j] = e
      BY <2>2
    <3>2. CASE worker.deadline = "off" /\ \A i \in DOMAIN stream : stream[i].kind # "result"
      BY <2>1, <2>2, <2>4, <3>1, <3>2
    <3>3. CASE \E i \in DOMAIN stream :
                  /\ stream[i].kind = "turn"
                  /\ \A j \in DOMAIN stream : j > i => stream[j].kind # "result"
      <4>. PICK i \in DOMAIN stream :
                  /\ stream[i].kind = "turn"
                  /\ \A j \in DOMAIN stream : j > i => stream[j].kind # "result"
        BY <3>3
      <4>1. i \in DOMAIN stream' /\ stream'[i].kind = "turn"
        BY <2>2
      <4>2. \A j \in DOMAIN stream' : j > i => stream'[j].kind # "result"
        BY <2>2, <2>4, <3>1
      <4>. QED BY <4>1, <4>2
    <3>. QED BY <1>0, <2>4, <3>2, <3>3 DEF Announced
  <2>. QED BY <2>1, <2>3, <2>4
<1>5. CASE Read
  <2>1. /\ stream # <<>> /\ stream' = Tail(stream) /\ agent' = agent
        /\ Head(stream).kind = "turn" => worker'.deadline = "off"
        /\ Head(stream).kind # "result" /\ worker.deadline = "off" => worker'.deadline = "off"
    BY <1>0, <1>5, ReadMoves
  <2>2. /\ Head(stream) = stream[1] /\ 1 \in DOMAIN stream /\ DOMAIN stream = 1 .. Len(stream)
        /\ DOMAIN stream' = 1 .. Len(stream) - 1 /\ Len(stream) \in Nat
        /\ \A i \in DOMAIN stream' : i + 1 \in DOMAIN stream /\ stream'[i] = stream[i + 1] /\ i + 1 > 1
    BY <1>0, <2>1, Shortened
  <2>3. CASE worker.deadline = "off" /\ \A i \in DOMAIN stream : stream[i].kind # "result"
    BY <2>1, <2>2, <2>3
  <2>4. CASE \E i \in DOMAIN stream :
                  /\ stream[i].kind = "turn"
                  /\ \A j \in DOMAIN stream : j > i => stream[j].kind # "result"
    <3>. PICK i \in DOMAIN stream :
                  /\ stream[i].kind = "turn"
                  /\ \A j \in DOMAIN stream : j > i => stream[j].kind # "result"
      BY <2>4
    <3>1. CASE i = 1
      BY <2>1, <2>2, <3>1
    <3>2. CASE i # 1
      <4>1. i - 1 \in DOMAIN stream' /\ (i - 1) + 1 = i
        BY <2>2, <3>2
      <4>2. stream'[i - 1].kind = "turn"
        BY <2>2, <4>1
      <4>3. ASSUME NEW j \in DOMAIN stream', j > i - 1 PROVE stream'[j].kind # "result"
        <5>1. j + 1 > i /\ j + 1 \in DOMAIN stream /\ stream'[j] = stream[j + 1]
          BY <2>2, <4>3
        <5>. QED BY <5>1
      <4>. QED BY <4>1, <4>2, <4>3
    <3>. QED BY <3>1, <3>2
  <2>. QED BY <1>0, <2>1, <2>3, <2>4 DEF Announced
<1>6. CASE ~(\/ StartClaude \/ StartCodex \/ StartHermes \/ SendClaude \/ SendCodex
             \/ Read \/ TurnBegins \/ TurnMerges \/ TurnEnds \/ Notifies)
  BY <1>0, <1>1, <1>6, StillSteps
<1>. QED BY <1>2, <1>3, <1>4, <1>5, <1>6

\* What a process does that is alive and in a turn.
LEMMA TurnFits ==
  ASSUME SteeringInv, [SteeringNext]_steeringVars
  PROVE  agent'.turn # "none" <=> agent'.alive /\ agent'.took # {}
<1>0. agent \in AgentRecord /\ AgentFits /\ NotBegun
  BY SteeringTypes DEF SteeringInv
<1>t. agent.turn # "none" <=> agent.alive /\ agent.took # {}
  BY <1>0 DEF AgentFits
<1>1. CASE agent' = agent
  BY <1>1, <1>t
<1>2. CASE agent' = Stopped
  BY <1>0, <1>2 DEF Stopped, AgentRecord
<1>3. CASE StartClaude \/ StartCodex \/ StartHermes
  <2>1. agent.alive /\ agent.took = {}
    BY <1>0, <1>3 DEF StartClaude, StartCodex, StartHermes, StartsTurn, NotBegun, AtPlace
  <2>2. CASE StartClaude
    <3>1. agent' = [agent EXCEPT !.inbox = <<Input>>]
      BY <2>2 DEF StartClaude, StartsTurn
    <3>. QED BY <1>0, <1>t, <2>1, <3>1 DEF AgentRecord
  <2>3. ASSUME NEW turn \in {"starting", "active"}, agent' = [agent EXCEPT !.turn = turn, !.took = {Input}]
        PROVE  agent'.turn # "none" <=> agent'.alive /\ agent'.took # {}
    BY <1>0, <2>1, <2>3 DEF AgentRecord
  <2>. QED BY <1>3, <2>2, <2>3 DEF StartCodex, StartHermes, StartsTurn
<1>4. CASE SendClaude \/ SendCodex \/ TurnActivates
  BY <1>0, <1>t, <1>4 DEF SendClaude, SendCodex, TurnActivates, AgentRecord
<1>5. CASE TurnBegins \/ TurnMerges \/ TurnEnds
  <2>1. CASE TurnBegins
    <3>1. agent' = [agent EXCEPT !.turn = "active", !.took = {Head(agent.inbox)}, !.inbox = Tail(agent.inbox)]
          /\ agent.alive
      BY <2>1 DEF TurnBegins
    <3>. QED BY <1>0, <3>1 DEF AgentRecord
  <2>2. CASE TurnMerges
    <3>1. agent'.took # {} /\ agent'.turn = agent.turn /\ agent'.alive = agent.alive /\ agent.took # {}
      BY <2>2, Merges
    <3>. QED BY <1>t, <3>1
  <2>3. CASE TurnEnds
    <3>1. agent' = [agent EXCEPT !.turn = "none", !.took = {}]
      BY <2>3 DEF TurnEnds
    <3>. QED BY <1>0, <3>1 DEF AgentRecord
  <2>. QED BY <1>5, <2>1, <2>2, <2>3
<1>. QED BY <1>1, <1>2, <1>3, <1>4, <1>5 DEF SteeringNext, Works, Steer, Kill, CloseKilled,
     Check, Refused, Pop, Read, ReadNothing, Settle, WriteFails, Finish, DeadlinePasses, Raise,
     Notifies, Dies, Over, steeringVars, task, history

\* The worker sends what it has read.
LEMMA BatchFits ==
  ASSUME SteeringInv, [SteeringNext]_steeringVars
  PROVE  worker'.at \in {"send", "pop"} => worker'.batch # <<>>
<1>0. worker \in WorkerRecord /\ SteeringTypeOK /\ AgentFits /\ pending \in Seq(Steers)
  BY SteeringTypes DEF SteeringInv
<1>b. worker.at \in {"send", "pop"} => worker.batch # <<>>
  BY <1>0 DEF AgentFits
<1>1. CASE Check
  <2>1. \/ pending # <<>> /\ worker' = [worker EXCEPT !.at = "send", !.batch = pending]
        \/ worker' = [worker EXCEPT !.at = "wait", !.batch = pending]
    BY <1>1 DEF Check
  <2>. QED BY <1>0, <2>1 DEF WorkerRecord
<1>2. CASE Pop
  <2>1. \/ Len(worker.batch) # 1 /\ worker' = [worker EXCEPT !.at = "send", !.batch = Tail(worker.batch)]
        \/ worker' = [worker EXCEPT !.at = "wait", !.batch = Tail(worker.batch)]
    BY <1>2 DEF Pop
  <2>2. worker.batch # <<>> /\ worker.batch \in Seq(Steers)
    BY <1>0, <1>b, <1>2 DEF Pop, AtPlace, WorkerRecord
  <2>3. Len(worker.batch) # 1 => Tail(worker.batch) # <<>>
    <3>1. Len(Tail(worker.batch)) = Len(worker.batch) - 1 /\ Len(worker.batch) \in Nat \ {0}
      BY <2>2, Shortened
    <3>2. Len(<<>>) = 0
      OBVIOUS
    <3>3. Tail(worker.batch) = <<>> => Len(Tail(worker.batch)) = Len(<<>>)
      BY Zenon
    <3>. QED BY <3>1, <3>2, <3>3
  <2>. QED BY <1>0, <2>1, <2>3 DEF WorkerRecord
<1>3. CASE Refused
  <2>1. worker' = [worker EXCEPT !.at = "wait", !.batch = <<>>]
    BY <1>3 DEF Refused, OnRefusal
  <2>. QED BY <1>0, <2>1 DEF WorkerRecord
<1>4. CASE Read
  BY <1>0, <1>4, ReadMoves
<1>5. CASE StartClaude \/ StartCodex \/ StartHermes
  <2>1. PICK place \in {"check", "wait"} : worker' = [worker EXCEPT !.at = place, !.outstanding = 1]
    BY <1>5 DEF StartClaude, StartCodex, StartHermes, StartsTurn
  <2>. QED BY <1>0, <2>1 DEF WorkerRecord
<1>6. CASE SendClaude \/ SendCodex
  BY <1>0, <1>b, <1>6 DEF SendClaude, SendCodex, AtPlace, WorkerRecord
<1>7. CASE ReadNothing \/ Settle \/ WriteFails \/ Raise \/ Finish("return", "completed") \/ Finish("raise", "failed")
  <2>1. \E place \in {"settle", "check", "raise", "return", "over"} : worker' = [worker EXCEPT !.at = place]
    BY <1>7 DEF ReadNothing, Settle, WriteFails, Raise, Finish
  <2>. QED BY <1>0, <2>1 DEF WorkerRecord
<1>8. CASE DeadlinePasses
  BY <1>0, <1>b, <1>8 DEF DeadlinePasses, WorkerRecord
<1>9. CASE worker' = worker
  BY <1>b, <1>9
<1>. QED BY <1>1, <1>2, <1>3, <1>4, <1>5, <1>6, <1>7, <1>8, <1>9 DEF SteeringNext, Works,
     Steer, Kill, CloseKilled, TurnBegins, TurnMerges, TurnActivates, TurnEnds, Notifies, Dies, Over,
     steeringVars, history

LEMMA AgentFitsKeeps ==
  ASSUME SteeringInv, [SteeringNext]_steeringVars
  PROVE  AgentFits'
<1>0. /\ worker \in WorkerRecord /\ agent \in AgentRecord /\ stream \in Seq(EventRecord)
      /\ agent.inbox \in Seq(Messages) /\ SteeringTypeOK /\ AgentFits /\ NotBegun
  BY SteeringTypes DEF SteeringInv, AgentRecord
<1>1. runtime' # "claude_code" => worker'.deadline = "off" /\ worker'.outstanding <= 1
  <2>. SUFFICES ASSUME runtime' # "claude_code" PROVE worker'.deadline = "off" /\ worker'.outstanding <= 1
    OBVIOUS
  <2>1. runtime' = runtime /\ worker.deadline = "off" /\ worker.outstanding <= 1
    <3>1. runtime' = runtime
      BY <1>0, StillSteps, ReadMoves, Merges, HandsOver DEF TurnBegins, TurnEnds, Notifies, task
    <3>. QED BY <1>0, <3>1 DEF AgentFits
  <2>2. CASE StartClaude \/ StartCodex \/ StartHermes
    <3>1. PICK place \in {"check", "wait"} : worker' = [worker EXCEPT !.at = place, !.outstanding = 1]
      BY <2>2 DEF StartClaude, StartCodex, StartHermes, StartsTurn
    <3>. QED BY <1>0, <2>1, <3>1 DEF WorkerRecord
  <2>3. CASE SendCodex
    BY <1>0, <2>1, <2>3 DEF SendCodex, WorkerRecord
  <2>4. CASE Read
    BY <1>0, <2>1, <2>4, ReadMoves
  <2>5. CASE worker' = worker
    BY <2>1, <2>5
  <2>6. ~SendClaude
    BY <2>1 DEF SendClaude
  <2>. QED BY <1>0, <2>1, <2>2, <2>3, <2>4, <2>5, <2>6, StillSteps, Merges DEF TurnBegins, TurnEnds, Notifies
<1>2. worker'.deadline = "passed" => agent'.inbox = <<>>
  <2>. SUFFICES ASSUME worker'.deadline = "passed" PROVE agent'.inbox = <<>>
    OBVIOUS
  <2>1. worker.deadline = "passed" => agent.inbox = <<>>
    BY <1>0 DEF AgentFits
  <2>2. CASE StartClaude \/ StartCodex \/ StartHermes \/ SendClaude \/ SendCodex
    BY <2>1, <2>2, HandsOver
  <2>3. CASE Read
    BY <1>0, <2>1, <2>3, ReadMoves
  <2>4. CASE TurnMerges
    BY <2>1, <2>4, Merges
  <2>5. CASE TurnBegins
    BY <2>1, <2>5 DEF TurnBegins
  <2>6. CASE TurnEnds \/ Notifies
    BY <1>0, <2>1, <2>6 DEF TurnEnds, Notifies, AgentRecord
  <2>. QED BY <1>0, <2>1, <2>2, <2>3, <2>4, <2>5, <2>6, StillSteps
<1>3. /\ runtime' # "claude_code" => \A i \in DOMAIN stream' : stream'[i].kind \in Endings
      /\ \A i \in DOMAIN stream' : stream'[i].kind # "result" => stream'[i].answers = {}
  <2>1. /\ runtime # "claude_code" => \A i \in DOMAIN stream : stream[i].kind \in Endings
        /\ \A i \in DOMAIN stream : stream[i].kind # "result" => stream[i].answers = {}
    BY <1>0 DEF AgentFits
  <2>2. CASE stream' = stream /\ runtime' = runtime
    BY <2>1, <2>2
  <2>3. CASE TurnBegins \/ TurnEnds \/ Notifies
    <3>1. PICK e \in EventRecord :
              /\ stream' = Append(stream, e)
              /\ e.kind # "result" => e.answers = {}
              /\ runtime # "claude_code" => e.kind \in Endings
      BY <2>3, Writes
    <3>2. runtime' = runtime
      BY <2>3 DEF TurnBegins, TurnEnds, Notifies, task
    <3>3. \A i \in DOMAIN stream' : (i \in DOMAIN stream /\ stream'[i] = stream[i]) \/ stream'[i] = e
      <4>1. DOMAIN stream' = 1 .. Len(stream) + 1 /\ DOMAIN stream = 1 .. Len(stream) /\ Len(stream) \in Nat
        BY <1>0, <3>1, Appended
      <4>2. \A i \in DOMAIN stream' : i \in 1 .. Len(stream) \/ i = Len(stream) + 1
        BY <4>1
      <4>. QED BY <1>0, <3>1, <4>1, <4>2, Appended
    <3>. QED BY <2>1, <3>1, <3>2, <3>3
  <2>4. CASE Read
    <3>1. stream # <<>> /\ stream' = Tail(stream) /\ runtime' = runtime
      BY <1>0, <2>4, ReadMoves
    <3>2. \A i \in DOMAIN stream' : i + 1 \in DOMAIN stream /\ stream'[i] = stream[i + 1]
      BY <1>0, <3>1, Shortened
    <3>. QED BY <2>1, <3>1, <3>2
  <2>. QED BY <1>0, <2>2, <2>3, <2>4, StillSteps, HandsOver, Merges
<1>. QED BY <1>1, <1>2, <1>3, TurnFits, BatchFits DEF AgentFits

LEMMA NotBegunKeeps ==
  ASSUME SteeringInv, [SteeringNext]_steeringVars
  PROVE  NotBegun'
<1>0. /\ worker \in WorkerRecord /\ agent \in AgentRecord /\ stream \in Seq(EventRecord)
      /\ SteeringTypeOK /\ AgentFits /\ NotBegun
  BY SteeringTypes DEF SteeringInv
<1>. SUFFICES ASSUME worker'.at = "start"
              PROVE  /\ worker'.deadline = "off" /\ worker'.outstanding = 0
                     /\ sent' = <<>> /\ agent'.inbox = <<>> /\ agent'.took = {}
                     /\ \A i \in DOMAIN stream' : stream'[i].kind = "noise"
  BY DEF NotBegun
<1>1. /\ worker.at = "start" /\ worker.deadline = "off" /\ worker.outstanding = 0
      /\ sent = <<>> /\ agent.inbox = <<>> /\ agent.took = {} /\ agent.turn = "none"
      /\ \A i \in DOMAIN stream : stream[i].kind = "noise"
  BY <1>0, PlacesStick DEF NotBegun, AgentFits
<1>2. ~StartClaude /\ ~StartCodex /\ ~StartHermes
  <2>. SUFFICES ASSUME StartClaude \/ StartCodex \/ StartHermes PROVE FALSE
    OBVIOUS
  <2>1. PICK place \in {"check", "wait"} : worker' = [worker EXCEPT !.at = place, !.outstanding = 1]
    BY DEF StartClaude, StartCodex, StartHermes, StartsTurn
  <2>. QED BY <1>0, <2>1 DEF WorkerRecord
<1>3. ~SendClaude /\ ~SendCodex /\ ~Read /\ ~TurnBegins /\ ~TurnMerges /\ ~TurnEnds
  BY <1>1 DEF SendClaude, SendCodex, Read, AtPlace, TurnBegins, TurnMerges, TurnEnds
<1>4. CASE Notifies
  <2>1. /\ worker' = worker /\ agent' = agent /\ sent' = sent
        /\ stream' = Append(stream, [kind |-> "noise", answers |-> {}])
    BY <1>4 DEF Notifies, Emits, history
  <2>2. [kind |-> "noise", answers |-> {}] \in EventRecord
    BY DEF EventRecord, EventKinds
  <2>3. \A i \in DOMAIN stream' : stream'[i].kind = "noise"
    <3>. SUFFICES ASSUME NEW i \in DOMAIN stream' PROVE stream'[i].kind = "noise"
      OBVIOUS
    <3>1. /\ i \in 1 .. Len(stream) \/ i = Len(stream) + 1
          /\ DOMAIN stream = 1 .. Len(stream)
      <4>1. DOMAIN stream' = 1 .. Len(stream) + 1 /\ Len(stream) \in Nat /\ DOMAIN stream = 1 .. Len(stream)
        BY <1>0, <2>1, <2>2, Appended
      <4>. QED BY <4>1
    <3>2. CASE i = Len(stream) + 1
      BY <1>0, <2>1, <2>2, <3>2, Appended
    <3>3. CASE i \in 1 .. Len(stream)
      <4>1. stream'[i] = stream[i]
        BY <1>0, <2>1, <2>2, <3>3, Appended
      <4>. QED BY <1>1, <3>1, <3>3, <4>1
    <3>. QED BY <3>1, <3>2, <3>3
  <2>. QED BY <1>1, <2>1, <2>3
<1>5. CASE ~Notifies
  BY <1>0, <1>1, <1>2, <1>3, <1>5, StillSteps
<1>. QED BY <1>4, <1>5

-----------------------------------------------------------------------------
\* The stream has settled: the pipe and the turn are empty, and no error comes.
LEMMA SettledIsAnswered ==
  ASSUME SteeringInv, AtPlace("wait"), stream = <<>>, worker.deadline = "passed"
  PROVE  AllRead
<1>1. agent.took = {} /\ agent.inbox = <<>> /\ DOMAIN stream = {} /\ DOMAIN agent.inbox = {}
  <2>1. agent.inbox = <<>>
    BY DEF SteeringInv, AgentFits
  <2>2. DOMAIN stream = {} /\ DOMAIN agent.inbox = {}
    BY <2>1
  <2>. QED BY <2>1, <2>2 DEF SteeringInv, Announced
<1>2. \A m \in HandedOver : Known(m)
  BY <1>1 DEF SteeringInv, Tracked, AtPlace, ErrorComes
<1>. QED BY <1>1, <1>2 DEF Known, HandedOver, AllRead

\* The last result has been read: the agent has nothing left to answer.
LEMMA LastIsAnswered ==
  ASSUME SteeringInv, Read, worker'.at = "return"
  PROVE  AllRead'
<1>0. /\ stream \in Seq(EventRecord) /\ agent \in AgentRecord /\ worker \in WorkerRecord
      /\ SteeringTypeOK /\ AgentFits /\ AgentFits' /\ Tracked' /\ SteeringTypeOK'
  BY SteeringTypes, TrackedKeeps, AgentFitsKeeps, SteeringTypeKeeps DEF SteeringInv, SteeringNext, Works
<1>1. /\ stream # <<>> /\ stream' = Tail(stream) /\ agent' = agent
      /\ Head(stream).kind = "result"
      /\ runtime = "claude_code" => LeftOver(worker.outstanding) = 0
  BY <1>0, ReadMoves
<1>2. worker.outstanding \in Nat /\ worker.outstanding <= 1
  <2>1. worker.outstanding \in Nat
    BY <1>0 DEF WorkerRecord
  <2>2. CASE runtime = "claude_code"
    BY <1>1, <2>1, <2>2 DEF LeftOver
  <2>. QED BY <1>0, <2>1, <2>2 DEF AgentFits
<1>3. PICK f : Counts(f) /\ Ahead(agent) + f[Len(stream)] <= worker.outstanding
  BY DEF SteeringInv, Expected
<1>4. PICK g : Counts(g)' /\ g[Len(stream')] + 1 <= f[Len(stream)]
  BY <1>0, <1>1, <1>3, CountsTail DEF Endings
<1>5. /\ f[Len(stream)] \in Nat /\ g[Len(stream')] \in Nat /\ Ahead(agent) \in Nat
      /\ Len(agent.inbox) \in Nat /\ stream' \in Seq(EventRecord)
  <2>1. Len(stream) \in Nat /\ Len(stream') \in Nat /\ stream' \in Seq(EventRecord)
    BY <1>0, <1>1, Shortened
  <2>. QED BY <1>0, <1>3, <1>4, <2>1, AheadIs DEF Counts
<1>6. Ahead(agent) = 0 /\ g[Len(stream')] = 0
  BY <1>2, <1>3, <1>4, <1>5
<1>7. agent.took = {} /\ Len(agent.inbox) = 0
  BY <1>0, <1>5, <1>6, AheadIs
<1>8. \A i \in DOMAIN stream' : stream'[i].kind \notin Endings
  BY <1>4, <1>5, <1>6, CountsNone DEF Counts
<1>9. /\ \A m \in HandedOver' : Known(m)'
      /\ \A i \in DOMAIN stream' : stream'[i].answers = {}
  BY <1>0, <1>8 DEF Tracked, ErrorComes, Endings, AgentFits
<1>10. DOMAIN agent'.inbox = {}
  BY <1>0, <1>1, <1>7 DEF AgentRecord
<1>. QED BY <1>1, <1>7, <1>9, <1>10 DEF Known, HandedOver, AllRead

LEMMA ConcludedKeeps ==
  ASSUME SteeringInv, [SteeringNext]_steeringVars
  PROVE  Concluded'
<1>0. /\ worker \in WorkerRecord /\ SteeringTypeOK /\ AgentFits /\ Concluded
  BY SteeringTypes DEF SteeringInv
<1>1. worker'.at \in {"settle", "return"} => AllRead'
  <2>. SUFFICES ASSUME worker'.at \in {"settle", "return"} PROVE AllRead'
    OBVIOUS
  <2>1. CASE Read
    BY <1>0, <2>1, ReadMoves, LastIsAnswered
  <2>2. CASE ReadNothing
    <3>1. worker.deadline = "passed" /\ stream = <<>> /\ AtPlace("wait")
      BY <1>0, <2>2 DEF ReadNothing, WorkerRecord
    <3>2. sent' = sent /\ answered' = answered
      BY <2>2 DEF ReadNothing, history
    <3>. QED BY <3>1, <3>2, SettledIsAnswered DEF AllRead
  <2>3. CASE Settle
    BY <1>0, <2>3 DEF Settle, AtPlace, Concluded, history, AllRead
  <2>4. CASE worker'.at = worker.at /\ sent' = sent /\ answered' = answered
    BY <1>0, <2>4 DEF Concluded, AllRead
  <2>5. ~StartClaude /\ ~StartCodex /\ ~StartHermes /\ ~SendClaude /\ ~SendCodex
        /\ ~Check /\ ~Refused /\ ~Pop /\ ~WriteFails /\ ~Raise
        /\ ~Finish("return", "completed") /\ ~Finish("raise", "failed")
    <3>1. ~StartClaude /\ ~StartCodex /\ ~StartHermes
      <4>. SUFFICES ASSUME StartClaude \/ StartCodex \/ StartHermes PROVE FALSE
        OBVIOUS
      <4>1. PICK place \in {"check", "wait"} : worker' = [worker EXCEPT !.at = place, !.outstanding = 1]
        BY DEF StartClaude, StartCodex, StartHermes, StartsTurn
      <4>. QED BY <1>0, <4>1 DEF WorkerRecord
    <3>2. ~SendClaude /\ ~SendCodex
      <4>1. ASSUME SendClaude PROVE worker'.at = "pop"
        <5>1. worker' = [worker EXCEPT !.at = "pop", !.outstanding = worker.outstanding + 1, !.deadline = "off"]
          BY <4>1 DEF SendClaude, OnSend
        <5>. QED BY <1>0, <5>1 DEF WorkerRecord
      <4>2. ASSUME SendCodex PROVE worker'.at = "pop"
        BY <1>0, <4>2 DEF SendCodex, WorkerRecord
      <4>. QED BY <4>1, <4>2
    <3>3. ~Check
      BY <1>0 DEF Check, WorkerRecord
    <3>4. ~Refused
      <4>1. ASSUME Refused PROVE worker' = [worker EXCEPT !.at = "wait", !.batch = <<>>]
        BY <4>1 DEF Refused, OnRefusal
      <4>. QED BY <1>0, <4>1 DEF WorkerRecord
    <3>5. ~Pop
      BY <1>0 DEF Pop, WorkerRecord
    <3>6. ~WriteFails /\ ~Raise /\ ~Finish("return", "completed") /\ ~Finish("raise", "failed")
      BY <1>0 DEF WriteFails, Raise, Finish, WorkerRecord
    <3>. QED BY <3>1, <3>2, <3>3, <3>4, <3>5, <3>6
  <2>6. CASE DeadlinePasses
    BY <1>0, <2>4, <2>6 DEF DeadlinePasses, WorkerRecord, history
  <2>. QED BY <1>0, <2>1, <2>2, <2>3, <2>4, <2>5, <2>6 DEF SteeringNext, Works, Steer, Kill, CloseKilled,
         TurnBegins, TurnMerges, TurnActivates, TurnEnds, Notifies, Dies, Over, steeringVars, history
<1>2. status' = "completed" => worker'.at = "over" /\ AllRead'
  <2>. SUFFICES ASSUME status' = "completed" PROVE worker'.at = "over" /\ AllRead'
    OBVIOUS
  <2>1. CASE status = "completed"
    BY <1>0, <2>1, PlacesStick DEF Concluded, AllRead
  <2>2. CASE status # "completed"
    <3>1. Finish("return", "completed")
      BY <2>2 DEF SteeringNext, Works, Steer, Kill, CloseKilled, StartClaude, StartCodex, StartHermes, StartsTurn,
         Check, SendClaude, SendCodex, Refused, Pop, Read, ReadNothing, Settle, WriteFails, Finish, DeadlinePasses,
         Raise, TurnBegins, TurnMerges, TurnActivates, TurnEnds, Notifies, Dies, Over, steeringVars, task
    <3>. QED BY <1>0, <3>1 DEF Finish, AtPlace, Concluded, AllRead, WorkerRecord, history
  <2>. QED BY <2>1, <2>2
<1>. QED BY <1>1, <1>2 DEF Concluded

LEMMA SteeringInvariant == SteeringSpec => []SteeringInv
<1>1. SteeringInit => SteeringInv
  <2>. SUFFICES ASSUME SteeringInit PROVE SteeringInv
    OBVIOUS
  <2>1. SteeringTypeOK
    BY SteeringAssumption DEF SteeringInit, SteeringTypeOK, Places, Deadlines
  <2>2. Tracked /\ Announced /\ AgentFits /\ NotBegun /\ Concluded
    BY DEF SteeringInit, Tracked, Announced, AgentFits, NotBegun, Concluded, HandedOver
  <2>3. Expected
    <3>. DEFINE f == [i \in 0 .. 0 |-> 0]
    <3>1. Len(stream) = 0 /\ worker.outstanding = 0 /\ agent \in AgentRecord /\ agent.took = {} /\ Len(agent.inbox) = 0
      BY <2>1, SteeringTypes DEF SteeringInit
    <3>2. Ahead(agent) = 0
      BY <3>1, AheadIs
    <3>3. Counts(f) /\ f[Len(stream)] = 0
      BY <3>1 DEF Counts
    <3>. QED BY <3>1, <3>2, <3>3 DEF Expected
  <2>. QED BY <2>1, <2>2, <2>3 DEF SteeringInv
<1>2. SteeringInv /\ [SteeringNext]_steeringVars => SteeringInv'
  BY SteeringTypeKeeps, ExpectedKeeps, TrackedKeeps, AnnouncedKeeps, AgentFitsKeeps, NotBegunKeeps, ConcludedKeeps
  DEF SteeringInv
<1>. QED BY <1>1, <1>2, PTL DEF SteeringSpec

\* Type correctness of a task that is steered.
THEOREM SteeringTypeCorrect == SteeringSpec => []SteeringTypeOK
<1>1. SteeringInv => SteeringTypeOK
  BY DEF SteeringInv
<1>. QED BY <1>1, SteeringInvariant, PTL

\* A task completes only when the result of every message handed over has been read,
\* in every runtime, for any number of steers and however the agent merges them.
THEOREM EveryMessageAnswered == SteeringSpec => []AllAnswered
<1>1. SteeringInv => AllAnswered
  BY DEF SteeringInv, Concluded, AllRead, AllAnswered
<1>. QED BY <1>1, SteeringInvariant, PTL

-----------------------------------------------------------------------------
(* The sessions of the database                                            *)

FramePlaces == {"lock", "checkout", "begin", "body", "nested", "write", "commit", "rollback", "checkin"}
FrameRecord == [at : FramePlaces, kind : {"read", "mutation"}, conn : Conns \cup {NoConn},
                saw : Nat, failed : BOOLEAN]

SessionsTyped ==
    /\ permits \in Nat /\ pool \in Seq(Conns)
    /\ link \in [Conns -> {"closed", "live", "stale"}]
    /\ tx \in [Conns -> {"none", "open", "failed"}]
    /\ unread = [c \in Conns |-> 0]
    /\ frames \in [Threads -> Seq(FrameRecord)]
    /\ lock \subseteq Threads /\ counter \in Nat

\* What a block may be: it has a connection once it is past its checkout, and only a
\* mutation waits for a block of its own above it.
FrameOK(f, place, depth) ==
    /\ f.at \in {"lock", "checkout"} <=> f.conn = NoConn
    /\ f.at = "nested" <=> place < depth
    /\ place = 2 => f.kind = "read"
    /\ f.at \in {"lock", "nested", "write"} => f.kind = "mutation"
BlocksOK ==
    \A t \in Threads :
        /\ Len(frames[t]) <= 2
        /\ \A i \in DOMAIN frames[t] : FrameOK(frames[t][i], i, Len(frames[t]))

\* A mutation past the lock has it alone, and the counter is as it read it.
MutationsOK ==
    \A t \in Threads : \A i \in DOMAIN frames[t] :
        LET f == frames[t][i]
        IN f.kind = "mutation" /\ f.at # "lock" =>
              /\ lock = {t}
              /\ f.at \in {"nested", "write", "commit"} => f.saw = counter

\* The connection of one block, the connections of all.
Holds(t, i) == IF i <= Len(frames[t]) THEN frames[t][i].conn ELSE NoConn
HeldNow(c) == \E t \in Threads, i \in 1 .. 2 : Holds(t, i) = c
Slots == {s \in Threads \X (1 .. 2) : Holds(s[1], s[2]) # NoConn}

\* A connection has one holder or waits in the pool, or it is closed.
HoldersApart ==
    \A t, u \in Threads, i, j \in 1 .. 2 :
        Holds(t, i) # NoConn /\ Holds(t, i) = Holds(u, j) => t = u /\ i = j
PoolOK ==
    /\ \A i \in DOMAIN pool : link[pool[i]] # "closed" /\ tx[pool[i]] = "none" /\ ~HeldNow(pool[i])
    /\ \A i, j \in DOMAIN pool : pool[i] = pool[j] => i = j
NoneLoose == \A c \in Conns : link[c] # "closed" => HeldNow(c) \/ \E i \in DOMAIN pool : pool[i] = c

\* What is checked in has been committed, rolled back or closed.
CheckedIn ==
    \A t \in Threads : \A i \in DOMAIN frames[t] :
        LET f == frames[t][i]
        IN f.at = "checkin" => link[f.conn] = "closed" \/ tx[f.conn] = "none"

SlotsOK == permits + Cardinality(Slots) = MAX_ACTIVE_CONNECTIONS

ConnsOK == HoldersApart /\ PoolOK /\ NoneLoose /\ CheckedIn

SessionInv == SessionsTyped /\ BlocksOK /\ MutationsOK /\ NoLostUpdate /\ ConnsOK /\ SlotsOK

\* How the blocks of one thread change: the top one, one more, one less.
Same(t) == \A u \in Threads : u # t => frames'[u] = frames[u]
Moves(t, g) ==
    /\ Same(t) /\ Len(frames'[t]) = Len(frames[t])
    /\ \A i \in 1 .. Len(frames[t]) : frames'[t][i] = IF i = Len(frames[t]) THEN g ELSE frames[t][i]
Opens(t, g) == Same(t) /\ frames[t] = <<>> /\ frames'[t] = <<g>>
Nests(t, g) ==
    /\ Same(t) /\ Len(frames'[t]) = Len(frames[t]) + 1 /\ frames'[t][Len(frames[t])] = g
    /\ frames'[t][Len(frames[t]) + 1] = Frame("checkout", "read")
Ends(t) == Same(t) /\ Len(frames[t]) = 1 /\ Len(frames'[t]) = 0
Returns(t, place) ==
    /\ Same(t) /\ Len(frames[t]) = 2 /\ Len(frames'[t]) = 1
    /\ frames'[t][1] = [frames[t][1] EXCEPT !.at = place]

LEMMA TopFacts ==
  ASSUME NEW S, NEW s \in Seq(S), s # <<>>, NEW g \in S
  PROVE  /\ Len(s) \in Nat \ {0} /\ DOMAIN s = 1 .. Len(s) /\ Last(s) = s[Len(s)] /\ Last(s) \in S
         /\ Front(s) \in Seq(S) /\ Len(Front(s)) = Len(s) - 1
         /\ \A i \in 1 .. Len(s) - 1 : Front(s)[i] = s[i]
         /\ Append(Front(s), g) \in Seq(S) /\ Len(Append(Front(s), g)) = Len(s)
         /\ Append(Front(s), g)[Len(s)] = g
         /\ \A i \in 1 .. Len(s) - 1 : Append(Front(s), g)[i] = s[i]
<1>1. Len(s) \in Nat \ {0} /\ DOMAIN s = 1 .. Len(s) /\ Last(s) = s[Len(s)] /\ Last(s) \in S
  BY DEF Last
<1>2. \A i \in 1 .. Len(s) - 1 : s[i] \in S
  OBVIOUS
<1>3. /\ Front(s) \in Seq(S) /\ Len(Front(s)) = Len(s) - 1
      /\ \A i \in 1 .. Len(s) - 1 : Front(s)[i] = s[i]
  BY <1>1, <1>2, SubSeqProperties DEF Front
<1>. DEFINE front == Front(s)
<1>. HIDE DEF front
<1>4. /\ Append(front, g) \in Seq(S) /\ Len(Append(front, g)) = Len(front) + 1
      /\ Append(front, g)[Len(front) + 1] = g
      /\ \A i \in 1 .. Len(front) : Append(front, g)[i] = front[i]
  BY <1>3, Appended DEF front
<1>5. Len(front) = Len(s) - 1 /\ Len(front) + 1 = Len(s) /\ \A i \in 1 .. Len(s) - 1 : front[i] = s[i]
  BY <1>1, <1>3 DEF front
<1>6. /\ Append(front, g) \in Seq(S) /\ Len(Append(front, g)) = Len(s)
      /\ Append(front, g)[Len(s)] = g
      /\ \A i \in 1 .. Len(s) - 1 : Append(front, g)[i] = s[i]
  BY <1>4, <1>5
<1>. QED BY <1>1, <1>3, <1>6 DEF front

LEMMA BusyTop ==
  ASSUME SessionsTyped, BlocksOK, NEW t \in Threads, Busy(t)
  PROVE  /\ frames[t] \in Seq(FrameRecord) /\ Len(frames[t]) \in 1 .. 2
         /\ Top(t) = frames[t][Len(frames[t])] /\ Top(t) \in FrameRecord
         /\ FrameOK(Top(t), Len(frames[t]), Len(frames[t]))
<1>1. frames[t] \in Seq(FrameRecord) /\ frames[t] # <<>> /\ Len(frames[t]) <= 2
  BY DEF SessionsTyped, Busy, BlocksOK
<1>2. PICK g : g \in FrameRecord
  <2>1. Last(frames[t]) \in FrameRecord
    BY <1>1 DEF Last
  <2>. QED BY <2>1
<1>3. /\ Len(frames[t]) \in Nat \ {0} /\ Top(t) = frames[t][Len(frames[t])] /\ Top(t) \in FrameRecord
      /\ DOMAIN frames[t] = 1 .. Len(frames[t])
  BY <1>1, <1>2, TopFacts DEF Top
<1>4. Len(frames[t]) \in DOMAIN frames[t]
  BY <1>3
<1>5. FrameOK(frames[t][Len(frames[t])], Len(frames[t]), Len(frames[t]))
  BY <1>4 DEF BlocksOK
<1>6. Len(frames[t]) \in 1 .. 2
  <2>1. ASSUME NEW n \in Nat \ {0}, n <= 2 PROVE n \in 1 .. 2
    BY <2>1
  <2>. QED BY <1>1, <1>3, <2>1, Zenon
<1>. QED BY <1>1, <1>3, <1>5, <1>6

LEMMA TopMoves ==
  ASSUME SessionsTyped, BlocksOK, NEW t \in Threads, Busy(t), NEW g \in FrameRecord, frames' = WithTop(t, g)
  PROVE  Moves(t, g) /\ frames' \in [Threads -> Seq(FrameRecord)]
<1>1. frames[t] \in Seq(FrameRecord) /\ frames[t] # <<>> /\ frames \in [Threads -> Seq(FrameRecord)]
  BY DEF SessionsTyped, Busy
<1>2. frames' = [frames EXCEPT ![t] = Append(Front(frames[t]), g)]
  BY <1>1 DEF WithTop
<1>3. /\ Append(Front(frames[t]), g) \in Seq(FrameRecord) /\ Len(Append(Front(frames[t]), g)) = Len(frames[t])
      /\ Append(Front(frames[t]), g)[Len(frames[t])] = g /\ Len(frames[t]) \in Nat \ {0}
      /\ \A i \in 1 .. Len(frames[t]) - 1 : Append(Front(frames[t]), g)[i] = frames[t][i]
  BY <1>1, TopFacts
<1>. DEFINE new == Append(Front(frames[t]), g)
<1>. HIDE DEF new
<1>4. frames' = [frames EXCEPT ![t] = new] /\ new \in Seq(FrameRecord)
  BY <1>2, <1>3 DEF new
<1>5. frames' \in [Threads -> Seq(FrameRecord)] /\ frames'[t] = new /\ Same(t)
  BY <1>1, <1>4 DEF Same
<1>6. \A i \in 1 .. Len(frames[t]) : i # Len(frames[t]) => i \in 1 .. Len(frames[t]) - 1
  BY <1>3
<1>. QED BY <1>3, <1>5, <1>6 DEF Moves, new

LEMMA NewFrames ==
  /\ Frame("lock", "mutation") \in FrameRecord /\ Frame("checkout", "read") \in FrameRecord
  /\ Frame("lock", "mutation").at = "lock" /\ Frame("lock", "mutation").kind = "mutation"
  /\ Frame("checkout", "read").at = "checkout" /\ Frame("checkout", "read").kind = "read"
  /\ Frame("lock", "mutation").conn = NoConn /\ Frame("checkout", "read").conn = NoConn
BY DEF Frame, FrameRecord, FramePlaces

LEMMA TopNests ==
  ASSUME SessionsTyped, BlocksOK, NEW t \in Threads, Busy(t), NEW g \in FrameRecord,
         frames' = [frames EXCEPT ![t] = Append(Append(Front(frames[t]), g), Frame("checkout", "read"))]
  PROVE  frames' \in [Threads -> Seq(FrameRecord)] /\ Nests(t, g)
<1>1. frames[t] \in Seq(FrameRecord) /\ frames[t] # <<>> /\ frames \in [Threads -> Seq(FrameRecord)]
  BY DEF SessionsTyped, Busy
<1>2. /\ Append(Front(frames[t]), g) \in Seq(FrameRecord) /\ Len(Append(Front(frames[t]), g)) = Len(frames[t])
      /\ Append(Front(frames[t]), g)[Len(frames[t])] = g /\ Len(frames[t]) \in 1 .. Len(frames[t])
  <2>1. ASSUME NEW s \in Seq(FrameRecord), s # <<>>
        PROVE  /\ Append(Front(s), g) \in Seq(FrameRecord) /\ Len(Append(Front(s), g)) = Len(s)
               /\ Append(Front(s), g)[Len(s)] = g /\ Len(s) \in 1 .. Len(s)
    <3>1. /\ Append(Front(s), g) \in Seq(FrameRecord) /\ Len(Append(Front(s), g)) = Len(s)
          /\ Append(Front(s), g)[Len(s)] = g
      BY <2>1, TopFacts
    <3>2. Len(s) \in 1 .. Len(s)
      BY <2>1
    <3>. QED BY <3>1, <3>2
  <2>. QED BY <1>1, <2>1
<1>. DEFINE one == Append(Front(frames[t]), g)
<1>3. one \in Seq(FrameRecord) /\ Len(one) = Len(frames[t]) /\ one[Len(one)] = g /\ Len(one) \in 1 .. Len(one)
  BY <1>2
<1>. HIDE DEF one
<1>. DEFINE new == Append(one, Frame("checkout", "read"))
<1>4. new \in Seq(FrameRecord) /\ Len(new) = Len(one) + 1 /\ new[Len(one)] = g
      /\ new[Len(one) + 1] = Frame("checkout", "read")
  BY <1>3, NewFrames, Appended
<1>5. frames' = [frames EXCEPT ![t] = new]
  BY DEF one
<1>. HIDE DEF new
<1>6. frames' \in [Threads -> Seq(FrameRecord)] /\ frames'[t] = new /\ Same(t)
  BY <1>1, <1>4, <1>5 DEF Same
<1>. QED BY <1>3, <1>4, <1>6 DEF Nests

LEMMA TopPops ==
  ASSUME SessionsTyped, BlocksOK, NEW t \in Threads, Busy(t), NEW failing, Pops(t, failing)
  PROVE  /\ frames' \in [Threads -> Seq(FrameRecord)]
         /\ \/ Ends(t) /\ lock' = lock \ {t}
            \/ (\E place \in {"rollback", "write"} : Returns(t, place)) /\ lock' = lock
<1>1. /\ frames[t] \in Seq(FrameRecord) /\ frames[t] # <<>> /\ frames \in [Threads -> Seq(FrameRecord)]
      /\ Len(frames[t]) \in 1 .. 2
  BY BusyTop DEF SessionsTyped, Busy
<1>. DEFINE rest == Front(frames[t])
<1>2. PICK g : g \in FrameRecord
  BY BusyTop
<1>3. rest \in Seq(FrameRecord) /\ Len(rest) = Len(frames[t]) - 1
      /\ \A i \in 1 .. Len(frames[t]) - 1 : rest[i] = frames[t][i]
  BY <1>1, <1>2, TopFacts
<1>4. IF rest = <<>>
      THEN frames' = [frames EXCEPT ![t] = <<>>] /\ lock' = lock \ {t}
      ELSE /\ frames' = [frames EXCEPT ![t] = Append(Front(rest),
                            [Last(rest) EXCEPT !.at = IF failing THEN "rollback" ELSE "write"])]
           /\ lock' = lock
  BY DEF Pops
<1>. HIDE DEF rest
<1>5. CASE rest = <<>>
  <2>1. Len(frames[t]) = 1
    <3>1. Len(rest) = 0
      BY <1>5
    <3>. QED BY <1>1, <1>3, <3>1
  <2>2. frames' = [frames EXCEPT ![t] = <<>>] /\ lock' = lock \ {t} /\ <<>> \in Seq(FrameRecord)
    BY <1>4, <1>5
  <2>3. frames' \in [Threads -> Seq(FrameRecord)] /\ frames'[t] = <<>> /\ Same(t)
    BY <1>1, <2>2 DEF Same
  <2>. QED BY <2>1, <2>2, <2>3 DEF Ends
<1>6. CASE rest # <<>>
  <2>1. Len(rest) = 1 /\ Len(frames[t]) = 2 /\ Last(rest) = frames[t][1] /\ Last(rest) \in FrameRecord
    <3>1. Len(rest) \in Nat \ {0} /\ Last(rest) = rest[Len(rest)] /\ Last(rest) \in FrameRecord
      BY <1>2, <1>3, <1>6, TopFacts
    <3>. QED BY <1>1, <1>3, <3>1
  <2>2. PICK place \in {"rollback", "write"} : place = IF failing THEN "rollback" ELSE "write"
    OBVIOUS
  <2>. DEFINE last == [Last(rest) EXCEPT !.at = place]
              new == Append(Front(rest), last)
  <2>3. last \in FrameRecord /\ last = [frames[t][1] EXCEPT !.at = place]
    BY <2>1 DEF FrameRecord, FramePlaces
  <2>4. frames' = [frames EXCEPT ![t] = new] /\ lock' = lock
    BY <1>4, <1>6, <2>2
  <2>. HIDE DEF last
  <2>5. new \in Seq(FrameRecord) /\ Len(new) = 1 /\ new[1] = last
    BY <1>3, <1>6, <2>1, <2>3, TopFacts
  <2>. HIDE DEF new
  <2>6. frames' \in [Threads -> Seq(FrameRecord)] /\ frames'[t] = new /\ Same(t)
    BY <1>1, <2>4, <2>5 DEF Same
  <2>7. Returns(t, place)
    BY <2>1, <2>3, <2>5, <2>6 DEF Returns
  <2>. QED BY <2>4, <2>6, <2>7
<1>. QED BY <1>5, <1>6

-----------------------------------------------------------------------------
\* What a statement does to the wire.
LEMMA WireMoves ==
  ASSUME SessionsTyped, NEW c \in Conns,
         Breaks(c) \/ Refuses(c) \/ \E state \in {"none", "open", "failed"} : Answers(c, state)
  PROVE  /\ link' \in [Conns -> {"closed", "live", "stale"}] /\ tx' \in [Conns -> {"none", "open", "failed"}]
         /\ unread' = unread
         /\ \A d \in Conns : d # c => link'[d] = link[d] /\ tx'[d] = tx[d]
         /\ link'[c] \in {link[c], "closed"}
         /\ Breaks(c) => link'[c] = "closed"
         /\ Answers(c, "none") => tx'[c] = "none"
<1>0. /\ link \in [Conns -> {"closed", "live", "stale"}] /\ tx \in [Conns -> {"none", "open", "failed"}]
      /\ unread = [d \in Conns |-> 0]
  BY DEF SessionsTyped
<1>1. CASE Breaks(c)
  <2>1. /\ link' = [link EXCEPT ![c] = "closed"] /\ tx' = [tx EXCEPT ![c] = "none"]
        /\ unread' = [unread EXCEPT ![c] = 0]
    BY <1>1 DEF Breaks, Hangs
  <2>2. unread' = unread
    BY <1>0, <2>1
  <2>. QED BY <1>0, <2>1, <2>2
<1>2. CASE ~Breaks(c) /\ Refuses(c)
  <2>1. PICK state \in {"none", "open", "failed"} : tx' = [tx EXCEPT ![c] = state]
    <3>1. tx' = [tx EXCEPT ![c] = IF tx[c] = "none" THEN tx[c] ELSE "failed"]
      BY <1>2 DEF Refuses
    <3>2. CASE tx[c] = "none"
      BY <3>1, <3>2
    <3>3. CASE tx[c] # "none"
      BY <3>1, <3>3
    <3>. QED BY <3>2, <3>3
  <2>2. link' = link /\ unread' = unread
    BY <1>2 DEF Refuses, Consumed
  <2>3. ASSUME Answers(c, "none") PROVE tx'[c] = "none"
    BY <1>0, <2>3 DEF Answers
  <2>. QED BY <1>0, <1>2, <2>1, <2>2, <2>3
<1>3. CASE ~Breaks(c) /\ \E state \in {"none", "open", "failed"} : Answers(c, state)
  <2>. PICK state \in {"none", "open", "failed"} : Answers(c, state)
    BY <1>3
  <2>1. link' = link /\ unread' = unread /\ tx' = [tx EXCEPT ![c] = state]
    BY DEF Answers, Consumed
  <2>2. ASSUME Answers(c, "none") PROVE tx'[c] = "none"
    BY <1>0, <2>2 DEF Answers
  <2>. QED BY <1>0, <1>3, <2>1, <2>2
<1>. QED BY <1>1, <1>2, <1>3

\* What a block may become by one statement.
GoesOn(f, g) ==
    /\ f.at \in {"begin", "body", "write", "commit", "rollback"}
    /\ g.conn = f.conn /\ g.kind = f.kind
    /\ g.at \in {"body", "write", "commit", "rollback", "checkin", "nested"}
    /\ g.at \in {"nested", "write"} => f.kind = "mutation"
    /\ g.at = "checkin" => link'[f.conn] = "closed" \/ tx'[f.conn] = "none"

\* What it may do to the counter: read it, keep what it read, or commit.
Tallies(f, g) ==
    \/ /\ counter' = counter /\ commits' = commits
       /\ g.kind = "mutation" /\ g.at \in {"nested", "write", "commit"} =>
             g.saw = counter \/ (f.at = "write" /\ g.saw = f.saw)
    \/ /\ counter' = f.saw + 1 /\ commits' = commits + 1
       /\ f.at = "commit" /\ f.kind = "mutation" /\ g.at \in {"checkin", "rollback"}

LEMMA WireSteps ==
  ASSUME SessionInv, NEW t \in Threads, Begin(t) \/ Body(t) \/ Write(t) \/ Commit(t) \/ Rollback(t)
  PROVE  /\ Busy(t) /\ Top(t).conn \in Conns
         /\ permits' = permits /\ pool' = pool /\ lock' = lock
         /\ link' \in [Conns -> {"closed", "live", "stale"}] /\ tx' \in [Conns -> {"none", "open", "failed"}]
         /\ unread' = unread
         /\ \A d \in Conns : d # Top(t).conn => link'[d] = link[d] /\ tx'[d] = tx[d]
         /\ link'[Top(t).conn] \in {link[Top(t).conn], "closed"}
         /\ \E g \in FrameRecord :
               /\ GoesOn(Top(t), g) /\ Tallies(Top(t), g)
               /\ \/ g.at # "nested" /\ frames' = WithTop(t, g)
                  \/ /\ g.at = "nested"
                     /\ frames' = [frames EXCEPT ![t] =
                                      Append(Append(Front(frames[t]), g), Frame("checkout", "read"))]
<1>0. SessionsTyped /\ BlocksOK /\ counter \in Nat
  BY DEF SessionInv, SessionsTyped
<1>1. Busy(t) /\ Top(t).at \in {"begin", "body", "write", "commit", "rollback"}
  BY DEF Begin, Body, Write, Commit, Rollback, AtSession
<1>2. PICK f : f = Top(t)
  OBVIOUS
<1>3. f \in FrameRecord /\ f.conn \in Conns
  BY <1>0, <1>1, <1>2, BusyTop DEF FrameOK, FrameRecord
<1>. PICK c \in Conns : c = f.conn
  BY <1>3
<1>4. permits' = permits /\ pool' = pool /\ lock' = lock
  BY DEF Begin, Body, Write, Commit, Rollback
<1>5. \A g : WithTop(t, g) = [frames EXCEPT ![t] = Append(Front(frames[t]), g)]
  BY DEF WithTop
<1>. DEFINE Result == \E g \in FrameRecord :
               /\ GoesOn(f, g) /\ Tallies(f, g)
               /\ \/ g.at # "nested" /\ frames' = WithTop(t, g)
                  \/ /\ g.at = "nested"
                     /\ frames' = [frames EXCEPT ![t] =
                                      Append(Append(Front(frames[t]), g), Frame("checkout", "read"))]
            Wired == Breaks(c) \/ Refuses(c) \/ \E state \in {"none", "open", "failed"} : Answers(c, state)
            Wire == /\ link' \in [Conns -> {"closed", "live", "stale"}]
                    /\ tx' \in [Conns -> {"none", "open", "failed"}]
                    /\ unread' = unread
                    /\ \A d \in Conns : d # c => link'[d] = link[d] /\ tx'[d] = tx[d]
                    /\ link'[c] \in {link[c], "closed"}
<1>w. Wired => Wire
  BY <1>0, WireMoves
<1>u. UNCHANGED wire => Wire
  BY <1>0 DEF wire, SessionsTyped
<1>a. \A place \in FramePlaces : [f EXCEPT !.at = place] \in FrameRecord
  BY <1>3 DEF FrameRecord
<1>6. ASSUME Fails(t),
             \/ counter' = counter /\ commits' = commits
             \/ counter' = f.saw + 1 /\ commits' = commits + 1 /\ f.at = "commit" /\ f.kind = "mutation"
      PROVE  Result
  <2>. DEFINE g == [f EXCEPT !.at = "rollback", !.failed = TRUE]
  <2>1. g \in FrameRecord /\ g.at = "rollback" /\ g.conn = f.conn /\ g.kind = f.kind
    BY <1>3 DEF FrameRecord, FramePlaces
  <2>2. frames' = WithTop(t, g)
    BY <1>2, <1>6 DEF Fails
  <2>. HIDE DEF g
  <2>3. GoesOn(f, g) /\ Tallies(f, g)
    BY <1>1, <1>2, <1>6, <2>1 DEF GoesOn, Tallies
  <2>. QED BY <2>1, <2>2, <2>3
<1>7. ASSUME NEW place \in {"body", "commit", "checkin"}, SessionGoes(t, place), f.at # "body",
             place = "checkin" => link'[c] = "closed" \/ tx'[c] = "none",
             place = "commit" => f.at = "write",
             \/ counter' = counter /\ commits' = commits
             \/ /\ counter' = f.saw + 1 /\ commits' = commits + 1
                /\ f.at = "commit" /\ f.kind = "mutation" /\ place = "checkin"
      PROVE  Result
  <2>. DEFINE g == [f EXCEPT !.at = place]
  <2>1. g \in FrameRecord /\ g.at = place /\ g.conn = f.conn /\ g.kind = f.kind /\ g.saw = f.saw
    BY <1>3, <1>7 DEF FrameRecord, FramePlaces
  <2>2. frames' = WithTop(t, g)
    BY <1>2, <1>7 DEF SessionGoes
  <2>. HIDE DEF g
  <2>3. GoesOn(f, g) /\ Tallies(f, g)
    BY <1>1, <1>2, <1>7, <2>1 DEF GoesOn, Tallies
  <2>. QED BY <1>7, <2>1, <2>2, <2>3
<1>8. CASE Begin(t)
  <2>1. f.at = "begin" /\ counter' = counter /\ commits' = commits
    BY <1>2, <1>8 DEF Begin, AtSession
  <2>2. (Answers(c, "open") /\ SessionGoes(t, "body")) \/ ((Breaks(c) \/ Refuses(c)) /\ Fails(t))
    BY <1>2, <1>8 DEF Begin
  <2>3. Wire
    BY <1>w, <2>2
  <2>4. Result
    BY <1>6, <1>7, <2>1, <2>2
  <2>. HIDE DEF Result
  <2>. QED BY <1>1, <1>2, <1>4, <2>3, <2>4 DEF Result
<1>9. CASE Body(t)
  <2>1. f.at = "body" /\ counter' = counter /\ commits' = commits
    BY <1>2, <1>9 DEF Body, AtSession
  <2>. DEFINE seen == [f EXCEPT !.saw = counter]
  <2>2. PICK state : state = tx[c]
    OBVIOUS
  <2>3. state \in {"none", "open", "failed"}
    BY <1>0, <2>2 DEF SessionsTyped
  <2>4. \/ /\ Answers(c, state)
           /\ \/ f.kind # "mutation" /\ frames' = WithTop(t, [seen EXCEPT !.at = "commit"])
              \/ f.kind = "mutation" /\ frames' = WithTop(t, [seen EXCEPT !.at = "write"])
              \/ /\ f.kind = "mutation"
                 /\ frames' = [frames EXCEPT ![t] =
                        Append(Append(Front(frames[t]), [seen EXCEPT !.at = "nested"]), Frame("checkout", "read"))]
        \/ (Breaks(c) \/ Refuses(c)) /\ Fails(t)
    BY <1>2, <1>9, <2>2 DEF Body
  <2>5. Wire
    BY <1>w, <2>3, <2>4
  <2>6. ASSUME NEW place \in {"commit", "write", "nested"}
        PROVE  /\ [seen EXCEPT !.at = place] \in FrameRecord
               /\ [seen EXCEPT !.at = place].at = place /\ [seen EXCEPT !.at = place].conn = f.conn
               /\ [seen EXCEPT !.at = place].kind = f.kind /\ [seen EXCEPT !.at = place].saw = counter
    BY <1>0, <1>3 DEF FrameRecord, FramePlaces
  <2>. HIDE DEF seen
  <2>7. ASSUME NEW place \in {"commit", "write", "nested"}, place \in {"write", "nested"} => f.kind = "mutation"
        PROVE  GoesOn(f, [seen EXCEPT !.at = place]) /\ Tallies(f, [seen EXCEPT !.at = place])
    BY <2>1, <2>6, <2>7 DEF GoesOn, Tallies
  <2>8. ASSUME f.kind # "mutation", frames' = WithTop(t, [seen EXCEPT !.at = "commit"]) PROVE Result
    <3>. PICK g \in FrameRecord : g = [seen EXCEPT !.at = "commit"]
      BY <2>6
    <3>1. g.at = "commit" /\ GoesOn(f, g) /\ Tallies(f, g) /\ frames' = WithTop(t, g)
      BY <2>6, <2>7, <2>8
    <3>. QED BY <3>1
  <2>9. ASSUME f.kind = "mutation", frames' = WithTop(t, [seen EXCEPT !.at = "write"]) PROVE Result
    <3>. PICK g \in FrameRecord : g = [seen EXCEPT !.at = "write"]
      BY <2>6
    <3>1. g.at = "write" /\ GoesOn(f, g) /\ Tallies(f, g) /\ frames' = WithTop(t, g)
      BY <2>6, <2>7, <2>9
    <3>. QED BY <3>1
  <2>10. ASSUME f.kind = "mutation",
                frames' = [frames EXCEPT ![t] =
                     Append(Append(Front(frames[t]), [seen EXCEPT !.at = "nested"]), Frame("checkout", "read"))]
         PROVE  Result
    <3>. PICK g \in FrameRecord : g = [seen EXCEPT !.at = "nested"]
      BY <2>6
    <3>1. /\ g.at = "nested" /\ GoesOn(f, g) /\ Tallies(f, g)
          /\ frames' = [frames EXCEPT ![t] =
                           Append(Append(Front(frames[t]), g), Frame("checkout", "read"))]
      BY <2>6, <2>7, <2>10
    <3>. QED BY <3>1
  <2>11. ASSUME Fails(t) PROVE Result
    BY <1>6, <2>1, <2>11
  <2>12. Result
    <3>. HIDE DEF Result
    <3>. QED BY <2>4, <2>8, <2>9, <2>10, <2>11
  <2>. HIDE DEF Result
  <2>. QED BY <1>1, <1>2, <1>4, <2>5, <2>12 DEF Result
<1>10. CASE Write(t)
  <2>1. f.at = "write" /\ counter' = counter /\ commits' = commits
    BY <1>2, <1>10 DEF Write, AtSession
  <2>2. PICK state : state = tx[c]
    OBVIOUS
  <2>3. state \in {"none", "open", "failed"}
    BY <1>0, <2>2 DEF SessionsTyped
  <2>4. \/ Answers(c, state) /\ SessionGoes(t, "commit")
        \/ (Breaks(c) \/ Refuses(c)) /\ Fails(t)
        \/ Fails(t) /\ UNCHANGED wire
    BY <1>2, <1>10, <2>2 DEF Write
  <2>5. Wire
    BY <1>w, <1>u, <2>3, <2>4
  <2>6. Result
    BY <1>6, <1>7, <2>1, <2>4
  <2>. HIDE DEF Result
  <2>. QED BY <1>1, <1>2, <1>4, <2>5, <2>6 DEF Result
<1>11. CASE Commit(t)
  <2>1. f.at = "commit"
    BY <1>2, <1>11 DEF Commit, AtSession
  <2>2. Commits(t) =>
          \/ counter' = counter /\ commits' = commits
          \/ counter' = f.saw + 1 /\ commits' = commits + 1 /\ f.at = "commit" /\ f.kind = "mutation"
    BY <1>2, <2>1 DEF Commits
  <2>3. \/ Answers(c, "none") /\ SessionGoes(t, "checkin") /\ Commits(t)
        \/ Breaks(c) /\ Fails(t) /\ (Commits(t) \/ UNCHANGED <<counter, commits>>)
    BY <1>2, <1>11 DEF Commit
  <2>4. Wire
    BY <1>w, <2>3
  <2>5. Answers(c, "none") => tx'[c] = "none"
    BY <1>0, WireMoves
  <2>6. Result
    BY <1>6, <1>7, <2>1, <2>2, <2>3, <2>5
  <2>. HIDE DEF Result
  <2>. QED BY <1>1, <1>2, <1>4, <2>4, <2>6 DEF Result
<1>12. CASE Rollback(t)
  <2>1. f.at = "rollback" /\ counter' = counter /\ commits' = commits
    BY <1>2, <1>12 DEF Rollback, AtSession
  <2>2. (link[c] = "closed" /\ UNCHANGED wire) \/ Answers(c, "none") \/ Breaks(c)
    BY <1>2, <1>12 DEF Rollback
  <2>3. Wire
    BY <1>w, <1>u, <2>2
  <2>4. link'[c] = "closed" \/ tx'[c] = "none"
    BY <1>0, <2>2, WireMoves DEF wire
  <2>. DEFINE g == [f EXCEPT !.at = "checkin", !.failed = TRUE]
  <2>5. frames' = WithTop(t, g)
    BY <1>2, <1>12 DEF Rollback
  <2>6. g \in FrameRecord /\ g.at = "checkin" /\ g.conn = f.conn /\ g.kind = f.kind
    BY <1>3 DEF FrameRecord, FramePlaces
  <2>. HIDE DEF g
  <2>7. GoesOn(f, g) /\ Tallies(f, g)
    BY <2>1, <2>4, <2>6 DEF GoesOn, Tallies
  <2>8. Result
    BY <2>5, <2>6, <2>7
  <2>. HIDE DEF Result
  <2>. QED BY <1>1, <1>2, <1>4, <2>3, <2>8 DEF Result
<1>. QED BY <1>8, <1>9, <1>10, <1>11, <1>12

-----------------------------------------------------------------------------
\* What a change of one thread's blocks does to the blocks and to what they hold.
HoldsMove(t, n, k) ==
    \A u \in Threads, i \in 1 .. 2 : Holds(u, i)' = IF u = t /\ i = n THEN k ELSE Holds(u, i)
NewBlocks(t, G) ==
    \A u \in Threads : \A i \in DOMAIN frames'[u] :
        \/ /\ i \in DOMAIN frames[u] /\ frames'[u][i] = frames[u][i]
           /\ u = t => i # Len(frames[t])
        \/ u = t /\ frames'[u][i] \in G

LEMMA FramesTyped ==
  ASSUME frames \in [Threads -> Seq(FrameRecord)], NEW u \in Threads
  PROVE  /\ Len(frames[u]) \in Nat /\ DOMAIN frames[u] = 1 .. Len(frames[u])
         /\ \A i \in 1 .. Len(frames[u]) : frames[u][i] \in FrameRecord
OBVIOUS

LEMMA MovesShape ==
  ASSUME SessionsTyped, BlocksOK, NEW t \in Threads, Len(frames[t]) \in 1 .. 2, NEW g,
         Moves(t, g), frames' \in [Threads -> Seq(FrameRecord)],
         FrameOK(g, Len(frames[t]), Len(frames[t]))
  PROVE  BlocksOK' /\ HoldsMove(t, Len(frames[t]), g.conn) /\ NewBlocks(t, {g})
<1>. PICK n \in 1 .. 2 : n = Len(frames[t])
  OBVIOUS
<1>1. \A u \in Threads : Len(frames[u]) \in Nat /\ DOMAIN frames[u] = 1 .. Len(frames[u])
  BY FramesTyped DEF SessionsTyped
<1>2. \A u \in Threads : Len(frames'[u]) \in Nat /\ DOMAIN frames'[u] = 1 .. Len(frames'[u])
  OBVIOUS
<1>3. /\ \A u \in Threads : u # t => frames'[u] = frames[u]
      /\ Len(frames'[t]) = n /\ DOMAIN frames'[t] = 1 .. n /\ DOMAIN frames[t] = 1 .. n
      /\ \A i \in 1 .. n : frames'[t][i] = IF i = n THEN g ELSE frames[t][i]
  BY <1>1, <1>2 DEF Moves, Same
<1>4. BlocksOK'
  <2>1. ASSUME NEW u \in Threads, u # t
        PROVE  Len(frames'[u]) <= 2 /\ \A i \in DOMAIN frames'[u] : FrameOK(frames'[u][i], i, Len(frames'[u]))
    BY <1>3, <2>1 DEF BlocksOK
  <2>2. ASSUME NEW i \in 1 .. n PROVE FrameOK(frames'[t][i], i, n)
    <3>1. CASE i = n
      BY <1>3, <3>1
    <3>2. CASE i # n
      BY <1>3, <3>2 DEF BlocksOK
    <3>. QED BY <3>1, <3>2
  <2>. QED BY <1>3, <2>1, <2>2 DEF BlocksOK, FrameOK
<1>5. ASSUME NEW u \in Threads, NEW i \in 1 .. 2
      PROVE  Holds(u, i)' = IF u = t /\ i = n THEN g.conn ELSE Holds(u, i)
  <2>1. CASE u # t
    BY <1>3, <2>1 DEF Holds
  <2>2. CASE u = t /\ i <= n
    BY <1>3, <2>2 DEF Holds
  <2>3. CASE u = t /\ ~(i <= n)
    BY <1>3, <2>3 DEF Holds
  <2>. QED BY <2>1, <2>2, <2>3
<1>6. NewBlocks(t, {g})
  BY <1>3 DEF NewBlocks
<1>. QED BY <1>4, <1>5, <1>6 DEF HoldsMove

LEMMA NestsShape ==
  ASSUME SessionsTyped, BlocksOK, NEW t \in Threads, NEW n \in 1 .. 2, n = Len(frames[t]), n < 2, NEW g,
         Nests(t, g), frames' \in [Threads -> Seq(FrameRecord)],
         FrameOK(g, n, n + 1)
  PROVE  BlocksOK' /\ HoldsMove(t, n, g.conn) /\ NewBlocks(t, {g, Frame("checkout", "read")})
<1>1. \A u \in Threads : Len(frames[u]) \in Nat /\ DOMAIN frames[u] = 1 .. Len(frames[u])
  BY FramesTyped DEF SessionsTyped
<1>2. \A u \in Threads : Len(frames'[u]) \in Nat /\ DOMAIN frames'[u] = 1 .. Len(frames'[u])
  OBVIOUS
<1>. PICK h : h = Frame("checkout", "read")
  OBVIOUS
<1>. PICK m \in 1 .. 2 : m = n + 1
  OBVIOUS
<1>3. /\ \A u \in Threads : u # t => frames'[u] = frames[u]
      /\ Len(frames'[t]) = m /\ DOMAIN frames'[t] = 1 .. m /\ DOMAIN frames[t] = 1 .. n
      /\ frames'[t][n] = g /\ frames'[t][m] = h
  <2>. QED BY <1>1, <1>2 DEF Nests, Same
<1>4. h.at = "checkout" /\ h.kind = "read" /\ h.conn = NoConn
  BY NewFrames
<1>5. BlocksOK'
  <2>1. ASSUME NEW u \in Threads, u # t
        PROVE  Len(frames'[u]) <= 2 /\ \A i \in DOMAIN frames'[u] : FrameOK(frames'[u][i], i, Len(frames'[u]))
    BY <1>3, <2>1 DEF BlocksOK
  <2>2. ASSUME NEW i \in 1 .. m PROVE FrameOK(frames'[t][i], i, m)
    <3>1. CASE i = n
      BY <1>3, <3>1
    <3>2. CASE i = m
      <4>1. FrameOK(h, m, m)
        BY <1>4 DEF FrameOK
      <4>. QED BY <1>3, <3>2, <4>1
    <3>. QED BY <3>1, <3>2
  <2>3. Len(frames'[t]) <= 2 /\ \A i \in DOMAIN frames'[t] : FrameOK(frames'[t][i], i, Len(frames'[t]))
    BY <1>3, <2>2
  <2>. QED BY <1>3, <2>1, <2>3 DEF BlocksOK, FrameOK
<1>6. ASSUME NEW u \in Threads, NEW i \in 1 .. 2
      PROVE  Holds(u, i)' = IF u = t /\ i = n THEN g.conn ELSE Holds(u, i)
  <2>0. i = n \/ i = m
    <3>0. ASSUME NEW a \in 1 .. 2, NEW b \in 1 .. 2, a < 2, b = a + 1 PROVE a = 1 /\ b = 2
      BY <3>0
    <3>1. n = 1 /\ m = 2
      BY <3>0
    <3>. QED BY <3>1
  <2>1. CASE u # t
    BY <1>3, <2>1 DEF Holds
  <2>2. CASE u = t /\ i = n
    BY <1>3, <2>2 DEF Holds
  <2>3. CASE u = t /\ i = m
    BY <1>3, <1>4, <2>3 DEF Holds
  <2>. QED BY <2>0, <2>1, <2>2, <2>3
<1>7. NewBlocks(t, {g, h})
  <2>0. ASSUME NEW i \in 1 .. m PROVE i = n \/ i = m
    OBVIOUS
  <2>. QED BY <1>3, <2>0 DEF NewBlocks
<1>. QED BY <1>5, <1>6, <1>7 DEF HoldsMove

LEMMA OpensShape ==
  ASSUME SessionsTyped, BlocksOK, NEW t \in Threads, NEW g \in FrameRecord, Opens(t, g),
         frames' \in [Threads -> Seq(FrameRecord)],
         FrameOK(g, 1, 1), g.conn = NoConn
  PROVE  BlocksOK' /\ HoldsMove(t, 1, NoConn) /\ NewBlocks(t, {g})
<1>1. \A u \in Threads : Len(frames[u]) \in Nat /\ DOMAIN frames[u] = 1 .. Len(frames[u])
  BY FramesTyped DEF SessionsTyped
<1>2. \A u \in Threads : Len(frames'[u]) \in Nat /\ DOMAIN frames'[u] = 1 .. Len(frames'[u])
  OBVIOUS
<1>. PICK m \in 1 .. 2 : m < 2
  OBVIOUS
<1>3. /\ \A u \in Threads : u # t => frames'[u] = frames[u]
      /\ Len(frames'[t]) = m /\ DOMAIN frames'[t] = 1 .. m /\ frames'[t][m] = g /\ Len(frames[t]) = 0
      /\ m <= Len(frames'[t])
  BY DEF Opens, Same
<1>a. \A i \in 1 .. 2 : ~(i <= 0) /\ (i # m => ~(i <= m))
  OBVIOUS
<1>b. \A i \in 1 .. m : i = m
  OBVIOUS
<1>c. FrameOK(g, m, m)
  OBVIOUS
<1>4. BlocksOK'
  <2>1. ASSUME NEW u \in Threads, u # t
        PROVE  Len(frames'[u]) <= 2 /\ \A i \in DOMAIN frames'[u] : FrameOK(frames'[u][i], i, Len(frames'[u]))
    BY <1>3, <2>1 DEF BlocksOK
  <2>2. m <= 2
    OBVIOUS
  <2>3. Len(frames'[t]) <= 2 /\ \A i \in DOMAIN frames'[t] : FrameOK(frames'[t][i], i, Len(frames'[t]))
    BY <1>3, <1>b, <1>c, <2>2
  <2>. QED BY <2>1, <2>3 DEF BlocksOK, FrameOK
<1>5. ASSUME NEW u \in Threads, NEW i \in 1 .. 2
      PROVE  Holds(u, i)' = IF u = t /\ i = m THEN NoConn ELSE Holds(u, i)
  <2>1. CASE u # t
    BY <1>3, <2>1 DEF Holds
  <2>2. CASE u = t /\ i = m
    <3>. QED BY <1>3, <2>2 DEF Holds
  <2>3. CASE u = t /\ i # m
    <3>1. Holds(t, i)' = NoConn
      <4>. QED BY <1>3, <1>a, <2>3 DEF Holds
    <3>2. Holds(t, i) = NoConn
      BY <1>3, <1>a DEF Holds
    <3>. QED BY <2>3, <3>1, <3>2
  <2>. QED BY <2>1, <2>2, <2>3
<1>6. NewBlocks(t, {g})
  BY <1>3 DEF NewBlocks
<1>. QED BY <1>4, <1>5, <1>6 DEF HoldsMove

LEMMA EndsShape ==
  ASSUME SessionsTyped, BlocksOK, NEW t \in Threads, Ends(t), frames' \in [Threads -> Seq(FrameRecord)]
  PROVE  BlocksOK' /\ HoldsMove(t, 1, NoConn) /\ NewBlocks(t, {})
<1>1. \A u \in Threads : Len(frames[u]) \in Nat /\ DOMAIN frames[u] = 1 .. Len(frames[u])
  BY FramesTyped DEF SessionsTyped
<1>2. \A u \in Threads : Len(frames'[u]) \in Nat /\ DOMAIN frames'[u] = 1 .. Len(frames'[u])
  OBVIOUS
<1>3. /\ \A u \in Threads : u # t => frames'[u] = frames[u]
      /\ Len(frames'[t]) = 0 /\ DOMAIN frames'[t] = {} /\ Len(frames[t]) = 1
  <2>1. ASSUME NEW n, n = 0 PROVE 1 .. n = {}
    BY <2>1
  <2>. QED BY <1>2, <2>1, Zenon DEF Ends, Same
<1>4. BlocksOK'
  BY <1>3 DEF BlocksOK, FrameOK
<1>5. ASSUME NEW u \in Threads, NEW i \in 1 .. 2
      PROVE  Holds(u, i)' = IF u = t /\ i = 1 THEN NoConn ELSE Holds(u, i)
  <2>1. CASE u # t
    BY <1>3, <2>1 DEF Holds
  <2>2. CASE u = t
    BY <1>3, <2>2 DEF Holds
  <2>. QED BY <2>1, <2>2
<1>6. NewBlocks(t, {})
  BY <1>3 DEF NewBlocks
<1>. QED BY <1>4, <1>5, <1>6 DEF HoldsMove

LEMMA ReturnsShape ==
  ASSUME SessionsTyped, BlocksOK, NEW t \in Threads, NEW place \in {"rollback", "write"}, Returns(t, place),
         frames' \in [Threads -> Seq(FrameRecord)]
  PROVE  /\ BlocksOK' /\ HoldsMove(t, 2, NoConn) /\ NewBlocks(t, {[frames[t][1] EXCEPT !.at = place]})
         /\ frames[t][1] \in FrameRecord /\ frames[t][1].at = "nested" /\ frames[t][1].kind = "mutation"
<1>1. \A u \in Threads : Len(frames[u]) \in Nat /\ DOMAIN frames[u] = 1 .. Len(frames[u])
  BY FramesTyped DEF SessionsTyped
<1>2. \A u \in Threads : Len(frames'[u]) \in Nat /\ DOMAIN frames'[u] = 1 .. Len(frames'[u])
  OBVIOUS
<1>. PICK m \in 1 .. 2 : m < 2
  OBVIOUS
<1>. PICK n \in 1 .. 2 : n > 1
  OBVIOUS
<1>. PICK f : f = frames[t][m]
  OBVIOUS
<1>. PICK g : g = [f EXCEPT !.at = place]
  OBVIOUS
<1>m. m = 1 /\ n = 2
  OBVIOUS
<1>0. /\ \A u \in Threads : u # t => frames'[u] = frames[u]
      /\ Len(frames'[t]) = m /\ frames'[t][m] = g /\ Len(frames[t]) = n
  BY <1>m, Zenon DEF Returns, Same
<1>a. m < n /\ m # n /\ m <= m /\ ~(n <= m) /\ \A i \in 1 .. 2 : i = m \/ i = n
  OBVIOUS
<1>b. \A i \in 1 .. m : i = m
  OBVIOUS
<1>3. /\ \A u \in Threads : u # t => frames'[u] = frames[u]
      /\ Len(frames'[t]) = m /\ DOMAIN frames'[t] = 1 .. m /\ frames'[t][m] = g
      /\ Len(frames[t]) = n /\ DOMAIN frames[t] = 1 .. n
  BY <1>0, <1>1, <1>2
<1>4. f \in FrameRecord /\ FrameOK(f, m, n)
  <2>1. m \in 1 .. n
    BY <1>a
  <2>2. f \in FrameRecord
    <3>1. \A i \in 1 .. Len(frames[t]) : frames[t][i] \in FrameRecord
      BY FramesTyped DEF SessionsTyped
    <3>. QED BY <1>3, <2>1, <3>1
  <2>3. FrameOK(f, m, n)
    <3>1. \A i \in DOMAIN frames[t] : FrameOK(frames[t][i], i, Len(frames[t]))
      BY DEF BlocksOK
    <3>. QED BY <1>3, <2>1, <3>1
  <2>. QED BY <2>2, <2>3
<1>5. f.at = "nested" /\ f.kind = "mutation" /\ f.conn # NoConn
  BY <1>4, <1>a DEF FrameOK
<1>6. g.at = place /\ g.kind = f.kind /\ g.conn = f.conn
  BY <1>4 DEF FrameRecord
<1>7. BlocksOK'
  <2>1. ASSUME NEW u \in Threads, u # t
        PROVE  Len(frames'[u]) <= 2 /\ \A i \in DOMAIN frames'[u] : FrameOK(frames'[u][i], i, Len(frames'[u]))
    BY <1>3, <2>1 DEF BlocksOK
  <2>2. FrameOK(g, m, m)
    <3>1. g.at \notin {"lock", "checkout", "nested"}
      BY <1>6
    <3>2. m # 2
      OBVIOUS
    <3>. QED BY <1>5, <1>6, <3>1, <3>2 DEF FrameOK
  <2>3. Len(frames'[t]) <= 2 /\ \A i \in DOMAIN frames'[t] : FrameOK(frames'[t][i], i, Len(frames'[t]))
    BY <1>3, <1>b, <2>2
  <2>. QED BY <2>1, <2>3 DEF BlocksOK, FrameOK
<1>8. ASSUME NEW u \in Threads, NEW i \in 1 .. 2
      PROVE  Holds(u, i)' = IF u = t /\ i = n THEN NoConn ELSE Holds(u, i)
  <2>1. CASE u # t
    BY <1>3, <2>1 DEF Holds
  <2>2. CASE u = t /\ i = m
    <3>1. Holds(t, m)' = g.conn
      BY <1>3, <1>a DEF Holds
    <3>2. Holds(t, m) = f.conn
      <4>1. m <= n
        BY <1>a
      <4>. QED BY <1>3, <4>1 DEF Holds
    <3>. QED BY <1>6, <1>a, <2>2, <3>1, <3>2
  <2>3. CASE u = t /\ i = n
    BY <1>3, <1>a, <2>3 DEF Holds
  <2>. QED BY <1>a, <2>1, <2>2, <2>3
<1>9. NewBlocks(t, {g})
  BY <1>3, <1>b DEF NewBlocks
<1>10. HoldsMove(t, n, NoConn)
  BY <1>8 DEF HoldsMove
<1>. QED BY <1>4, <1>5, <1>7, <1>9, <1>10, <1>m, Zenon

-----------------------------------------------------------------------------
\* Mutations stay alone.
LEMMA MutationsKeep ==
  ASSUME MutationsOK, NEW t \in Threads, NEW G, NewBlocks(t, G),
         \A g \in G : g.kind = "mutation" /\ g.at # "lock" =>
             /\ lock' = {t}
             /\ g.at \in {"nested", "write", "commit"} => g.saw = counter',
         \A u \in Threads : u # t /\ lock = {u} => lock' = {u} /\ counter' = counter,
         (\E i \in DOMAIN frames[t] : i # Len(frames[t]) /\ frames[t][i].kind = "mutation")
             => lock' = lock /\ counter' = counter,
         \A i \in DOMAIN frames[t] : i # Len(frames[t]) => frames[t][i].kind = "mutation"
  PROVE  MutationsOK'
<1>. SUFFICES ASSUME NEW u \in Threads, NEW i \in DOMAIN frames'[u], NEW f, f = frames'[u][i],
                     f.kind = "mutation", f.at # "lock"
              PROVE  lock' = {u} /\ (f.at \in {"nested", "write", "commit"} => f.saw = counter')
  BY DEF MutationsOK
<1>1. CASE u = t /\ f \in G
  BY <1>1
<1>2. CASE i \in DOMAIN frames[u] /\ f = frames[u][i] /\ (u = t => i # Len(frames[t]))
  <2>1. lock = {u} /\ (f.at \in {"nested", "write", "commit"} => f.saw = counter)
    BY <1>2 DEF MutationsOK
  <2>2. lock' = lock /\ counter' = counter
    BY <1>2, <2>1
  <2>. QED BY <2>1, <2>2
<1>. QED BY <1>1, <1>2 DEF NewBlocks

\* The connections when nobody takes or drops one.
LEMMA ConnsStay ==
  ASSUME HoldersApart, PoolOK, NoneLoose, pool \in Seq(Conns), pool' = pool,
         \A u \in Threads, i \in 1 .. 2 : Holds(u, i)' = Holds(u, i),
         \A d \in Conns :
             \/ HeldNow(d) /\ (link[d] = "closed" => link'[d] = "closed")
             \/ (link'[d] = "closed" <=> link[d] = "closed") /\ (tx[d] = "none" => tx'[d] = "none")
  PROVE  HoldersApart' /\ PoolOK' /\ NoneLoose' /\ Slots' = Slots
<1>1. \A c : HeldNow(c)' <=> HeldNow(c)
  BY DEF HeldNow
<1>2. HoldersApart'
  BY DEF HoldersApart
<1>3. PoolOK'
  BY <1>1 DEF PoolOK
<1>4. NoneLoose'
  BY <1>1 DEF NoneLoose
<1>5. Slots' = Slots
  BY DEF Slots
<1>. QED BY <1>2, <1>3, <1>4, <1>5

\* ... when one is taken
LEMMA ConnsTaken ==
  ASSUME HoldersApart, PoolOK, NoneLoose, pool \in Seq(Conns), pool' \in Seq(Conns),
         NEW t \in Threads, NEW n \in 1 .. 2, Holds(t, n) = NoConn,
         NEW c \in Conns, HoldsMove(t, n, c), ~HeldNow(c),
         \A i \in DOMAIN pool' : i \in DOMAIN pool /\ pool'[i] = pool[i] /\ pool[i] # c,
         \A i \in DOMAIN pool : i \in DOMAIN pool' \/ pool[i] = c,
         \A d \in Conns : d # c => link'[d] = link[d] /\ tx'[d] = tx[d]
  PROVE  HoldersApart' /\ PoolOK' /\ NoneLoose' /\ Slots' = Slots \cup {<<t, n>>} /\ <<t, n>> \notin Slots
<1>0. c # NoConn
  BY SessionsAssumption DEF Conns, NoConn
<1>1. \A u \in Threads, i \in 1 .. 2 : Holds(u, i)' = IF u = t /\ i = n THEN c ELSE Holds(u, i)
  BY DEF HoldsMove
<1>2. \A d : d # NoConn => (HeldNow(d)' <=> HeldNow(d) \/ d = c)
  BY <1>1 DEF HeldNow
<1>3. HoldersApart'
  <2>. SUFFICES ASSUME NEW u \in Threads, NEW v \in Threads, NEW i \in 1 .. 2, NEW j \in 1 .. 2,
                       Holds(u, i)' # NoConn, Holds(u, i)' = Holds(v, j)'
                PROVE  u = v /\ i = j
    BY DEF HoldersApart
  <2>1. \A w \in Threads, k \in 1 .. 2 : Holds(w, k) # c
    BY DEF HeldNow
  <2>. QED BY <1>1, <2>1 DEF HoldersApart
<1>4. PoolOK'
  <2>1. \A i \in DOMAIN pool : pool[i] \in Conns /\ pool[i] # NoConn
    BY SessionsAssumption DEF Conns, NoConn
  <2>2. ASSUME NEW i \in DOMAIN pool'
        PROVE  link'[pool'[i]] # "closed" /\ tx'[pool'[i]] = "none" /\ ~HeldNow(pool[i])'
    <3>. PICK d : d = pool'[i]
      OBVIOUS
    <3>1. d \in Conns /\ d # c /\ d # NoConn /\ i \in DOMAIN pool /\ d = pool[i]
      BY <2>1
    <3>2. link[d] # "closed" /\ tx[d] = "none" /\ ~HeldNow(d)
      BY <3>1 DEF PoolOK
    <3>3. ~HeldNow(d)'
      BY <1>2, <3>1, <3>2
    <3>. QED BY <3>1, <3>2, <3>3 DEF HeldNow
  <2>3. \A i, j \in DOMAIN pool' : pool'[i] = pool'[j] => i = j
    BY DEF PoolOK
  <2>. QED BY <2>2, <2>3 DEF PoolOK
<1>5. NoneLoose'
  <2>. SUFFICES ASSUME NEW d \in Conns, link'[d] # "closed"
                PROVE  HeldNow(d)' \/ \E i \in DOMAIN pool' : pool'[i] = d
    BY DEF NoneLoose
  <2>1. d # NoConn
    BY SessionsAssumption DEF Conns, NoConn
  <2>2. d # c => HeldNow(d) \/ \E i \in DOMAIN pool : pool[i] = d
    BY DEF NoneLoose
  <2>. QED BY <1>2, <2>1, <2>2
<1>6. Slots' = Slots \cup {<<t, n>>} /\ <<t, n>> \notin Slots
  BY <1>0, <1>1 DEF Slots
<1>. QED BY <1>3, <1>4, <1>5, <1>6

\* ... and when one is dropped, into the pool or closed.
LEMMA ConnsDropped ==
  ASSUME HoldersApart, PoolOK, NoneLoose, pool \in Seq(Conns), pool' \in Seq(Conns),
         NEW t \in Threads, NEW n \in 1 .. 2,
         NEW c \in Conns, Holds(t, n) = c, HoldsMove(t, n, NoConn),
         \/ pool' = pool /\ link'[c] = "closed"
         \/ pool' = Append(pool, c) /\ link'[c] # "closed" /\ tx'[c] = "none",
         \A d \in Conns : d # c => link'[d] = link[d] /\ tx'[d] = tx[d]
  PROVE  HoldersApart' /\ PoolOK' /\ NoneLoose' /\ Slots' = Slots \ {<<t, n>>} /\ <<t, n>> \in Slots
<1>0. c # NoConn
  BY SessionsAssumption DEF Conns, NoConn
<1>1. \A u \in Threads, i \in 1 .. 2 : Holds(u, i)' = IF u = t /\ i = n THEN NoConn ELSE Holds(u, i)
  BY DEF HoldsMove
<1>2. \A d : d # NoConn => (HeldNow(d)' <=> HeldNow(d) /\ d # c)
  BY <1>0, <1>1 DEF HeldNow, HoldersApart
<1>3. HoldersApart'
  BY <1>1 DEF HoldersApart
<1>4. /\ \A i \in DOMAIN pool : pool[i] \in Conns /\ pool[i] # c
      /\ \A i \in DOMAIN pool' : \/ i \in DOMAIN pool /\ pool'[i] = pool[i]
                                 \/ pool' # pool /\ i = Len(pool) + 1 /\ pool'[i] = c
      /\ \A i \in DOMAIN pool : i \in DOMAIN pool' /\ pool'[i] = pool[i]
      /\ pool' = pool \/ \E i \in DOMAIN pool' : pool'[i] = c
  <2>1. \A i \in DOMAIN pool : pool[i] \in Conns /\ pool[i] # c
    BY DEF PoolOK, HeldNow
  <2>2. CASE pool' = pool
    BY <2>1, <2>2
  <2>3. CASE pool' # pool /\ pool' = Append(pool, c)
    <3>1. /\ DOMAIN pool = 1 .. Len(pool) /\ DOMAIN pool' = 1 .. Len(pool) + 1 /\ Len(pool) \in Nat
          /\ \A i \in 1 .. Len(pool) : pool'[i] = pool[i]
          /\ pool'[Len(pool) + 1] = c
      BY <2>3, Appended
    <3>2. Len(pool) + 1 \in DOMAIN pool'
      BY <3>1
    <3>3. Len(pool) \in Nat /\ \A i \in 1 .. Len(pool) + 1 : i \in 1 .. Len(pool) \/ i = Len(pool) + 1
      BY <3>1
    <3>4. ASSUME NEW i \in DOMAIN pool'
          PROVE  \/ i \in DOMAIN pool /\ pool'[i] = pool[i]
                 \/ pool' # pool /\ i = Len(pool) + 1 /\ pool'[i] = c
      <4>1. CASE i \in 1 .. Len(pool)
        BY <3>1, <4>1
      <4>2. CASE i = Len(pool) + 1
        BY <2>3, <3>1, <4>2
      <4>. QED BY <3>1, <3>3, <4>1, <4>2
    <3>5. \A i \in DOMAIN pool : i \in DOMAIN pool' /\ pool'[i] = pool[i]
      BY <3>1
    <3>6. \E i \in DOMAIN pool' : pool'[i] = c
      BY <3>1, <3>2
    <3>. QED BY <2>1, <3>4, <3>5, <3>6
  <2>. QED BY <2>1, <2>2, <2>3
<1>5. PoolOK'
  <2>1. \A d \in Conns : d # NoConn
    BY SessionsAssumption DEF Conns, NoConn
  <2>2. ASSUME NEW i \in DOMAIN pool'
        PROVE  link'[pool'[i]] # "closed" /\ tx'[pool'[i]] = "none" /\ ~HeldNow(pool[i])'
    <3>. PICK d : d = pool'[i]
      OBVIOUS
    <3>1. link'[d] # "closed" /\ tx'[d] = "none" /\ d # NoConn /\ (d = c \/ ~HeldNow(d))
      BY <1>4, <2>1 DEF PoolOK
    <3>2. ~HeldNow(d)'
      BY <1>2, <3>1
    <3>. QED BY <3>1, <3>2 DEF HeldNow
  <2>3. \A i, j \in DOMAIN pool' : pool'[i] = pool'[j] => i = j
    BY <1>4 DEF PoolOK
  <2>. QED BY <2>2, <2>3 DEF PoolOK
<1>6. NoneLoose'
  <2>. SUFFICES ASSUME NEW d \in Conns, link'[d] # "closed"
                PROVE  HeldNow(d)' \/ \E i \in DOMAIN pool' : pool'[i] = d
    BY DEF NoneLoose
  <2>1. d # NoConn
    BY SessionsAssumption DEF Conns, NoConn
  <2>2. CASE d = c
    BY <1>4, <2>2
  <2>3. CASE d # c
    <3>1. HeldNow(d) \/ \E i \in DOMAIN pool : pool[i] = d
      BY <2>3 DEF NoneLoose
    <3>. QED BY <1>2, <1>4, <2>1, <2>3, <3>1
  <2>. QED BY <2>2, <2>3
<1>7. Slots' = Slots \ {<<t, n>>} /\ <<t, n>> \in Slots
  BY <1>0, <1>1 DEF Slots
<1>. QED BY <1>3, <1>5, <1>6, <1>7

\* The connection is at most the top block's; nothing happens to the others.
OnlyTop(t, c) ==
    \A u \in Threads, i \in 1 .. 2 : Holds(u, i) = c /\ c # NoConn => u = t /\ i = Len(frames[t])
OthersRest(c) ==
    \A d \in Conns : d # c =>
        (link[d] = "closed" => link'[d] = "closed") /\ (tx[d] = "none" => tx'[d] = "none")

\* What was fit to be checked in stays fit: only its holder works on a connection.
LEMMA CheckedKeep ==
  ASSUME SessionsTyped, BlocksOK, CheckedIn, NEW t \in Threads, NEW G, NewBlocks(t, G), NEW c,
         \A g \in G : g.at = "checkin" => link'[g.conn] = "closed" \/ tx'[g.conn] = "none",
         OthersRest(c), OnlyTop(t, c)
  PROVE  CheckedIn'
<1>. SUFFICES ASSUME NEW u \in Threads, NEW i \in DOMAIN frames'[u], NEW f, f = frames'[u][i],
                     f.at = "checkin"
              PROVE  link'[f.conn] = "closed" \/ tx'[f.conn] = "none"
  BY DEF CheckedIn
<1>1. CASE u = t /\ f \in G
  BY <1>1
<1>2. CASE i \in DOMAIN frames[u] /\ f = frames[u][i] /\ (u = t => i # Len(frames[t]))
  <2>1. link[f.conn] = "closed" \/ tx[f.conn] = "none"
    BY <1>2 DEF CheckedIn
  <2>2. FrameOK(f, i, Len(frames[u])) /\ f \in FrameRecord /\ i \in 1 .. Len(frames[u]) /\ Len(frames[u]) <= 2
    <3>1. Len(frames[u]) \in Nat /\ DOMAIN frames[u] = 1 .. Len(frames[u])
          /\ \A k \in 1 .. Len(frames[u]) : frames[u][k] \in FrameRecord
      BY FramesTyped DEF SessionsTyped
    <3>. QED BY <1>2, <3>1 DEF BlocksOK
  <2>3. f.conn \in Conns /\ f.conn # NoConn
    BY <2>2 DEF FrameOK, FrameRecord
  <2>4. i \in 1 .. 2 /\ Holds(u, i) = f.conn
    <3>1. Len(frames[u]) \in Nat
      BY FramesTyped DEF SessionsTyped
    <3>. QED BY <1>2, <2>2, <3>1 DEF Holds
  <2>5. f.conn # c
    BY <1>2, <2>3, <2>4 DEF OnlyTop
  <2>. QED BY <2>1, <2>3, <2>5 DEF OthersRest
<1>. QED BY <1>1, <1>2 DEF NewBlocks

-----------------------------------------------------------------------------
\* The top block among the blocks.
LEMMA TopIs ==
  ASSUME SessionInv, NEW t \in Threads, Busy(t), NEW n, n = Len(frames[t])
  PROVE  /\ n \in 1 .. 2 /\ DOMAIN frames[t] = 1 .. n
         /\ Top(t) \in FrameRecord /\ FrameOK(Top(t), n, n) /\ Top(t) = frames[t][n]
         /\ Holds(t, n) = Top(t).conn
         /\ \A i \in DOMAIN frames[t] : i # n => frames[t][i].kind = "mutation" /\ frames[t][i].at = "nested"
         /\ \A u \in Threads, i \in 1 .. 2 : Holds(u, i) = Top(t).conn /\ Top(t).conn # NoConn => u = t /\ i = n
<1>1. SessionsTyped /\ BlocksOK /\ HoldersApart
  BY DEF SessionInv, ConnsOK
<1>2. n \in 1 .. 2 /\ DOMAIN frames[t] = 1 .. n /\ Top(t) \in FrameRecord /\ FrameOK(Top(t), n, n) /\ Top(t) = frames[t][n]
  BY <1>1, BusyTop, FramesTyped DEF SessionsTyped
<1>3. Holds(t, n) = Top(t).conn
  BY <1>2 DEF Holds
<1>4. ASSUME NEW i \in DOMAIN frames[t], i # n
      PROVE  frames[t][i].kind = "mutation" /\ frames[t][i].at = "nested"
  <2>1. FrameOK(frames[t][i], i, n) /\ i < n
    BY <1>1, <1>2, <1>4 DEF BlocksOK
  <2>. QED BY <2>1 DEF FrameOK
<1>5. \A u \in Threads, i \in 1 .. 2 : Holds(u, i) = Top(t).conn /\ Top(t).conn # NoConn => u = t /\ i = n
  BY <1>1, <1>2, <1>3 DEF HoldersApart
<1>. QED BY <1>2, <1>3, <1>4, <1>5

LEMMA SlotsFinite == IsFiniteSet(Slots) /\ Cardinality(Slots) \in Nat
<1>1. IsFiniteSet(1 .. 2) /\ IsFiniteSet(Threads)
  <2>1. 1 \in Int /\ 2 \in Int
    OBVIOUS
  <2>. QED BY <2>1, FS_Interval, SessionsAssumption, Zenon
<1>2. IsFiniteSet(Threads \X (1 .. 2))
  BY <1>1, FS_Product
<1>3. Slots \subseteq Threads \X (1 .. 2)
  BY DEF Slots
<1>. QED BY <1>2, <1>3, FS_Subset, FS_CardinalityType

\* With a permit left and nothing pooled, there is a connection to open.
LEMMA OneUnopened ==
  ASSUME SessionInv, permits > 0, pool = <<>>
  PROVE  \E c \in Conns : c \in Unopened
<1>. DEFINE holding == [s \in Slots |-> Holds(s[1], s[2])]
            H == {Holds(s[1], s[2]) : s \in Slots}
<1>0. SessionsTyped /\ BlocksOK /\ NoneLoose /\ SlotsOK
  BY DEF SessionInv, ConnsOK
<1>1. holding \in Surjection(Slots, H)
  <2>1. holding \in [Slots -> H]
    OBVIOUS
  <2>2. \A h \in H : \E s \in Slots : holding[s] = h
    OBVIOUS
  <2>. QED BY <2>1, <2>2 DEF Surjection
<1>2. IsFiniteSet(H) /\ Cardinality(H) <= Cardinality(Slots) /\ Cardinality(H) \in Nat
  <2>. HIDE DEF H, holding
  <2>. QED BY <1>1, SlotsFinite, FS_Surjection, FS_CardinalityType
<1>3. Cardinality(Slots) < MAX_ACTIVE_CONNECTIONS
  BY <1>0, SlotsFinite, SessionsAssumption DEF SlotsOK, SessionsTyped
<1>4. Cardinality(Conns) = MAX_ACTIVE_CONNECTIONS + POOL_LIMIT
  <2>. DEFINE m == MAX_ACTIVE_CONNECTIONS + POOL_LIMIT
  <2>1. m \in Nat \ {0} /\ 1 \in Int /\ m \in Int
    BY SessionsAssumption
  <2>2. Cardinality(1 .. m) = IF 1 > m THEN 0 ELSE m - 1 + 1
    <3>. HIDE DEF m
    <3>. QED BY <2>1, FS_Interval, Zenon
  <2>. QED BY <2>1, <2>2 DEF Conns
<1>5. ~(Conns \subseteq H)
  <2>1. SUFFICES ASSUME Conns \subseteq H PROVE FALSE
    OBVIOUS
  <2>2. Cardinality(Conns) <= Cardinality(H)
    <3>. HIDE DEF H
    <3>. QED BY <1>2, <2>1, FS_Subset
  <2>. HIDE DEF H
  <2>. QED BY <1>2, <1>3, <1>4, <2>2, SlotsFinite, SessionsAssumption
<1>6. PICK c \in Conns : c \notin H
  BY <1>5
<1>7. c # NoConn
  BY SessionsAssumption DEF Conns, NoConn
<1>8. ~HeldNow(c)
  <2>. SUFFICES ASSUME NEW u \in Threads, NEW i \in 1 .. 2, Holds(u, i) = c PROVE FALSE
    BY DEF HeldNow
  <2>1. <<u, i>> \in Slots
    BY <1>7 DEF Slots
  <2>2. c \in H
    BY <2>1
  <2>. QED BY <1>6, <2>2
<1>9. link[c] = "closed"
  BY <1>0, <1>8 DEF NoneLoose
<1>10. ASSUME NEW u \in Threads, NEW i \in DOMAIN frames[u] PROVE frames[u][i].conn # c
  <2>1. Len(frames[u]) \in Nat /\ DOMAIN frames[u] = 1 .. Len(frames[u]) /\ Len(frames[u]) <= 2
    BY <1>0, FramesTyped DEF SessionsTyped, BlocksOK
  <2>2. i \in 1 .. 2 /\ Holds(u, i) = frames[u][i].conn
    BY <2>1 DEF Holds
  <2>. QED BY <1>8, <2>2 DEF HeldNow
<1>. QED BY <1>9, <1>10 DEF Unopened

LEMMA UnopenedIsFree ==
  ASSUME SessionInv, NEW c \in Unopened
  PROVE  c \in Conns /\ ~HeldNow(c) /\ c # NoConn
<1>1. c \in Conns /\ \A u \in Threads : \A i \in DOMAIN frames[u] : frames[u][i].conn # c
  BY DEF Unopened
<1>2. c # NoConn
  BY <1>1, SessionsAssumption DEF Conns, NoConn
<1>3. ASSUME NEW u \in Threads, NEW i \in 1 .. 2, Holds(u, i) = c PROVE FALSE
  <2>1. Len(frames[u]) \in Nat /\ DOMAIN frames[u] = 1 .. Len(frames[u])
    BY FramesTyped DEF SessionInv, SessionsTyped
  <2>2. i \in DOMAIN frames[u]
    BY <1>2, <1>3, <2>1 DEF Holds
  <2>3. Holds(u, i) = frames[u][i].conn
    BY <2>1, <2>2 DEF Holds
  <2>. QED BY <1>1, <1>3, <2>2, <2>3
<1>. QED BY <1>1, <1>2, <1>3 DEF HeldNow

\* What the end of a block leaves.
LEMMA PopKeeps ==
  ASSUME SessionInv, NEW t \in Threads, Busy(t), NEW failing, Pops(t, failing), counter' = counter,
         Top(t).at \in {"checkout", "checkin"}
  PROVE  /\ frames' \in [Threads -> Seq(FrameRecord)] /\ lock' \subseteq Threads
         /\ BlocksOK' /\ MutationsOK' /\ HoldsMove(t, Len(frames[t]), NoConn)
         /\ \E G : NewBlocks(t, G) /\ \A g \in G : g.at # "checkin"
<1>0. SessionsTyped /\ BlocksOK /\ MutationsOK
  BY DEF SessionInv
<1>. PICK n : n = Len(frames[t])
  OBVIOUS
<1>1. /\ frames' \in [Threads -> Seq(FrameRecord)]
      /\ \/ Ends(t) /\ lock' = lock \ {t}
         \/ (\E place \in {"rollback", "write"} : Returns(t, place)) /\ lock' = lock
  BY <1>0, TopPops
<1>2. lock' \subseteq Threads
  BY <1>0, <1>1 DEF SessionsTyped
<1>3. /\ DOMAIN frames[t] = 1 .. n
      /\ \A i \in DOMAIN frames[t] : i # n => frames[t][i].kind = "mutation" /\ frames[t][i].at = "nested"
  BY TopIs
<1>4. CASE Ends(t) /\ lock' = lock \ {t}
  <2>1. BlocksOK' /\ HoldsMove(t, 1, NoConn) /\ NewBlocks(t, {})
    BY <1>0, <1>1, <1>4, EndsShape
  <2>2. n = 1 /\ ~(\E i \in DOMAIN frames[t] : i # n)
    <3>1. n = 1
      BY <1>4 DEF Ends
    <3>. QED BY <1>3, <3>1
  <2>3. MutationsOK'
    <3>. PICK G : G = {}
      OBVIOUS
    <3>1. \A u \in Threads : u # t /\ lock = {u} => lock' = {u} /\ counter' = counter
      BY <1>4
    <3>2. NewBlocks(t, G) /\ \A g \in G : FALSE
      BY <2>1
    <3>3. (\E i \in DOMAIN frames[t] : i # Len(frames[t]) /\ frames[t][i].kind = "mutation")
             => lock' = lock /\ counter' = counter
      BY <2>2
    <3>4. \A i \in DOMAIN frames[t] : i # Len(frames[t]) => frames[t][i].kind = "mutation"
      BY <1>3
    <3>. QED BY <1>0, <3>1, <3>2, <3>3, <3>4, MutationsKeep
  <2>. QED BY <1>1, <1>2, <2>1, <2>2, <2>3
<1>5. ASSUME NEW place \in {"rollback", "write"}, Returns(t, place), lock' = lock
      PROVE  /\ BlocksOK' /\ MutationsOK' /\ HoldsMove(t, n, NoConn)
             /\ \E G : NewBlocks(t, G) /\ \A g \in G : g.at # "checkin"
  <2>. PICK f : f = frames[t][1]
    OBVIOUS
  <2>. PICK g : g = [f EXCEPT !.at = place]
    OBVIOUS
  <2>1. BlocksOK' /\ HoldsMove(t, 2, NoConn) /\ NewBlocks(t, {g}) /\ f \in FrameRecord /\ f.at = "nested"
        /\ f.kind = "mutation"
    BY <1>0, <1>1, <1>5, ReturnsShape
  <2>2. n = 2
    BY <1>5 DEF Returns
  <2>3. g.at = place /\ g.kind = f.kind /\ g.saw = f.saw
    BY <2>1 DEF FrameRecord
  <2>4. lock = {t} /\ f.saw = counter
    <3>1. 1 \in DOMAIN frames[t]
      BY <1>3, <2>2
    <3>. QED BY <1>0, <2>1, <3>1 DEF MutationsOK
  <2>. PICK G : G = {g}
    OBVIOUS
  <2>5. NewBlocks(t, G) /\ \A h \in G : h.at # "checkin"
    BY <2>1, <2>3
  <2>6. MutationsOK'
    <3>1. \A h \in G : h.kind = "mutation" /\ h.at # "lock" =>
             /\ lock' = {t}
             /\ h.at \in {"nested", "write", "commit"} => h.saw = counter'
      BY <1>5, <2>3, <2>4
    <3>2. \A i \in DOMAIN frames[t] : i # Len(frames[t]) => frames[t][i].kind = "mutation"
      BY <1>3
    <3>3. /\ \A u \in Threads : u # t /\ lock = {u} => lock' = {u} /\ counter' = counter
          /\ lock' = lock /\ counter' = counter
      BY <1>5
    <3>. QED BY <1>0, <2>5, <3>1, <3>2, <3>3, MutationsKeep
  <2>7. HoldsMove(t, n, NoConn)
    BY <2>1, <2>2, Zenon
  <2>. QED BY <2>1, <2>5, <2>6, <2>7
<1>. QED BY <1>1, <1>2, <1>4, <1>5

-----------------------------------------------------------------------------
\* The steps.
LEMMA StatementKeeps ==
  ASSUME SessionInv, NEW t \in Threads, Begin(t) \/ Body(t) \/ Write(t) \/ Commit(t) \/ Rollback(t)
  PROVE  SessionInv'
<1>0. SessionsTyped /\ BlocksOK /\ MutationsOK /\ NoLostUpdate /\ HoldersApart /\ PoolOK /\ NoneLoose
      /\ CheckedIn /\ SlotsOK
  BY DEF SessionInv, ConnsOK
<1>. PICK f : f = Top(t)
  OBVIOUS
<1>. PICK n : n = Len(frames[t])
  OBVIOUS
<1>. PICK c : c = f.conn
  OBVIOUS
<1>1. /\ Busy(t) /\ c \in Conns
      /\ permits' = permits /\ pool' = pool /\ lock' = lock
      /\ link' \in [Conns -> {"closed", "live", "stale"}] /\ tx' \in [Conns -> {"none", "open", "failed"}]
      /\ unread' = unread
      /\ \A d \in Conns : d # c => link'[d] = link[d] /\ tx'[d] = tx[d]
      /\ link'[c] \in {link[c], "closed"}
  BY WireSteps
<1>. PICK g \in FrameRecord :
        /\ GoesOn(f, g) /\ Tallies(f, g)
        /\ \/ g.at # "nested" /\ frames' = WithTop(t, g)
           \/ /\ g.at = "nested"
              /\ frames' = [frames EXCEPT ![t] =
                               Append(Append(Front(frames[t]), g), Frame("checkout", "read"))]
  BY WireSteps
<1>2. /\ n \in 1 .. 2 /\ DOMAIN frames[t] = 1 .. n
      /\ f \in FrameRecord /\ FrameOK(f, n, n) /\ f = frames[t][n] /\ Holds(t, n) = c
      /\ \A i \in DOMAIN frames[t] : i # n => frames[t][i].kind = "mutation" /\ frames[t][i].at = "nested"
      /\ \A u \in Threads, i \in 1 .. 2 : Holds(u, i) = c /\ c # NoConn => u = t /\ i = n
  <2>1. /\ n \in 1 .. 2 /\ DOMAIN frames[t] = 1 .. n
        /\ Top(t) \in FrameRecord /\ FrameOK(Top(t), n, n) /\ Top(t) = frames[t][n] /\ Holds(t, n) = Top(t).conn
        /\ \A i \in DOMAIN frames[t] : i # n => frames[t][i].kind = "mutation" /\ frames[t][i].at = "nested"
        /\ \A u \in Threads, i \in 1 .. 2 : Holds(u, i) = Top(t).conn /\ Top(t).conn # NoConn => u = t /\ i = n
    <3>1. Busy(t)
      BY <1>1
    <3>2. n \in 1 .. 2 /\ DOMAIN frames[t] = 1 .. n
        /\ Top(t) \in FrameRecord /\ FrameOK(Top(t), n, n) /\ Top(t) = frames[t][n] /\ Holds(t, n) = Top(t).conn
      BY <3>1, TopIs
    <3>3. \A i \in DOMAIN frames[t] : i # n => frames[t][i].kind = "mutation" /\ frames[t][i].at = "nested"
      BY <3>1, TopIs
    <3>4. \A u \in Threads, i \in 1 .. 2 : Holds(u, i) = Top(t).conn /\ Top(t).conn # NoConn => u = t /\ i = n
      BY <3>1, TopIs
    <3>. QED BY <3>2, <3>3, <3>4
  <2>. QED BY <2>1
<1>c. c # NoConn
  BY <1>1, SessionsAssumption DEF Conns, NoConn
<1>g. /\ g.conn = c /\ g.kind = f.kind /\ g.at \notin {"lock", "checkout"}
      /\ g.at \in {"nested", "write"} => f.kind = "mutation"
      /\ g.at = "checkin" => link'[c] = "closed" \/ tx'[c] = "none"
  BY DEF GoesOn
<1>k. ~(n < n) /\ (n = 2 => f.kind = "read")
  BY <1>2 DEF FrameOK
<1>3. /\ frames' \in [Threads -> Seq(FrameRecord)] /\ BlocksOK' /\ HoldsMove(t, n, c)
      /\ NewBlocks(t, {g, Frame("checkout", "read")})
  <2>1. CASE g.at # "nested" /\ frames' = WithTop(t, g)
    <3>1. Moves(t, g) /\ frames' \in [Threads -> Seq(FrameRecord)]
      BY <1>0, <1>1, <2>1, TopMoves
    <3>2. FrameOK(g, n, n)
      BY <1>2, <1>c, <1>g, <1>k, <2>1 DEF FrameOK
    <3>3. BlocksOK' /\ HoldsMove(t, n, c) /\ NewBlocks(t, {g})
      BY <1>0, <1>2, <1>g, <3>1, <3>2, MovesShape
    <3>. QED BY <3>1, <3>3 DEF NewBlocks
  <2>2. CASE /\ g.at = "nested"
             /\ frames' = [frames EXCEPT ![t] =
                              Append(Append(Front(frames[t]), g), Frame("checkout", "read"))]
    <3>1. Nests(t, g) /\ frames' \in [Threads -> Seq(FrameRecord)]
      BY <1>0, <1>1, <2>2, TopNests
    <3>2. n = 1
      <4>1. n # 2
        BY <1>2, <1>g, <2>2 DEF FrameOK
      <4>. QED BY <1>2, <4>1
    <3>3. FrameOK(g, n, n + 1)
      <4>1. n < n + 1 /\ n # 2
        BY <3>2
      <4>. QED BY <1>c, <1>g, <2>2, <4>1 DEF FrameOK
    <3>4. BlocksOK' /\ HoldsMove(t, n, g.conn) /\ NewBlocks(t, {g, Frame("checkout", "read")})
      <4>1. n < 2
        BY <3>2
      <4>. QED BY <1>0, <1>2, <3>1, <3>3, <4>1, NestsShape
    <3>. QED BY <1>g, <3>1, <3>4
  <2>. QED BY <2>1, <2>2
<1>. PICK h : h = Frame("checkout", "read")
  OBVIOUS
<1>h. h.at = "checkout" /\ h.kind = "read"
  BY NewFrames
<1>. PICK G : G = {g, h}
  OBVIOUS
<1>4. NewBlocks(t, G)
  BY <1>3
<1>5. /\ MutationsOK' /\ counter' \in Nat /\ NoLostUpdate'
  <2>1. f.kind = "mutation" /\ f.at # "lock" => lock = {t} /\ (f.at \in {"nested", "write", "commit"} => f.saw = counter)
    <3>1. n \in DOMAIN frames[t] /\ f = frames[t][n]
      <4>1. ASSUME NEW m \in 1 .. 2 PROVE m \in 1 .. m
        OBVIOUS
      <4>. QED BY <1>2, <4>1, Zenon
    <3>2. MutationsOK
      BY <1>0
    <3>. QED BY <3>1, <3>2 DEF MutationsOK
  <2>2. f.at # "lock" /\ counter \in Nat /\ counter = commits
    BY <1>0 DEF GoesOn, SessionsTyped, NoLostUpdate
  <2>3. CASE counter' = counter /\ commits' = commits /\
             (g.kind = "mutation" /\ g.at \in {"nested", "write", "commit"} =>
                 g.saw = counter \/ (f.at = "write" /\ g.saw = f.saw))
    <3>1. \A k \in G : k.kind = "mutation" /\ k.at # "lock" =>
             /\ lock' = {t}
             /\ k.at \in {"nested", "write", "commit"} => k.saw = counter'
      BY <1>1, <1>g, <1>h, <2>1, <2>2, <2>3
    <3>2. MutationsOK'
      <4>1. /\ \A i \in DOMAIN frames[t] : i # Len(frames[t]) => frames[t][i].kind = "mutation"
            /\ \A u \in Threads : u # t /\ lock = {u} => lock' = {u} /\ counter' = counter
            /\ lock' = lock /\ counter' = counter
        BY <1>1, <1>2, <2>3
      <4>. QED BY <1>0, <1>4, <3>1, <4>1, MutationsKeep
    <3>. QED BY <2>2, <2>3, <3>2 DEF NoLostUpdate
  <2>4. CASE counter' = f.saw + 1 /\ commits' = commits + 1 /\ f.at = "commit" /\ f.kind = "mutation"
             /\ g.at \in {"checkin", "rollback"}
    <3>1. \A k \in G : k.kind = "mutation" /\ k.at # "lock" =>
             /\ lock' = {t}
             /\ k.at \in {"nested", "write", "commit"} => k.saw = counter'
      BY <1>1, <1>g, <1>h, <2>1, <2>4
    <3>2. MutationsOK'
      <4>1. n = 1
        <5>1. n # 2
          BY <1>2, <2>4 DEF FrameOK
        <5>. QED BY <1>2, <5>1
      <4>2. \A u \in Threads : u # t /\ lock = {u} => lock' = {u} /\ counter' = counter
        BY <2>1, <2>4
      <4>3. \A i \in DOMAIN frames[t] : i = Len(frames[t])
        BY <1>2, <4>1
      <4>. QED BY <1>0, <1>4, <3>1, <4>2, <4>3, MutationsKeep
    <3>. QED BY <2>1, <2>2, <2>4, <3>2 DEF NoLostUpdate
  <2>. QED BY <2>3, <2>4 DEF Tallies
<1>6. CheckedIn'
  <2>1. \A k \in G : k.at = "checkin" => link'[k.conn] = "closed" \/ tx'[k.conn] = "none"
    BY <1>g, <1>h
  <2>2. OthersRest(c)
    BY <1>1 DEF OthersRest
  <2>3. OnlyTop(t, c)
    BY <1>2 DEF OnlyTop
  <2>. QED BY <1>0, <1>4, <2>1, <2>2, <2>3, CheckedKeep
<1>7. HoldersApart' /\ PoolOK' /\ NoneLoose' /\ Slots' = Slots
  <2>1. \A u \in Threads, i \in 1 .. 2 : Holds(u, i)' = Holds(u, i)
    BY <1>2, <1>3 DEF HoldsMove
  <2>2. HeldNow(c)
    BY <1>2 DEF HeldNow
  <2>3. \A d \in Conns :
             \/ HeldNow(d) /\ (link[d] = "closed" => link'[d] = "closed")
             \/ (link'[d] = "closed" <=> link[d] = "closed") /\ (tx[d] = "none" => tx'[d] = "none")
    BY <1>1, <2>2
  <2>. QED BY <1>0, <1>1, <2>1, <2>3, ConnsStay DEF SessionsTyped
<1>8. SlotsOK'
  BY <1>0, <1>1, <1>7 DEF SlotsOK
<1>9. SessionsTyped'
  BY <1>0, <1>1, <1>3, <1>5 DEF SessionsTyped
<1>. QED BY <1>3, <1>5, <1>6, <1>7, <1>8, <1>9 DEF SessionInv, ConnsOK

LEMMA EnterKeeps == ASSUME SessionInv, NEW t \in Threads, EntersMutation(t) PROVE SessionInv'
<1>0. SessionsTyped /\ BlocksOK /\ MutationsOK /\ NoLostUpdate /\ HoldersApart /\ PoolOK /\ NoneLoose
      /\ CheckedIn /\ SlotsOK
  BY DEF SessionInv, ConnsOK
<1>. PICK f : f = Top(t)
  OBVIOUS
<1>. PICK n : n = Len(frames[t])
  OBVIOUS
<1>1. /\ Busy(t) /\ f.at = "lock" /\ lock = {} /\ lock' = {t}
      /\ UNCHANGED <<permits, pool, link, tx, unread, counter, commits>>
  BY DEF EntersMutation, AtSession, wire
<1>2. n \in 1 .. 2 /\ f \in FrameRecord /\ FrameOK(f, n, n) /\ Holds(t, n) = f.conn
  BY <1>1, TopIs
<1>3. \A i \in DOMAIN frames[t] : i # n => frames[t][i].kind = "mutation" /\ frames[t][i].at = "nested"
  BY <1>1, TopIs
<1>. PICK g : g = [f EXCEPT !.at = "checkout"]
  OBVIOUS
<1>4. g \in FrameRecord /\ g.at = "checkout" /\ g.kind = f.kind /\ g.conn = f.conn
  BY <1>2 DEF FrameRecord, FramePlaces
<1>5. Moves(t, g) /\ frames' \in [Threads -> Seq(FrameRecord)]
  <2>1. frames' = WithTop(t, g)
    BY DEF EntersMutation, SessionGoes
  <2>. QED BY <1>0, <1>1, <1>4, <2>1, TopMoves
<1>6. f.conn = NoConn /\ ~(n < n) /\ (n = 2 => f.kind = "read")
  BY <1>1, <1>2 DEF FrameOK
<1>7. BlocksOK' /\ HoldsMove(t, n, g.conn) /\ NewBlocks(t, {g})
  <2>1. FrameOK(g, n, n)
    BY <1>4, <1>6 DEF FrameOK
  <2>. QED BY <1>0, <1>2, <1>5, <2>1, MovesShape
<1>. PICK G : G = {g}
  OBVIOUS
<1>8. MutationsOK'
  <2>1. NewBlocks(t, G)
    BY <1>7
  <2>2. \A k \in G : k.kind = "mutation" /\ k.at # "lock" =>
             /\ lock' = {t}
             /\ k.at \in {"nested", "write", "commit"} => k.saw = counter'
    BY <1>1, <1>4
  <2>3. \A u \in Threads : u # t /\ lock = {u} => lock' = {u} /\ counter' = counter
    BY <1>1
  <2>4. ASSUME NEW i \in DOMAIN frames[t], i # n PROVE FALSE
    BY <1>0, <1>1, <1>3, <2>4 DEF MutationsOK
  <2>. QED BY <1>0, <2>1, <2>2, <2>3, <2>4, MutationsKeep
<1>9. \A u \in Threads, i \in 1 .. 2 : Holds(u, i)' = Holds(u, i)
  BY <1>2, <1>4, <1>7 DEF HoldsMove
<1>10. HoldersApart' /\ PoolOK' /\ NoneLoose' /\ Slots' = Slots
  BY <1>0, <1>1, <1>9, ConnsStay DEF SessionsTyped
<1>11. CheckedIn'
  <2>1. OthersRest(NoConn) /\ OnlyTop(t, NoConn)
    BY <1>1 DEF OthersRest, OnlyTop
  <2>2. NewBlocks(t, G) /\ \A k \in G : k.at = "checkin" => link'[k.conn] = "closed" \/ tx'[k.conn] = "none"
    BY <1>4, <1>7
  <2>. QED BY <1>0, <2>1, <2>2, CheckedKeep
<1>12. SlotsOK' /\ NoLostUpdate' /\ SessionsTyped'
  BY <1>0, <1>1, <1>5, <1>10 DEF SlotsOK, NoLostUpdate, SessionsTyped
<1>. QED BY <1>7, <1>8, <1>10, <1>11, <1>12 DEF SessionInv, ConnsOK

LEMMA CheckoutKeeps == ASSUME SessionInv, NEW t \in Threads, Checkout(t) PROVE SessionInv'
<1>0. SessionsTyped /\ BlocksOK /\ MutationsOK /\ NoLostUpdate /\ HoldersApart /\ PoolOK /\ NoneLoose
      /\ CheckedIn /\ SlotsOK
  BY DEF SessionInv, ConnsOK
<1>. PICK f : f = Top(t)
  OBVIOUS
<1>. PICK n : n = Len(frames[t])
  OBVIOUS
<1>1. /\ Busy(t) /\ f.at = "checkout" /\ permits > 0 /\ permits' = permits - 1
      /\ UNCHANGED <<lock, counter, commits>> /\ permits \in Nat /\ pool \in Seq(Conns)
      /\ link \in [Conns -> {"closed", "live", "stale"}]
  BY <1>0 DEF Checkout, AtSession, SessionsTyped
<1>2. n \in 1 .. 2 /\ f \in FrameRecord /\ FrameOK(f, n, n) /\ Holds(t, n) = f.conn /\ f = frames[t][n]
      /\ DOMAIN frames[t] = 1 .. n
  BY <1>1, TopIs
<1>3. \A i \in DOMAIN frames[t] : i # n => frames[t][i].kind = "mutation" /\ frames[t][i].at = "nested"
  BY <1>1, TopIs
<1>4. f.conn = NoConn /\ ~(n < n) /\ (n = 2 => f.kind = "read")
  BY <1>1, <1>2 DEF FrameOK
\* The connection comes from the pool or is opened.
<1>5. \E c \in Conns :
         /\ Connected(t, c) /\ ~HeldNow(c) /\ c # NoConn
         /\ pool' \in Seq(Conns)
         /\ \A i \in DOMAIN pool' : i \in DOMAIN pool /\ pool'[i] = pool[i] /\ pool[i] # c
         /\ \A i \in DOMAIN pool : i \in DOMAIN pool' \/ pool[i] = c
         /\ link' \in [Conns -> {"closed", "live", "stale"}] /\ tx' = tx /\ unread' = unread
         /\ \A d \in Conns : d # c => link'[d] = link[d]
  <2>1. CASE pool # <<>> /\ pool' = Front(pool) /\ Connected(t, Last(pool)) /\ UNCHANGED wire
    <3>. PICK c : c = Last(pool)
      OBVIOUS
    <3>. PICK m : m = Len(pool)
      OBVIOUS
    <3>1. m \in Nat \ {0} /\ DOMAIN pool = 1 .. m /\ c = pool[m] /\ c \in Conns
      BY <1>1, <2>1 DEF Last
    <3>2. /\ pool' \in Seq(Conns) /\ Len(pool') = m - 1 /\ \A i \in 1 .. m - 1 : pool'[i] = pool[i]
      BY <1>1, <2>1, <3>1, TopFacts
    <3>3. DOMAIN pool' = 1 .. m - 1
      BY <3>2
    <3>4. m \in DOMAIN pool /\ \A i \in 1 .. m - 1 : i \in 1 .. m /\ i # m
      BY <3>1
    <3>5. ~HeldNow(c) /\ \A i \in 1 .. m : pool[i] = c => i = m
      BY <1>0, <3>1, <3>4 DEF PoolOK
    <3>6. \A i \in DOMAIN pool' : i \in DOMAIN pool /\ pool'[i] = pool[i] /\ pool[i] # c
      BY <3>1, <3>2, <3>3, <3>4, <3>5
    <3>7. \A i \in DOMAIN pool : i \in DOMAIN pool' \/ pool[i] = c
      <4>1. \A i \in 1 .. m : i \in 1 .. m - 1 \/ i = m
        BY <3>1
      <4>. QED BY <3>1, <3>3, <4>1
    <3>8. c # NoConn
      BY <3>1, SessionsAssumption DEF Conns, NoConn
    <3>9. link' = link /\ tx' = tx /\ unread' = unread
      BY <2>1 DEF wire
    <3>10. Connected(t, c)
      BY <2>1
    <3>. QED BY <1>1, <3>1, <3>2, <3>5, <3>6, <3>7, <3>8, <3>9, <3>10
  <2>2. CASE /\ pool = <<>>
             /\ LET new == CHOOSE d \in Unopened : TRUE
                IN Connected(t, new) /\ link' = [link EXCEPT ![new] = "live"]
             /\ UNCHANGED <<pool, tx, unread>>
    <3>. PICK c : c = CHOOSE d \in Unopened : TRUE
      OBVIOUS
    <3>1. c \in Unopened
      BY <1>1, <2>2, OneUnopened
    <3>2. c \in Conns /\ ~HeldNow(c) /\ c # NoConn
      BY <3>1, UnopenedIsFree
    <3>3. Connected(t, c) /\ link' = [link EXCEPT ![c] = "live"]
      BY <2>2
    <3>4. pool' = pool /\ DOMAIN pool = {} /\ tx' = tx /\ unread' = unread
      BY <2>2
    <3>5. pool' \in Seq(Conns)
      BY <1>1, <3>4
    <3>6. \A i \in DOMAIN pool' : i \in DOMAIN pool /\ pool'[i] = pool[i] /\ pool[i] # c
      BY <3>4
    <3>7. \A i \in DOMAIN pool : i \in DOMAIN pool' \/ pool[i] = c
      BY <3>4
    <3>8. link' \in [Conns -> {"closed", "live", "stale"}] /\ \A d \in Conns : d # c => link'[d] = link[d]
      BY <1>1, <3>2, <3>3
    <3>. QED BY <3>2, <3>3, <3>4, <3>5, <3>6, <3>7, <3>8
  <2>. QED BY <2>1, <2>2 DEF Checkout
<1>c. PICK c \in Conns :
         /\ Connected(t, c) /\ ~HeldNow(c) /\ c # NoConn
         /\ pool' \in Seq(Conns)
         /\ \A i \in DOMAIN pool' : i \in DOMAIN pool /\ pool'[i] = pool[i] /\ pool[i] # c
         /\ \A i \in DOMAIN pool : i \in DOMAIN pool' \/ pool[i] = c
         /\ link' \in [Conns -> {"closed", "live", "stale"}] /\ tx' = tx /\ unread' = unread
         /\ \A d \in Conns : d # c => link'[d] = link[d]
  BY <1>5
<1>g. PICK g : g = [f EXCEPT !.conn = c, !.at = "begin"]
  OBVIOUS
<1>6. g \in FrameRecord /\ g.at = "begin" /\ g.kind = f.kind /\ g.conn = c
  BY <1>2, <1>g DEF FrameRecord, FramePlaces
<1>7. Moves(t, g) /\ frames' \in [Threads -> Seq(FrameRecord)]
  <2>1. frames' = WithTop(t, g)
    BY <1>c, <1>g DEF Connected
  <2>. QED BY <1>0, <1>1, <1>6, <2>1, TopMoves
<1>8. BlocksOK' /\ HoldsMove(t, n, c) /\ NewBlocks(t, {g})
  <2>1. FrameOK(g, n, n)
    <3>1. g.at = "begin" /\ g.conn # NoConn
      BY <1>c, <1>6
    <3>. QED BY <1>4, <1>6, <3>1 DEF FrameOK
  <2>2. BlocksOK' /\ HoldsMove(t, n, g.conn) /\ NewBlocks(t, {g})
    BY <1>0, <1>2, <1>7, <2>1, MovesShape
  <2>. QED BY <1>6, <2>2
<1>G. PICK G : G = {g}
  OBVIOUS
<1>9. MutationsOK'
  <2>1. NewBlocks(t, G)
    BY <1>8, <1>G
  <2>2. \A k \in G : k.kind = "mutation" /\ k.at # "lock" =>
             /\ lock' = {t}
             /\ k.at \in {"nested", "write", "commit"} => k.saw = counter'
    <3>1. n \in DOMAIN frames[t]
      <4>1. ASSUME NEW m \in 1 .. 2 PROVE m \in 1 .. m
        OBVIOUS
      <4>. QED BY <1>2, <4>1, Zenon
    <3>2. f.kind = "mutation" => lock = {t}
      BY <1>0, <1>1, <1>2, <3>1 DEF MutationsOK
    <3>. QED BY <1>1, <1>6, <1>G, <3>2
  <2>3. /\ \A u \in Threads : u # t /\ lock = {u} => lock' = {u} /\ counter' = counter
        /\ lock' = lock /\ counter' = counter
    BY <1>1
  <2>4. \A i \in DOMAIN frames[t] : i # Len(frames[t]) => frames[t][i].kind = "mutation"
    BY <1>3
  <2>5. \A u \in Threads : u # t /\ lock = {u} => lock' = {u} /\ counter' = counter
    BY <2>3
  <2>6. (\E i \in DOMAIN frames[t] : i # Len(frames[t]) /\ frames[t][i].kind = "mutation")
             => lock' = lock /\ counter' = counter
    BY <2>3
  <2>7. MutationsOK
    BY <1>0
  <2>. QED BY <2>1, <2>2, <2>4, <2>5, <2>6, <2>7, MutationsKeep
<1>10. HoldersApart' /\ PoolOK' /\ NoneLoose' /\ Slots' = Slots \cup {<<t, n>>} /\ <<t, n>> \notin Slots
  <2>1. Holds(t, n) = NoConn
    BY <1>2, <1>4
  <2>2. \A d \in Conns : d # c => link'[d] = link[d] /\ tx'[d] = tx[d]
    BY <1>c
  <2>. QED BY <1>0, <1>1, <1>2, <1>8, <1>c, <2>1, <2>2, ConnsTaken
<1>11. CheckedIn'
  <2>1. OthersRest(c) /\ OnlyTop(t, c)
    BY <1>c DEF OthersRest, OnlyTop, HeldNow
  <2>2. NewBlocks(t, G) /\ \A k \in G : k.at = "checkin" => link'[k.conn] = "closed" \/ tx'[k.conn] = "none"
    BY <1>6, <1>8, <1>G
  <2>. QED BY <1>0, <2>1, <2>2, CheckedKeep
<1>12. SlotsOK' /\ permits' \in Nat
  <2>. PICK k \in Nat : k = Cardinality(Slots)
    BY SlotsFinite
  <2>1. Cardinality(Slots \cup {<<t, n>>}) = k + 1
    BY <1>10, SlotsFinite, FS_AddElement
  <2>2. Cardinality(Slots') = k + 1
    BY <1>10, <2>1
  <2>3. permits + k = MAX_ACTIVE_CONNECTIONS
    BY <1>0 DEF SlotsOK
  <2>4. permits' + (k + 1) = MAX_ACTIVE_CONNECTIONS /\ permits' \in Nat
    BY <1>1, <2>3
  <2>. QED BY <2>2, <2>4 DEF SlotsOK
<1>13. NoLostUpdate' /\ SessionsTyped'
  BY <1>0, <1>1, <1>7, <1>12, <1>c DEF NoLostUpdate, SessionsTyped
<1>. QED BY <1>8, <1>9, <1>10, <1>11, <1>12, <1>13 DEF SessionInv, ConnsOK

LEMMA CheckoutFailsKeeps == ASSUME SessionInv, NEW t \in Threads, CheckoutFails(t) PROVE SessionInv'
<1>0. SessionsTyped /\ BlocksOK /\ MutationsOK /\ NoLostUpdate /\ HoldersApart /\ PoolOK /\ NoneLoose
      /\ CheckedIn /\ SlotsOK
  BY DEF SessionInv, ConnsOK
<1>. PICK n : n = Len(frames[t])
  OBVIOUS
<1>1. /\ Busy(t) /\ Top(t).at = "checkout" /\ Pops(t, TRUE)
      /\ UNCHANGED <<permits, pool, link, tx, unread, counter, commits>>
  BY DEF CheckoutFails, AtSession, PermitKept, wire
<1>2. n \in 1 .. 2 /\ FrameOK(Top(t), n, n) /\ Holds(t, n) = Top(t).conn
  BY <1>1, TopIs
<1>3. Holds(t, n) = NoConn
  BY <1>1, <1>2 DEF FrameOK
<1>4. /\ frames' \in [Threads -> Seq(FrameRecord)] /\ lock' \subseteq Threads
      /\ BlocksOK' /\ MutationsOK' /\ HoldsMove(t, n, NoConn)
      /\ \E G : NewBlocks(t, G) /\ \A g \in G : g.at # "checkin"
  BY <1>1, PopKeeps
<1>. PICK G : NewBlocks(t, G) /\ \A g \in G : g.at # "checkin"
  BY <1>4
<1>5. \A u \in Threads, i \in 1 .. 2 : Holds(u, i)' = Holds(u, i)
  BY <1>3, <1>4 DEF HoldsMove
<1>6. HoldersApart' /\ PoolOK' /\ NoneLoose' /\ Slots' = Slots
  BY <1>0, <1>1, <1>5, ConnsStay DEF SessionsTyped
<1>7. CheckedIn'
  <2>1. OthersRest(NoConn) /\ OnlyTop(t, NoConn)
    BY <1>1 DEF OthersRest, OnlyTop
  <2>. QED BY <1>0, <2>1, CheckedKeep
<1>8. SlotsOK' /\ NoLostUpdate' /\ SessionsTyped'
  BY <1>0, <1>1, <1>4, <1>6 DEF SlotsOK, NoLostUpdate, SessionsTyped
<1>. QED BY <1>4, <1>6, <1>7, <1>8 DEF SessionInv, ConnsOK

LEMMA CheckinKeeps == ASSUME SessionInv, NEW t \in Threads, Checkin(t) PROVE SessionInv'
<1>0. SessionsTyped /\ BlocksOK /\ MutationsOK /\ NoLostUpdate /\ HoldersApart /\ PoolOK /\ NoneLoose
      /\ CheckedIn /\ SlotsOK
  BY DEF SessionInv, ConnsOK
<1>. PICK f : f = Top(t)
  OBVIOUS
<1>. PICK n : n = Len(frames[t])
  OBVIOUS
<1>. PICK c : c = f.conn
  OBVIOUS
<1>1. /\ Busy(t) /\ f.at = "checkin" /\ Pops(t, Top(t).failed) /\ permits' = permits + 1
      /\ UNCHANGED <<counter, commits>>
  BY DEF Checkin, AtSession
<1>2. n \in 1 .. 2 /\ f \in FrameRecord /\ FrameOK(f, n, n) /\ Holds(t, n) = c /\ f = frames[t][n]
      /\ DOMAIN frames[t] = 1 .. n
  BY <1>1, TopIs
<1>3. \A u \in Threads, i \in 1 .. 2 : Holds(u, i) = c /\ c # NoConn => u = t /\ i = n
  BY <1>1, TopIs
<1>4. c \in Conns
  BY <1>1, <1>2 DEF FrameOK, FrameRecord
<1>5. link[c] = "closed" \/ tx[c] = "none"
  <2>1. n \in DOMAIN frames[t]
    <3>1. ASSUME NEW m \in 1 .. 2 PROVE m \in 1 .. m
      OBVIOUS
    <3>. QED BY <1>2, <3>1, Zenon
  <2>. QED BY <1>0, <1>1, <1>2, <2>1 DEF CheckedIn
<1>6. /\ frames' \in [Threads -> Seq(FrameRecord)] /\ lock' \subseteq Threads
      /\ BlocksOK' /\ MutationsOK' /\ HoldsMove(t, n, NoConn)
      /\ \E G : NewBlocks(t, G) /\ \A g \in G : g.at # "checkin"
  BY <1>1, PopKeeps
<1>. PICK G : NewBlocks(t, G) /\ \A g \in G : g.at # "checkin"
  BY <1>6
<1>7. /\ link' \in [Conns -> {"closed", "live", "stale"}] /\ tx' \in [Conns -> {"none", "open", "failed"}]
      /\ unread' = unread /\ pool' \in Seq(Conns)
      /\ \A d \in Conns : d # c => link'[d] = link[d] /\ tx'[d] = tx[d]
      /\ \/ pool' = pool /\ link'[c] = "closed"
         \/ pool' = Append(pool, c) /\ link'[c] # "closed" /\ tx'[c] = "none"
  <2>0. /\ link \in [Conns -> {"closed", "live", "stale"}] /\ tx \in [Conns -> {"none", "open", "failed"}]
        /\ unread = [d \in Conns |-> 0] /\ pool \in Seq(Conns)
    BY <1>0 DEF SessionsTyped
  <2>1. CASE link[c] = "closed" /\ UNCHANGED <<pool, wire>>
    BY <2>0, <2>1 DEF wire
  <2>2. CASE link[c] # "closed" /\ pool' = Append(pool, c) /\ UNCHANGED wire
    <3>1. Append(pool, c) \in Seq(Conns)
      BY <1>4, <2>0, Appended
    <3>. QED BY <1>5, <2>0, <2>2, <3>1 DEF wire
  <2>3. CASE Hangs(c) /\ UNCHANGED pool
    <3>1. link' = [link EXCEPT ![c] = "closed"] /\ tx' = [tx EXCEPT ![c] = "none"]
          /\ unread' = [unread EXCEPT ![c] = 0] /\ pool' = pool
      BY <2>3 DEF Hangs
    <3>2. unread' = unread
      BY <2>0, <3>1
    <3>. QED BY <1>4, <2>0, <3>1, <3>2
  <2>. QED BY <2>1, <2>2, <2>3 DEF Checkin
<1>8. HoldersApart' /\ PoolOK' /\ NoneLoose' /\ Slots' = Slots \ {<<t, n>>} /\ <<t, n>> \in Slots
  <2>1. pool \in Seq(Conns)
    BY <1>0 DEF SessionsTyped
  <2>. QED BY <1>0, <1>2, <1>4, <1>6, <1>7, <2>1, ConnsDropped
<1>9. CheckedIn'
  <2>1. OthersRest(c) /\ OnlyTop(t, c)
    BY <1>3, <1>7 DEF OthersRest, OnlyTop
  <2>. QED BY <1>0, <2>1, CheckedKeep
<1>10. SlotsOK' /\ permits' \in Nat
  <2>. PICK k \in Nat : k = Cardinality(Slots)
    BY SlotsFinite
  <2>1. Cardinality(Slots \ {<<t, n>>}) = k - 1
    BY <1>8, SlotsFinite, FS_RemoveElement
  <2>2. Cardinality(Slots') = k - 1
    BY <1>8, <2>1
  <2>3. permits + k = MAX_ACTIVE_CONNECTIONS /\ permits \in Nat
    BY <1>0 DEF SlotsOK, SessionsTyped
  <2>4. permits' + (k - 1) = MAX_ACTIVE_CONNECTIONS /\ permits' \in Nat
    BY <1>1, <2>3
  <2>. QED BY <2>2, <2>4 DEF SlotsOK
<1>11. NoLostUpdate' /\ SessionsTyped'
  BY <1>0, <1>1, <1>6, <1>7, <1>10 DEF NoLostUpdate, SessionsTyped
<1>. QED BY <1>6, <1>8, <1>9, <1>10, <1>11 DEF SessionInv, ConnsOK

LEMMA AskKeeps == ASSUME SessionInv, NEW t \in Threads, Ask(t) PROVE SessionInv'
<1>0. SessionsTyped /\ BlocksOK /\ MutationsOK /\ NoLostUpdate /\ HoldersApart /\ PoolOK /\ NoneLoose
      /\ CheckedIn /\ SlotsOK
  BY DEF SessionInv, ConnsOK
<1>1. frames[t] = <<>> /\ UNCHANGED <<permits, pool, link, tx, unread, lock, counter, commits>>
  BY DEF Ask, Busy, wire
<1>. PICK kind \in {"read", "mutation"} :
        frames' = [frames EXCEPT ![t] = <<Frame(IF kind = "read" THEN "checkout" ELSE "lock", kind)>>]
  BY DEF Ask
<1>. PICK place \in {"checkout", "lock"} : place = IF kind = "read" THEN "checkout" ELSE "lock"
  OBVIOUS
<1>. PICK g : g = Frame(place, kind)
  OBVIOUS
<1>2. g \in FrameRecord /\ g.at = place /\ g.kind = kind /\ g.conn = NoConn
  BY DEF Frame, FrameRecord, FramePlaces
<1>3. Opens(t, g) /\ frames' \in [Threads -> Seq(FrameRecord)]
  <2>1. frames' = [frames EXCEPT ![t] = <<g>>] /\ frames \in [Threads -> Seq(FrameRecord)]
    BY <1>0 DEF SessionsTyped
  <2>2. <<g>> \in Seq(FrameRecord)
    BY <1>2
  <2>. QED BY <1>1, <2>1, <2>2 DEF Opens, Same
<1>4. BlocksOK' /\ HoldsMove(t, 1, NoConn) /\ NewBlocks(t, {g})
  <2>1. FrameOK(g, 1, 1)
    <3>1. g.at \in {"lock", "checkout"} /\ g.at # "nested" /\ (g.at = "lock" => g.kind = "mutation") /\ g.at # "write"
      BY <1>2
    <3>2. 1 # 2 /\ ~(1 < 1)
      OBVIOUS
    <3>. QED BY <1>2, <3>1, <3>2 DEF FrameOK
  <2>. QED BY <1>0, <1>2, <1>3, <2>1, OpensShape
<1>. PICK G : G = {g}
  OBVIOUS
<1>5. NewBlocks(t, G) /\ \A h \in G : h.at \in {"checkout", "lock"} /\ (h.kind = "mutation" => h.at = "lock")
  BY <1>2, <1>4
<1>6. MutationsOK'
  <2>1. \A i \in DOMAIN frames[t] : FALSE
    BY <1>1
  <2>2. \A h \in G : h.kind = "mutation" /\ h.at # "lock" =>
             /\ lock' = {t}
             /\ h.at \in {"nested", "write", "commit"} => h.saw = counter'
    BY <1>5
  <2>3. \A u \in Threads : u # t /\ lock = {u} => lock' = {u} /\ counter' = counter
    BY <1>1
  <2>. QED BY <1>0, <1>5, <2>1, <2>2, <2>3, MutationsKeep
<1>7. \A u \in Threads, i \in 1 .. 2 : Holds(u, i)' = Holds(u, i)
  <2>1. ASSUME NEW i \in 1 .. 2 PROVE Holds(t, i) = NoConn
    BY <1>1 DEF Holds
  <2>. QED BY <1>4, <2>1 DEF HoldsMove
<1>8. HoldersApart' /\ PoolOK' /\ NoneLoose' /\ Slots' = Slots
  BY <1>0, <1>1, <1>7, ConnsStay DEF SessionsTyped
<1>9. CheckedIn'
  <2>1. OthersRest(NoConn) /\ OnlyTop(t, NoConn)
    BY <1>1 DEF OthersRest, OnlyTop
  <2>2. \A h \in G : h.at = "checkin" => link'[h.conn] = "closed" \/ tx'[h.conn] = "none"
    BY <1>5
  <2>. QED BY <1>0, <1>5, <2>1, <2>2, CheckedKeep
<1>10. SlotsOK' /\ NoLostUpdate' /\ SessionsTyped'
  BY <1>0, <1>1, <1>3, <1>8 DEF SlotsOK, NoLostUpdate, SessionsTyped
<1>. QED BY <1>4, <1>6, <1>8, <1>9, <1>10 DEF SessionInv, ConnsOK

LEMMA ServerRestartKeeps == ASSUME SessionInv, ServerRestarts PROVE SessionInv'
<1>0. SessionsTyped /\ BlocksOK /\ MutationsOK /\ NoLostUpdate /\ HoldersApart /\ PoolOK /\ NoneLoose
      /\ CheckedIn /\ SlotsOK
  BY DEF SessionInv, ConnsOK
<1>1. /\ link' = [c \in Conns |-> IF link[c] = "live" THEN "stale" ELSE link[c]]
      /\ tx' = [c \in Conns |-> "none"]
      /\ UNCHANGED <<permits, pool, unread, frames, lock, counter, commits>>
  BY DEF ServerRestarts
<1>2. link' \in [Conns -> {"closed", "live", "stale"}] /\ tx' \in [Conns -> {"none", "open", "failed"}]
  BY <1>0, <1>1 DEF SessionsTyped
<1>3. \A u \in Threads, i \in 1 .. 2 : Holds(u, i)' = Holds(u, i)
  BY <1>1 DEF Holds
<1>4. \A d \in Conns : (link'[d] = "closed" <=> link[d] = "closed") /\ tx'[d] = "none"
  BY <1>1
<1>5. HoldersApart' /\ PoolOK' /\ NoneLoose' /\ Slots' = Slots
  BY <1>0, <1>1, <1>3, <1>4, ConnsStay DEF SessionsTyped
<1>6. BlocksOK' /\ MutationsOK'
  BY <1>0, <1>1 DEF BlocksOK, MutationsOK, FrameOK
<1>7. CheckedIn'
  <2>. SUFFICES ASSUME NEW u \in Threads, NEW i \in DOMAIN frames[u], frames[u][i].at = "checkin"
                PROVE  tx'[frames[u][i].conn] = "none"
    BY <1>1 DEF CheckedIn
  <2>1. /\ DOMAIN frames[u] = 1 .. Len(frames[u])
        /\ \A k \in 1 .. Len(frames[u]) : frames[u][k] \in FrameRecord
    BY <1>0, FramesTyped DEF SessionsTyped
  <2>2. FrameOK(frames[u][i], i, Len(frames[u]))
    BY <1>0 DEF BlocksOK
  <2>3. frames[u][i].conn \in Conns
    BY <2>1, <2>2 DEF FrameOK, FrameRecord
  <2>. QED BY <1>4, <2>3
<1>8. SlotsOK' /\ NoLostUpdate' /\ SessionsTyped'
  BY <1>0, <1>1, <1>2, <1>5 DEF SlotsOK, NoLostUpdate, SessionsTyped
<1>. QED BY <1>5, <1>6, <1>7, <1>8 DEF SessionInv, ConnsOK

LEMMA SessionInvInit == SessionInit => SessionInv
<1>. SUFFICES ASSUME SessionInit PROVE SessionInv
  OBVIOUS
<1>1. /\ permits = MAX_ACTIVE_CONNECTIONS /\ pool = <<>> /\ link = [c \in Conns |-> "closed"]
      /\ tx = [c \in Conns |-> "none"] /\ unread = [c \in Conns |-> 0] /\ frames = [t \in Threads |-> <<>>]
      /\ lock = {} /\ counter = 0 /\ commits = 0
  BY DEF SessionInit
<1>2. \A t \in Threads : frames[t] = <<>> /\ Len(frames[t]) = 0 /\ DOMAIN frames[t] = {}
  BY <1>1
<1>3. \A t \in Threads, i \in 1 .. 2 : Holds(t, i) = NoConn
  BY <1>2 DEF Holds
<1>4. SessionsTyped
  <2>1. <<>> \in Seq(FrameRecord) /\ <<>> \in Seq(Conns)
    OBVIOUS
  <2>. QED BY <1>1, <2>1, SessionsAssumption DEF SessionsTyped
<1>5. BlocksOK /\ MutationsOK /\ CheckedIn
  BY <1>2 DEF BlocksOK, MutationsOK, CheckedIn
<1>6. HoldersApart /\ PoolOK /\ NoneLoose
  BY <1>1, <1>3 DEF HoldersApart, PoolOK, NoneLoose
<1>7. SlotsOK
  <2>1. Slots = {}
    BY <1>3 DEF Slots
  <2>. QED BY <1>1, <2>1, FS_EmptySet, SessionsAssumption DEF SlotsOK
<1>. QED BY <1>1, <1>4, <1>5, <1>6, <1>7 DEF SessionInv, ConnsOK, NoLostUpdate

LEMMA SessionInvariant == SessionSpec => []SessionInv
<1>1. SessionInv /\ [SessionNext]_sessionVars => SessionInv'
  <2>. SUFFICES ASSUME SessionInv, [SessionNext]_sessionVars PROVE SessionInv'
    OBVIOUS
  <2>1. CASE UNCHANGED sessionVars
    BY <2>1 DEF sessionVars, SessionInv, SessionsTyped, BlocksOK, FrameOK, MutationsOK, NoLostUpdate, ConnsOK,
                HoldersApart, PoolOK, NoneLoose, CheckedIn, SlotsOK, Slots, HeldNow, Holds
  <2>2. ASSUME NEW t \in Threads, Ask(t) \/ SessionStep(t) \/ CheckoutFails(t) PROVE SessionInv'
    BY <2>2, AskKeeps, EnterKeeps, CheckoutKeeps, StatementKeeps, CheckinKeeps, CheckoutFailsKeeps
       DEF SessionStep
  <2>. QED BY <2>1, <2>2, ServerRestartKeeps DEF SessionNext
<1>. QED BY <1>1, SessionInvInit, PTL DEF SessionSpec

\* transaction() and its pool: a connection waits in the pool with nobody holding it, no
\* transaction open on it and no answer unread, and only once.
THEOREM PooledConnectionsClean == SessionSpec => []PooledIsClean
<1>1. SessionInv => PooledIsClean
  <2>. SUFFICES ASSUME SessionInv, NEW i \in DOMAIN pool
                PROVE  /\ link[pool[i]] # "closed" /\ tx[pool[i]] = "none" /\ unread[pool[i]] = 0
                       /\ Held(pool[i]) = {}
                       /\ \A j \in DOMAIN pool : pool[j] = pool[i] => i = j
    BY DEF PooledIsClean
  <2>0. SessionsTyped /\ BlocksOK /\ PoolOK
    BY DEF SessionInv, ConnsOK
  <2>1. link[pool[i]] # "closed" /\ tx[pool[i]] = "none" /\ ~HeldNow(pool[i])
        /\ \A j \in DOMAIN pool : pool[j] = pool[i] => i = j
    BY <2>0 DEF PoolOK
  <2>2. pool[i] \in Conns
    BY <2>0 DEF SessionsTyped
  <2>3. unread[pool[i]] = 0
    BY <2>0, <2>2 DEF SessionsTyped
  <2>4. ASSUME NEW t \in Threads, NEW k \in DOMAIN frames[t], frames[t][k].conn = pool[i] PROVE FALSE
    <3>1. Len(frames[t]) \in Nat /\ DOMAIN frames[t] = 1 .. Len(frames[t]) /\ Len(frames[t]) <= 2
      BY <2>0, FramesTyped DEF SessionsTyped, BlocksOK
    <3>2. k \in 1 .. 2 /\ Holds(t, k) = frames[t][k].conn
      BY <3>1 DEF Holds
    <3>. QED BY <2>1, <2>4, <3>2 DEF HeldNow
  <2>. QED BY <2>1, <2>3, <2>4 DEF Held
<1>. QED BY <1>1, SessionInvariant, PTL

\* mutation() and its lock: the counter every mutation reads in one statement and writes in
\* another has counted each mutation the server committed.
THEOREM UpdatesKept == SessionSpec => []NoLostUpdate
<1>1. SessionInv => NoLostUpdate
  BY DEF SessionInv
<1>. QED BY <1>1, SessionInvariant, PTL

\* The budget of _ACTIVE: every permit is free or belongs to the one block that checked out
\* a connection, also when a checkout fails or a connection is dropped.
THEOREM PermitsExact == SessionSpec => []PermitsAreExact
<1>1. SessionInv => PermitsAreExact
  <2>. SUFFICES ASSUME SessionInv PROVE PermitsAreExact
    OBVIOUS
  <2>0. SessionsTyped /\ SlotsOK
    BY DEF SessionInv
  <2>1. ASSUME NEW t \in Threads, NEW i \in 1 .. 2
        PROVE  i \in DOMAIN frames[t] /\ frames[t][i].conn # NoConn <=> Holds(t, i) # NoConn
    <3>1. Len(frames[t]) \in Nat /\ DOMAIN frames[t] = 1 .. Len(frames[t])
      BY <2>0, FramesTyped DEF SessionsTyped
    <3>. QED BY <3>1 DEF Holds
  <2>2. {s \in Threads \X (1 .. 2) : s[2] \in DOMAIN frames[s[1]] /\ frames[s[1]][s[2]].conn # NoConn} = Slots
    BY <2>1 DEF Slots
  <2>. QED BY <2>0, <2>2 DEF PermitsAreExact, SlotsOK
<1>. QED BY <1>1, SessionInvariant, PTL

=============================================================================
