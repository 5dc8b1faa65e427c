---- MODULE Backup ----
(***************************************************************************)
(* `harness backup` and `harness restore-drill`: a copy of the database in a *)
(* directory that is rotated, its encrypted bundle on another host, and the   *)
(* receipts that say what has been proven about it.  Either job may die or    *)
(* give up between any two steps; a transfer may damage what it carries, and  *)
(* what the other host keeps may get lost.                                    *)
(*                                                                           *)
(* A backup is the number of the run that made it, which orders the names of  *)
(* files and artifacts as their timestamps do.  Time is counted in ticks and  *)
(* kept as ages, up to the largest that makes a difference; a job takes less  *)
(* than a tick.                                                               *)
(***************************************************************************)
EXTENDS Integers, FiniteSets

CONSTANTS
    MaxBackups,     \* bound: runs of the job
    Never,          \* no drill yet
    Keep,           \* operations.backup_keep
    BackupAge,      \* HealthThresholds: oldest receipt that is fresh,
    DrillAge,       \*   oldest drill that is fresh
    MaxFaults       \* bound: damaged transfers and losses

Number == 1 .. MaxBackups

Lost == MaxBackups + 1  \* a manifest that cannot be read

ASSUME BoundAssumption == MaxBackups \in Nat \ {0} /\ MaxFaults \in Nat
ASSUME NeverAssumption == Never \notin Nat
ASSUME SettingsAssumption == Keep \in Nat \ {0} /\ BackupAge \in Nat /\ DrillAge \in Nat

VARIABLES
    copy,       \* harness-<stamp>.sqlite: "none", "unproven" or "good"
    artifact,   \* harness-<identity>.backup on the other host: "none", "good",
                \* "damaged" on the way, "lost" later
    manifest,   \* latest.manifest on the other host: the backup it describes
    receipt,    \* the local receipt: the backup it describes
    age,        \* of created_at of each backup
    drilled,    \* age of completed_at of the drill result
    backup,     \* the backup job: where it stands, its number
    drill,      \* the drill job: where it stands, the backup it looks at
    newest,     \* history: the last backup whose local part was completed
    faults

vars == <<copy, artifact, manifest, receipt, age, drilled, backup, drill, newest, faults>>

local == <<copy, newest>>
remote == <<artifact, manifest>>
proof == <<receipt, age, drilled>>

Init ==
    /\ copy = [b \in Number |-> "none"]
    /\ artifact = [b \in Number |-> "none"]
    /\ manifest = 0
    /\ receipt = 0
    /\ age = [b \in Number |-> 0]
    /\ drilled = Never
    /\ backup = [pc |-> "idle", at |-> 0]
    /\ drill = [pc |-> "idle", at |-> 0]
    /\ newest = 0
    /\ faults = 0

\* Fault: each job takes a lock of its own.
LockFreeOwn(job) == job.pc = "idle"

\* Both jobs take the lock "backup" of the database, which a dead process does
\* not keep; without it they do nothing.
LockFree(job) == backup.pc = "idle" /\ drill.pc = "idle"

Step(pc) == backup' = [backup EXCEPT !.pc = pc]

----------------------------------------------------------------------------
(* create_verified_backup                                                  *)

\* The database is copied to a new file.
Copy ==
    /\ LockFree(backup)
    /\ backup.at < MaxBackups
    /\ backup' = [pc |-> "copied", at |-> backup.at + 1]
    /\ copy' = [copy EXCEPT ![backup.at + 1] = "unproven"]
    /\ UNCHANGED <<remote, proof, drill, newest, faults>>

\* verify_backup restores it, or fails and the file is removed.
Verify ==
    /\ backup.pc = "copied"
    /\ \/ copy' = [copy EXCEPT ![backup.at] = "good"] /\ Step("verified")
       \/ copy' = [copy EXCEPT ![backup.at] = "none"] /\ Step("idle")
    /\ UNCHANGED <<remote, proof, drill, newest, faults>>

Files == {b \in Number : copy[b] # "none"}

\* Fault: files of the oldest backups are kept.
RotatedOldest ==
    {b \in Files : Cardinality({c \in Files : c < b}) < Keep}

\* Fault: one file more is kept.
RotatedOneMore == {b \in Files : Cardinality({c \in Files : c > b}) <= Keep}

\* The files that are kept: the last by name, whatever is in them.
Rotated == {b \in Files : Cardinality({c \in Files : c > b}) < Keep}

Rotate ==
    /\ backup.pc = "verified"
    /\ copy' = [b \in Number |-> IF b \in Rotated THEN copy[b] ELSE "none"]
    /\ newest' = backup.at
    /\ Step("rotated")
    /\ UNCHANGED <<remote, proof, drill, faults>>

----------------------------------------------------------------------------
(* create_offsite_backup                                                   *)

\* SSHStore.upload puts a file next to the final name and renames it; what
\* happens before that cannot be told from no upload.
Upload ==
    /\ backup.pc = "rotated"
    /\ copy[backup.at] = "good"
    /\ \/ artifact' = [artifact EXCEPT ![backup.at] = "good"] /\ UNCHANGED faults
       \/ /\ faults < MaxFaults
          /\ artifact' = [artifact EXCEPT ![backup.at] = "damaged"]
          /\ faults' = faults + 1
    /\ Step("uploaded")
    /\ UNCHANGED <<local, manifest, proof, drill>>

\* Fault: the upload is believed.
ReadBackBlind(b) == artifact[b] # "none"

\* The artifact is read back, decrypted and restored.
ReadBack(b) == artifact[b] = "good"

\* Then the manifest is written, and dated.
List ==
    /\ backup.pc = "uploaded"
    /\ ReadBack(backup.at)
    /\ age' = [age EXCEPT ![backup.at] = 0]
    /\ \/ manifest' = backup.at /\ UNCHANGED faults
       \/ faults < MaxFaults /\ manifest' = Lost /\ faults' = faults + 1
    /\ Step("listed")
    /\ UNCHANGED <<local, artifact, receipt, drilled, drill>>

\* Fault: the receipt is saved once the artifact is read back.
ListedFirst == backup.pc = "uploaded" /\ ReadBack(backup.at)

Listed == backup.pc = "listed" /\ manifest = backup.at

\* The manifest is read back, and the receipt is saved last.
Confirm ==
    /\ Listed
    /\ receipt' = backup.at
    /\ Step("idle")
    /\ UNCHANGED <<local, remote, age, drilled, drill, faults>>

\* A check or transfer fails, or the process dies.
GiveUp ==
    /\ backup.pc # "idle"
    /\ Step("idle")
    /\ UNCHANGED <<local, remote, proof, drill, faults>>

----------------------------------------------------------------------------
(* restore_drill                                                           *)

\* The manifest says which artifact is the latest.
Find ==
    /\ LockFree(drill)
    /\ manifest \in Number
    /\ drill' = [pc |-> "found", at |-> manifest]
    /\ UNCHANGED <<local, remote, proof, backup, faults>>

\* The artifact is what the manifest says, and the manifest becomes the receipt.
Restore ==
    /\ drill.pc = "found"
    /\ ReadBack(drill.at)
    /\ receipt' = drill.at
    /\ drill' = [drill EXCEPT !.pc = "restored"]
    /\ UNCHANGED <<local, remote, age, drilled, backup, faults>>

\* The result of the drill is saved after that.
Attest ==
    /\ drill.pc = "restored"
    /\ drilled' = 0
    /\ drill' = [pc |-> "idle", at |-> 0]
    /\ UNCHANGED <<local, remote, receipt, age, backup, faults>>

Fail ==
    /\ drill.pc # "idle"
    /\ drill' = [pc |-> "idle", at |-> 0]
    /\ UNCHANGED <<local, remote, proof, backup, faults>>

----------------------------------------------------------------------------
(* The world                                                               *)

Idle == backup.pc = "idle" /\ drill.pc = "idle"

Sum(a, most) == IF a < most THEN a + 1 ELSE most

\* One tick beyond the limit is as old as anything gets.
Tick ==
    /\ Idle
    /\ age' = [b \in Number |-> IF b <= backup.at THEN Sum(age[b], BackupAge + 1) ELSE 0]
    /\ drilled' = IF drilled = Never THEN Never ELSE Sum(drilled, DrillAge + 1)
    /\ UNCHANGED <<local, remote, receipt, backup, drill, faults>>

Lose(b) ==
    /\ faults < MaxFaults
    /\ artifact[b] = "good"
    /\ artifact' = [artifact EXCEPT ![b] = "lost"]
    /\ faults' = faults + 1
    /\ UNCHANGED <<local, manifest, proof, backup, drill>>

\* Fault: that there was a drill is enough.
DrillFreshOnce == drilled # Never

\* The checks of the doctor that read receipts.
BackupFresh == receipt # 0 /\ age[receipt] <= BackupAge
DrillFresh == drilled # Never /\ drilled <= DrillAge

Jobs ==
    \/ Copy \/ Verify \/ Rotate \/ Upload \/ List \/ Confirm \/ GiveUp
    \/ Find \/ Restore \/ Attest \/ Fail

Next == Jobs \/ Tick \/ \E b \in Number : Lose(b)

Spec == Init /\ [][Next]_vars

----------------------------------------------------------------------------
(* Properties                                                              *)

TypeOK ==
    /\ copy \in [Number -> {"none", "unproven", "good"}]
    /\ artifact \in [Number -> {"none", "good", "damaged", "lost"}]
    /\ manifest \in 0 .. Lost
    /\ receipt \in 0 .. MaxBackups
    /\ age \in [Number -> 0 .. BackupAge + 1]
    /\ drilled \in 0 .. DrillAge + 1 \cup {Never}
    /\ backup \in [pc : {"idle", "copied", "verified", "rotated", "uploaded", "listed"},
                   at : 0 .. MaxBackups]
    /\ drill \in [pc : {"idle", "found", "restored"}, at : 0 .. MaxBackups]
    /\ newest \in 0 .. MaxBackups
    /\ faults \in 0 .. MaxFaults
    /\ backup.pc \in {"rotated", "uploaded", "listed"} => Cardinality(Files) <= Keep

\* Rotation never takes the last backup that was completed, whatever files runs
\* that failed have left behind.
NewestIsKept == newest # 0 => copy[newest] = "good"

\* What the manifest or the receipt names was read back and restored once: it
\* is there unless it was lost since.
NamedWasProven ==
    \A b \in {manifest, receipt} \cap Number : artifact[b] \in {"good", "lost"}

\* A receipt is no promise without the manifest: whoever has lost this host and
\* everything on it finds the backup of the receipt, or a later one.
ReceiptIsListed == manifest \in Number => receipt <= manifest

\* The receipt never goes back to an older backup.
ReceiptNeverGoesBack == [][receipt' >= receipt]_vars

\* Whoever has only the other host and the key gets the database back.
Restorable == manifest \in Number /\ artifact[manifest] = "good"

====
