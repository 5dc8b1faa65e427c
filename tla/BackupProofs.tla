---- MODULE BackupProofs ----
(***************************************************************************)
(* Theorems about the jobs of Operations, for any number of backups and      *)
(* faults and any settings.                                                  *)
(***************************************************************************)
EXTENDS Operations, FiniteSetTheorems, WellFoundedInduction, TLAPS

----------------------------------------------------------------------------
(* The inductive invariant                                                 *)

\* What is needed of the types.
Shape ==
    /\ copy \in [Number -> {"none", "unproven", "good"}]
    /\ artifact \in [Number -> {"none", "good", "damaged", "lost"}]
    /\ manifest \in 0 .. Lost
    /\ receipt \in 0 .. MaxBackups
    /\ backup \in [pc : {"idle", "copied", "verified", "rotated", "uploaded", "listed"},
                   at : 0 .. MaxBackups]
    /\ drill \in [pc : {"idle", "found", "restored"}, at : 0 .. MaxBackups]
    /\ newest \in 0 .. MaxBackups

\* Until a run rotates, the last completed backup is one before its own, which
\* is the last there is.
Local ==
    /\ newest <= backup.at
    /\ backup.pc # "idle" => backup.at >= 1
    /\ backup.pc \in {"copied", "verified"} => newest < backup.at
    /\ backup.pc = "verified" => copy[backup.at] = "good"
    /\ \A c \in Number : c > backup.at => copy[c] = "none"

\* Until a run lists its backup, nothing names it, and a drill looks at what the
\* manifest names, for no run goes on beside it.
Remote ==
    /\ backup.pc = "idle" \/ drill.pc = "idle"
    /\ receipt <= backup.at
    /\ manifest <= backup.at \/ manifest = Lost
    /\ backup.pc \in {"copied", "verified", "rotated", "uploaded"} =>
        receipt < backup.at /\ manifest # backup.at
    /\ drill.pc = "found" => drill.at = manifest /\ manifest \in Number

Inv == Shape /\ Local /\ Remote /\ NewestIsKept /\ NamedWasProven /\ ReceiptIsListed

LEMMA NumberFacts ==
    /\ MaxBackups \in Nat /\ MaxBackups >= 1 /\ Lost = MaxBackups + 1
    /\ Number = {n \in Nat : 1 <= n /\ n <= MaxBackups}
    /\ Keep \in Nat /\ Keep >= 1
BY BoundAssumption, SettingsAssumption DEF Lost, Number

LEMMA InvInit == Init => Inv
<1> SUFFICES ASSUME Init PROVE Inv
  OBVIOUS
<1>1. Shape
  BY NumberFacts DEF Init, Shape
<1>2. Local
  BY NumberFacts DEF Init, Local
<1>3. Remote
  BY NumberFacts DEF Init, Remote, Idle
<1>4. NewestIsKept /\ NamedWasProven /\ ReceiptIsListed
  BY NumberFacts DEF Init, NewestIsKept, NamedWasProven, ReceiptIsListed
<1> QED
  BY <1>1, <1>2, <1>3, <1>4 DEF Inv

----------------------------------------------------------------------------
(* The backup job                                                          *)

LEMMA CopyKeeps == ASSUME Inv, Copy PROVE Inv'
<1> USE NumberFacts
<1>1. backup.at + 1 \in Number /\ backup'.pc = "copied" /\ backup'.at = backup.at + 1
  BY DEF Inv, Shape, Copy
<1>2. Shape'
  <2>1. copy' \in [Number -> {"none", "unproven", "good"}]
    BY DEF Inv, Shape, Copy
  <2>2. backup' \in [pc : {"idle", "copied", "verified", "rotated", "uploaded", "listed"},
                     at : 0 .. MaxBackups]
    BY <1>1 DEF Inv, Shape, Copy
  <2> QED
    BY <2>1, <2>2 DEF Inv, Shape, Copy, remote, proof
<1>3. Local'
  BY <1>1 DEF Inv, Shape, Local, Copy
<1>4. Remote'
  BY <1>1 DEF Inv, Shape, Remote, Copy, LockFree, Idle, remote, proof
<1>5. NewestIsKept'
  BY <1>1 DEF Inv, Shape, Local, NewestIsKept, Copy
<1>6. NamedWasProven' /\ ReceiptIsListed'
  BY DEF Inv, NamedWasProven, ReceiptIsListed, Copy, remote, proof
<1> QED
  BY <1>2, <1>3, <1>4, <1>5, <1>6 DEF Inv

LEMMA VerifyKeeps == ASSUME Inv, Verify PROVE Inv'
<1> USE NumberFacts
<1>1. /\ backup'.pc \in {"verified", "idle"} /\ backup'.at = backup.at
      /\ backup.at \in Number
      /\ backup' \in [pc : {"idle", "copied", "verified", "rotated", "uploaded", "listed"},
                      at : 0 .. MaxBackups]
  BY DEF Inv, Shape, Local, Verify, Step
<1>2. /\ copy' \in [Number -> {"none", "unproven", "good"}]
      /\ \A c \in Number : c # backup.at => copy'[c] = copy[c]
      /\ backup'.pc = "verified" => copy'[backup.at] = "good"
  BY <1>1 DEF Inv, Shape, Verify, Step
<1>3. UNCHANGED <<artifact, manifest, receipt, drill, newest>>
  BY DEF Verify, remote, proof
<1>4. Shape'
  BY <1>1, <1>2, <1>3 DEF Inv, Shape
<1>5. Local'
  BY <1>1, <1>2, <1>3 DEF Inv, Shape, Local, Verify
<1>6. Remote'
  BY <1>1, <1>3 DEF Inv, Shape, Remote, Idle, Verify
<1>7. NewestIsKept'
  BY <1>1, <1>2, <1>3 DEF Inv, Shape, Local, NewestIsKept, Verify
<1>8. NamedWasProven' /\ ReceiptIsListed'
  BY <1>3 DEF Inv, NamedWasProven, ReceiptIsListed
<1> QED
  BY <1>4, <1>5, <1>6, <1>7, <1>8 DEF Inv

\* The file of this run is the last by name, so it is never among those removed.
LEMMA OwnIsRotated == ASSUME Inv, backup.pc = "verified" PROVE backup.at \in Rotated
<1> USE NumberFacts
<1>1. backup.at \in Number
  BY DEF Inv, Shape, Local
<1>2. backup.at \in Files
  BY <1>1 DEF Inv, Local, Files
<1>3. {c \in Files : c > backup.at} = {}
  BY <1>1 DEF Inv, Local, Files
<1>4. Cardinality({c \in Files : c > backup.at}) = 0
  BY <1>3, FS_EmptySet
<1> QED
  BY <1>2, <1>4 DEF Rotated

LEMMA RotateKeeps == ASSUME Inv, Rotate PROVE Inv'
<1> USE NumberFacts
<1>1. /\ backup'.pc = "rotated" /\ backup'.at = backup.at
      /\ backup.at \in Number
      /\ backup' \in [pc : {"idle", "copied", "verified", "rotated", "uploaded", "listed"},
                      at : 0 .. MaxBackups]
  BY DEF Inv, Shape, Local, Rotate, Step
<1>2. backup.at \in Rotated
  BY OwnIsRotated DEF Rotate
<1>3. /\ copy' \in [Number -> {"none", "unproven", "good"}]
      /\ \A c \in Number : copy'[c] \in {copy[c], "none"}
      /\ copy'[backup.at] = "good"
  <2> HIDE DEF Rotated
  <2>1. copy' = [c \in Number |-> IF c \in Rotated THEN copy[c] ELSE "none"]
    BY DEF Rotate
  <2>2. copy[backup.at] = "good"
    BY DEF Inv, Local, Rotate
  <2> QED
    BY <1>1, <1>2, <2>1, <2>2 DEF Inv, Shape
<1>4. UNCHANGED <<artifact, manifest, receipt, drill>> /\ newest' = backup.at
  BY DEF Rotate, remote, proof
<1>5. Shape'
  BY <1>1, <1>3, <1>4 DEF Inv, Shape
<1>6. Local'
  BY <1>1, <1>3, <1>4 DEF Inv, Shape, Local
<1>7. Remote'
  BY <1>1, <1>4 DEF Inv, Shape, Remote, Idle, Rotate
<1>8. NewestIsKept'
  BY <1>3, <1>4 DEF NewestIsKept
<1>9. NamedWasProven' /\ ReceiptIsListed'
  BY <1>4 DEF Inv, NamedWasProven, ReceiptIsListed
<1> QED
  BY <1>5, <1>6, <1>7, <1>8, <1>9 DEF Inv

LEMMA UploadKeeps == ASSUME Inv, Upload PROVE Inv'
<1> USE NumberFacts
<1>1. /\ backup'.pc = "uploaded" /\ backup'.at = backup.at
      /\ backup.at \in Number
      /\ backup' \in [pc : {"idle", "copied", "verified", "rotated", "uploaded", "listed"},
                      at : 0 .. MaxBackups]
  BY DEF Inv, Shape, Local, Upload, Step
<1>2. /\ artifact' \in [Number -> {"none", "good", "damaged", "lost"}]
      /\ \A b \in Number : b # backup.at => artifact'[b] = artifact[b]
  BY <1>1 DEF Inv, Shape, Upload
<1>3. UNCHANGED <<copy, manifest, receipt, drill, newest>>
  BY DEF Upload, local, proof
<1>4. Shape'
  BY <1>1, <1>2, <1>3 DEF Inv, Shape
<1>5. Local'
  BY <1>1, <1>3 DEF Inv, Shape, Local, Upload
<1>6. Remote'
  BY <1>1, <1>3 DEF Inv, Shape, Remote, Idle, Upload
<1>7. backup.at \notin {manifest, receipt}
  BY <1>1 DEF Inv, Shape, Remote, Upload
<1>8. NamedWasProven'
  BY <1>2, <1>3, <1>7 DEF Inv, NamedWasProven
<1>9. NewestIsKept' /\ ReceiptIsListed'
  BY <1>3 DEF Inv, NewestIsKept, ReceiptIsListed
<1> QED
  BY <1>4, <1>5, <1>6, <1>8, <1>9 DEF Inv

LEMMA ListKeeps == ASSUME Inv, List PROVE Inv'
<1> USE NumberFacts
<1>1. /\ backup'.pc = "listed" /\ backup'.at = backup.at
      /\ backup.at \in Number
      /\ backup' \in [pc : {"idle", "copied", "verified", "rotated", "uploaded", "listed"},
                      at : 0 .. MaxBackups]
  BY DEF Inv, Shape, Local, List, Step
<1>2. manifest' \in {backup.at, Lost} /\ artifact[backup.at] = "good"
  BY DEF List, ReadBack
<1>3. UNCHANGED <<copy, artifact, receipt, drill, newest>>
  BY DEF List, local
<1>4. Shape'
  BY <1>1, <1>2, <1>3 DEF Inv, Shape
<1>5. Local'
  BY <1>1, <1>3 DEF Inv, Shape, Local, List
<1>6. Remote'
  BY <1>1, <1>2, <1>3 DEF Inv, Shape, Remote, Idle, List
<1>7. NamedWasProven'
  BY <1>1, <1>2, <1>3 DEF Inv, NamedWasProven
<1>8. ReceiptIsListed'
  BY <1>1, <1>2, <1>3 DEF Inv, Shape, Remote, ReceiptIsListed
<1>9. NewestIsKept'
  BY <1>3 DEF Inv, NewestIsKept
<1> QED
  BY <1>4, <1>5, <1>6, <1>7, <1>8, <1>9 DEF Inv

LEMMA ConfirmKeeps == ASSUME Inv, Confirm PROVE Inv' /\ receipt' >= receipt
<1> USE NumberFacts
<1>1. /\ backup.pc = "listed" /\ backup'.pc = "idle" /\ backup'.at = backup.at
      /\ backup.at \in Number
      /\ backup' \in [pc : {"idle", "copied", "verified", "rotated", "uploaded", "listed"},
                      at : 0 .. MaxBackups]
  BY DEF Inv, Shape, Local, Confirm, Listed, Step
<1>2. manifest = backup.at /\ receipt' = backup.at
  BY DEF Confirm, Listed
<1>3. UNCHANGED <<copy, artifact, manifest, drill, newest>>
  BY DEF Confirm, local, remote
<1>4. Shape'
  BY <1>1, <1>2, <1>3 DEF Inv, Shape
<1>5. Local'
  BY <1>1, <1>3 DEF Inv, Shape, Local
<1>6. Remote'
  BY <1>1, <1>2, <1>3 DEF Inv, Shape, Remote, Idle
<1>7. NamedWasProven' /\ ReceiptIsListed'
  BY <1>1, <1>2, <1>3 DEF Inv, NamedWasProven, ReceiptIsListed
<1>8. NewestIsKept'
  BY <1>3 DEF Inv, NewestIsKept
<1>9. receipt' >= receipt
  BY <1>1, <1>2 DEF Inv, Shape, Remote
<1> QED
  BY <1>4, <1>5, <1>6, <1>7, <1>8, <1>9 DEF Inv

LEMMA GiveUpKeeps == ASSUME Inv, GiveUp PROVE Inv'
<1> USE NumberFacts
<1>1. /\ backup'.pc = "idle" /\ backup'.at = backup.at
      /\ backup' \in [pc : {"idle", "copied", "verified", "rotated", "uploaded", "listed"},
                      at : 0 .. MaxBackups]
  BY DEF Inv, Shape, GiveUp, Step
<1>2. UNCHANGED <<copy, artifact, manifest, receipt, drill, newest>>
  BY DEF GiveUp, local, remote, proof
<1>3. Shape'
  BY <1>1, <1>2 DEF Inv, Shape
<1>4. Local' /\ Remote'
  BY <1>1, <1>2 DEF Inv, Local, Remote, Idle
<1>5. NewestIsKept' /\ NamedWasProven' /\ ReceiptIsListed'
  BY <1>2 DEF Inv, NewestIsKept, NamedWasProven, ReceiptIsListed
<1> QED
  BY <1>3, <1>4, <1>5 DEF Inv

----------------------------------------------------------------------------
(* The drill and the world                                                 *)

\* What the drill does beside moving on.
LEMMA DrillKeeps ==
    ASSUME Inv, UNCHANGED <<copy, artifact, manifest, receipt, backup, newest>>,
           drill' \in [pc : {"idle", "found", "restored"}, at : 0 .. MaxBackups],
           backup.pc = "idle" \/ drill'.pc = "idle",
           drill'.pc = "found" => drill'.at = manifest /\ manifest \in Number
    PROVE  Inv'
<1>1. Shape'
  BY DEF Inv, Shape
<1>2. Local'
  BY DEF Inv, Local
<1>3. Remote'
  BY DEF Inv, Remote, Idle
<1>4. NewestIsKept' /\ NamedWasProven' /\ ReceiptIsListed'
  BY DEF Inv, NewestIsKept, NamedWasProven, ReceiptIsListed
<1> QED
  BY <1>1, <1>2, <1>3, <1>4 DEF Inv

LEMMA RestoreKeeps == ASSUME Inv, Restore PROVE Inv' /\ receipt' >= receipt
<1> USE NumberFacts
<1>1. /\ drill'.pc = "restored" /\ drill'.at = drill.at
      /\ drill' \in [pc : {"idle", "found", "restored"}, at : 0 .. MaxBackups]
  BY DEF Inv, Shape, Restore
<1>2. /\ drill.at = manifest /\ manifest \in Number /\ receipt' = manifest
      /\ backup.pc = "idle"
  BY DEF Inv, Remote, Restore, Idle
<1>3. UNCHANGED <<copy, artifact, manifest, backup, newest>>
  BY DEF Restore, local, remote
<1>4. Shape'
  BY <1>1, <1>2, <1>3 DEF Inv, Shape
<1>5. Local'
  BY <1>3 DEF Inv, Local
<1>6. Remote'
  BY <1>1, <1>2, <1>3 DEF Inv, Shape, Remote, Idle
<1>7. NamedWasProven' /\ ReceiptIsListed'
  BY <1>2, <1>3 DEF Inv, NamedWasProven, ReceiptIsListed
<1>8. NewestIsKept'
  BY <1>3 DEF Inv, NewestIsKept
<1>9. receipt' >= receipt
  BY <1>2 DEF Inv, ReceiptIsListed, Shape
<1> QED
  BY <1>4, <1>5, <1>6, <1>7, <1>8, <1>9 DEF Inv

LEMMA LoseKeeps == ASSUME Inv, NEW b \in Number, Lose(b) PROVE Inv'
<1>1. /\ artifact' \in [Number -> {"none", "good", "damaged", "lost"}]
      /\ \A c \in Number : artifact'[c] = artifact[c] \/ artifact'[c] = "lost"
  BY DEF Inv, Shape, Lose
<1>2. UNCHANGED <<copy, manifest, receipt, backup, drill, newest>>
  BY DEF Lose, local, proof
<1>3. Shape'
  BY <1>1, <1>2 DEF Inv, Shape
<1>4. Local' /\ Remote'
  BY <1>2 DEF Inv, Local, Remote, Idle
<1>5. NewestIsKept' /\ NamedWasProven' /\ ReceiptIsListed'
  BY <1>1, <1>2 DEF Inv, NewestIsKept, NamedWasProven, ReceiptIsListed
<1> QED
  BY <1>3, <1>4, <1>5 DEF Inv

\* Every step keeps the invariant and never takes the receipt back.
LEMMA StepKeeps == ASSUME Inv, [Next]_vars PROVE Inv' /\ receipt' >= receipt
<1>1. receipt \in Int
  BY NumberFacts DEF Inv, Shape
<1>2. CASE Copy
  BY <1>1, <1>2, CopyKeeps DEF Copy, proof
<1>3. CASE Verify
  BY <1>1, <1>3, VerifyKeeps DEF Verify, proof
<1>4. CASE Rotate
  BY <1>1, <1>4, RotateKeeps DEF Rotate, proof
<1>5. CASE Upload
  BY <1>1, <1>5, UploadKeeps DEF Upload, proof
<1>6. CASE List
  BY <1>1, <1>6, ListKeeps DEF List
<1>7. CASE Confirm
  BY <1>7, ConfirmKeeps
<1>8. CASE GiveUp
  BY <1>1, <1>8, GiveUpKeeps DEF GiveUp, proof
<1>9. CASE Find
  <2>1. drill' \in [pc : {"idle", "found", "restored"}, at : 0 .. MaxBackups]
    BY <1>9, NumberFacts DEF Find
  <2>2. UNCHANGED <<copy, artifact, manifest, receipt, backup, newest>>
    BY <1>9 DEF Find, local, remote, proof
  <2>3. backup.pc = "idle" /\ drill'.at = manifest /\ manifest \in Number
    BY <1>9 DEF Find, LockFree
  <2> QED
    BY <1>1, <2>1, <2>2, <2>3, DrillKeeps
<1>10. CASE Restore
  BY <1>10, RestoreKeeps
<1>11. CASE Attest \/ Fail
  <2>1. drill' \in [pc : {"idle", "found", "restored"}, at : 0 .. MaxBackups]
    BY <1>11, NumberFacts DEF Attest, Fail
  <2>2. UNCHANGED <<copy, artifact, manifest, receipt, backup, newest>>
    BY <1>11 DEF Attest, Fail, local, remote, proof
  <2>3. drill'.pc = "idle"
    BY <1>11 DEF Attest, Fail
  <2> QED
    BY <1>1, <2>1, <2>2, <2>3, DrillKeeps
<1>12. CASE Tick \/ UNCHANGED vars
  <2>1. UNCHANGED <<copy, artifact, manifest, receipt, backup, drill, newest>>
    BY <1>12 DEF Tick, vars, local, remote
  <2>2. Inv'
    BY <2>1 DEF Inv, Shape, Local, Remote, Idle, NewestIsKept, NamedWasProven, ReceiptIsListed
  <2> QED
    BY <1>1, <2>1, <2>2
<1>13. CASE \E b \in Number : Lose(b)
  <2>1. PICK b \in Number : Lose(b)
    BY <1>13
  <2>2. Inv'
    BY <2>1, LoseKeeps
  <2>3. UNCHANGED receipt
    BY <2>1 DEF Lose, proof
  <2> QED
    BY <1>1, <2>2, <2>3
<1> QED
  BY <1>2, <1>3, <1>4, <1>5, <1>6, <1>7, <1>8, <1>9, <1>10, <1>11, <1>12, <1>13
     DEF Next, Jobs

----------------------------------------------------------------------------
(* The rest of the type invariant                                          *)

Above(files, b) == {c \in files : c > b}

Less == {ss \in Nat \X Nat : ss[1] < ss[2]}

LEMMA SmallestOf ==
    ASSUME NEW S \in SUBSET Nat, S # {}
    PROVE  \E m \in S : \A n \in S : m <= n
<1>1. IsWellFoundedOn(Less, Nat)
  BY NatLessThanWellFounded DEF OpToRel, Less
<1>2. PICK m \in S : \A n \in S : ~ (<<n, m>> \in Less)
  BY <1>1, WFMin
<1>3. \A n \in S : ~ (n < m)
  BY <1>2 DEF Less
<1> QED
  BY <1>3

\* Of any set of files no more are kept than the setting says: above the first
\* that is kept there are fewer.
LEMMA FewAreKept ==
    ASSUME NEW files \in SUBSET Number, NEW k \in Nat \ {0}
    PROVE  /\ IsFiniteSet({b \in files : Cardinality(Above(files, b)) < k})
           /\ Cardinality({b \in files : Cardinality(Above(files, b)) < k}) <= k
<1> DEFINE kept == {b \in files : Cardinality(Above(files, b)) < k}
<1>1. IsFiniteSet(files) /\ files \subseteq Nat
  <2>1. MaxBackups \in Nat
    BY BoundAssumption
  <2>2. IsFiniteSet(Number)
    BY <2>1, FS_Interval DEF Number
  <2>3. IsFiniteSet(files)
    BY <2>2, FS_Subset
  <2>4. Number \subseteq Nat
    BY <2>1 DEF Number
  <2> QED
    BY <2>3, <2>4
<1>2. IsFiniteSet(kept) /\ kept \subseteq Nat
  BY <1>1, FS_Subset
<1>3. CASE kept = {}
  BY <1>2, <1>3, FS_EmptySet
<1>4. CASE kept # {}
  <2>1. PICK m \in kept : \A b \in kept : m <= b
    BY <1>2, <1>4, SmallestOf
  <2>2. kept \ {m} \subseteq Above(files, m)
    BY <1>2, <2>1 DEF Above
  <2>3. IsFiniteSet(Above(files, m))
    BY <1>1, FS_Subset DEF Above
  <2>4. Cardinality(kept \ {m}) <= Cardinality(Above(files, m))
    BY <2>2, <2>3, FS_Subset
  <2>5. Cardinality(kept \ {m}) = Cardinality(kept) - 1
    BY <1>2, <2>1, FS_RemoveElement
  <2>6. Cardinality(Above(files, m)) < k
    BY <2>1
  <2>7. Cardinality(kept) \in Nat /\ Cardinality(Above(files, m)) \in Nat
    BY <1>2, <2>3, FS_CardinalityType
  <2> QED
    BY <1>2, <2>4, <2>5, <2>6, <2>7
<1> QED
  BY <1>3, <1>4

Capped == backup.pc \in {"rotated", "uploaded", "listed"} => Cardinality(Files) <= Keep

Counters ==
    /\ age \in [Number -> 0 .. BackupAge + 1]
    /\ drilled \in 0 .. DrillAge + 1 \cup {Never}
    /\ faults \in 0 .. MaxFaults

LEMMA CappedStep == ASSUME Inv, Capped, [Next]_vars PROVE Capped'
<1>1. CASE Rotate
  <2> DEFINE kept == {b \in Files : Cardinality(Above(Files, b)) < Keep}
  <2>1. Rotated = kept
    BY DEF Rotated, Above
  <2>2. Files \in SUBSET Number /\ Keep \in Nat \ {0}
    BY SettingsAssumption DEF Files
  <2>3. IsFiniteSet(kept) /\ Cardinality(kept) <= Keep
    BY <2>2, FewAreKept
  <2>4. Files' \subseteq Rotated
    <3> HIDE DEF Rotated
    <3>1. copy' = [b \in Number |-> IF b \in Rotated THEN copy[b] ELSE "none"]
      BY <1>1 DEF Rotate
    <3> QED
      BY <3>1 DEF Files
  <2>5. Cardinality(Files') <= Cardinality(kept)
    BY <2>1, <2>3, <2>4, FS_Subset
  <2>6. IsFiniteSet(Files')
    BY <2>1, <2>3, <2>4, FS_Subset
  <2>7. Cardinality(Files') \in Nat /\ Cardinality(kept) \in Nat
    BY <2>3, <2>6, FS_CardinalityType
  <2>8. Cardinality(Files') <= Keep
    BY <2>3, <2>5, <2>7, NumberFacts
  <2> QED
    BY <2>8 DEF Capped
<1>2. ASSUME UNCHANGED copy, backup.pc \in {"rotated", "uploaded"} \/ UNCHANGED backup
      PROVE  Capped'
  <2>1. Files' = Files
    BY <1>2 DEF Files
  <2> QED
    BY <1>2, <2>1 DEF Capped
<1>3. ASSUME backup'.pc \in {"idle", "copied", "verified"}
      PROVE  Capped'
  BY <1>3 DEF Capped
<1>4. CASE Copy \/ Verify \/ Confirm \/ GiveUp
  <2>1. backup'.pc \in {"idle", "copied", "verified"}
    BY <1>4 DEF Inv, Shape, Copy, Verify, Confirm, GiveUp, Step
  <2> QED
    BY <2>1, <1>3
<1>5. CASE Upload \/ List
  BY <1>2, <1>5 DEF Upload, List, local
<1>6. CASE Find \/ Restore \/ Attest \/ Fail \/ Tick \/ (\E b \in Number : Lose(b))
            \/ UNCHANGED vars
  <2>1. UNCHANGED <<copy, backup>>
    BY <1>6 DEF Find, Restore, Attest, Fail, Tick, Lose, vars, local
  <2> QED
    BY <2>1, <1>2
<1> QED
  BY <1>1, <1>4, <1>5, <1>6 DEF Next, Jobs

LEMMA CountersStep == ASSUME Inv, Counters, [Next]_vars PROVE Counters'
<1> USE NumberFacts
<1>1. /\ BackupAge \in Nat /\ DrillAge \in Nat /\ MaxFaults \in Nat
      /\ \A n \in 0 .. BackupAge + 1 : Sum(n, BackupAge + 1) \in 0 .. BackupAge + 1
      /\ \A n \in 0 .. DrillAge + 1 : Sum(n, DrillAge + 1) \in 0 .. DrillAge + 1
  BY SettingsAssumption, BoundAssumption DEF Sum
<1>2. CASE Tick
  <2>1. age' \in [Number -> 0 .. BackupAge + 1]
    <3>1. \A b \in Number : age[b] \in 0 .. BackupAge + 1
      BY DEF Counters
    <3>2. age' = [b \in Number |-> IF b <= backup.at THEN Sum(age[b], BackupAge + 1) ELSE 0]
      BY <1>2 DEF Tick
    <3>3. 0 \in 0 .. BackupAge + 1
      BY <1>1
    <3> HIDE DEF Sum
    <3> QED
      BY <1>1, <3>1, <3>2, <3>3
  <2>2. drilled' \in 0 .. DrillAge + 1 \cup {Never}
    BY <1>1, <1>2 DEF Counters, Tick
  <2> QED
    BY <1>2, <2>1, <2>2 DEF Counters, Tick
<1>3. ASSUME age' \in {age, [age EXCEPT ![backup.at] = 0]}, drilled' \in {drilled, 0},
             faults' = faults \/ (faults < MaxFaults /\ faults' = faults + 1)
      PROVE  Counters'
  BY <1>1, <1>3 DEF Counters
<1>4. CASE Copy \/ Verify \/ Rotate \/ Confirm \/ GiveUp \/ Find \/ Restore \/ Attest
            \/ Fail \/ UNCHANGED vars
  <2>1. age' = age /\ drilled' \in {drilled, 0} /\ faults' = faults
    BY <1>4 DEF Copy, Verify, Rotate, Confirm, GiveUp, Find, Restore, Attest, Fail, vars,
                proof
  <2> QED
    BY <2>1, <1>3
<1>5. CASE Upload
  BY <1>3, <1>5 DEF Upload, proof
<1>6. CASE List
  BY <1>3, <1>6 DEF List
<1>7. CASE \E b \in Number : Lose(b)
  BY <1>3, <1>7 DEF Lose, proof
<1> QED
  BY <1>2, <1>4, <1>5, <1>6, <1>7 DEF Next, Jobs

----------------------------------------------------------------------------
(* The theorems                                                            *)

\* Nothing `alert` does is a step of the jobs.
LEMMA SystemStep == [SystemNext]_system => [Next]_vars
BY DEF SystemNext, system, Beside, Look, Tell

LEMMA Invariant == SystemSpec => []Inv
<1>1. SystemInit => Inv
  BY InvInit DEF SystemInit
<1>2. Inv /\ [SystemNext]_system => Inv'
  BY StepKeeps, SystemStep
<1> QED
  BY <1>1, <1>2, PTL DEF SystemSpec

\* Every state has its type, and the rotation of create_verified_backup leaves no
\* more files than backup_keep.
THEOREM BackupTypeCorrect == SystemSpec => []TypeOK
<1> DEFINE Sound == Inv /\ Capped /\ Counters
<1>1. SystemInit => Sound
  <2> SUFFICES ASSUME Init PROVE Sound
    BY DEF SystemInit
  <2>1. Capped
    BY DEF Init, Capped
  <2>2. Counters
    BY SettingsAssumption, BoundAssumption DEF Init, Counters
  <2> QED
    BY <2>1, <2>2, InvInit
<1>2. Sound /\ [SystemNext]_system => Sound'
  <2> SUFFICES ASSUME Sound, [Next]_vars PROVE Sound'
    BY SystemStep
  <2> QED
    BY StepKeeps, CappedStep, CountersStep
<1>3. Sound => TypeOK
  BY DEF Inv, Shape, Capped, Counters, TypeOK
<1> QED
  BY <1>1, <1>2, <1>3, PTL DEF SystemSpec

\* However many runs fail between whichever steps, the rotation of
\* create_verified_backup never removes the last backup that was completed.
THEOREM BackupNewestIsKept == SystemSpec => []NewestIsKept
<1>1. Inv => NewestIsKept
  BY DEF Inv
<1> QED
  BY <1>1, Invariant, PTL

\* Whatever transfers damage, create_offsite_backup and restore_drill let the
\* manifest and the receipt name only what was read back and restored.
THEOREM BackupNamedWasProven == SystemSpec => []NamedWasProven
<1>1. Inv => NamedWasProven
  BY DEF Inv
<1> QED
  BY <1>1, Invariant, PTL

\* A manifest that can be read is never behind the receipt of this host.
THEOREM BackupReceiptIsListed == SystemSpec => []ReceiptIsListed
<1>1. Inv => ReceiptIsListed
  BY DEF Inv
<1> QED
  BY <1>1, Invariant, PTL

\* The common lock of backup and drill keeps the receipt from going back.
THEOREM BackupReceiptNeverGoesBack == SystemSpec => ReceiptNeverGoesBack
<1>1. Inv /\ [SystemNext]_system => [receipt' >= receipt]_vars
  BY StepKeeps, SystemStep
<1> QED
  BY <1>1, Invariant, PTL DEF SystemSpec, ReceiptNeverGoesBack

====
