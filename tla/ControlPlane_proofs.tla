------------------------ MODULE ControlPlane_proofs ------------------------
(***************************************************************************)
(* Proofs about ControlPlane.  Only the job that holds the permit has a     *)
(* runner, so a step of a runner is proved for that job alone (JobOK) and   *)
(* the lemma HolderSteps carries the rest of the invariant over it.         *)
(***************************************************************************)
EXTENDS ControlPlane, InductionLemmas, FiniteSetTheorems, TLAPS

Mutating == {"generate", "reset", "restore"}

(* A job whose result is final: published, or about to be. *)
Done(j) == pc[j] = "publish" \/ (pc[j] = "drop" /\ status[j] = "succeeded")

(* The permit: a runner is the holder's. *)
Held == \A j \in JobId : pc[j] # "idle" => gate = j

(* What the place of a runner says of the status and the kind of its job.   *)
PlaceOK(j) ==
    /\ status[j] \in InFlight => pc[j] \notin {"idle", "cleanup", "drop"}
    /\ pc[j] = "cleanup" => status[j] # "succeeded"
    /\ pc[j] # "idle" => work[j] \in JobWork
    /\ pc[j] \in {"dumping", "dumped", "promote", "cleanup"} => work[j].kind = "save"
    /\ pc[j] \in {"check", "validate", "decode", "probe", "loading", "loaded", "clamp"} =>
          work[j].kind = "restore"
    /\ pc[j] = "truncate" => work[j].kind = "reset"
    /\ pc[j] = "committed" => work[j].kind \in {"generate", "restore"}
    /\ pc[j] = "refresh" => work[j].kind \in Mutating

(* What a runner has achieved by then. *)
ResultOK(j) ==
    /\ pc[j] \in {"dumped", "promote"} => part[work[j].name] = work[j].dump
    /\ Done(j) /\ work[j].kind = "save" => snap[work[j].name] = work[j].dump
    /\ Done(j) /\ work[j].kind \in Mutating => signer = estate.tenant
    /\ (pc[j] = "refresh" \/ Done(j)) /\ work[j].kind = "restore" => seq >= work[j].pre

JobOK(j) == PlaceOK(j) /\ ResultOK(j)

IInv ==
    /\ TypeOK
    /\ Held
    /\ \A j \in JobId : JobOK(j)
    /\ SnapshotsAreWhole

-----------------------------------------------------------------------------
(* No job id is the free gate. *)
LEMMA FreeIsNoJob == Free \notin JobId
  BY ControlAssumption DEF JobId

(* A blank job is well typed. *)
LEMMA WorkType ==
    ASSUME NEW kind \in Kind, NEW n \in Name, NEW t \in Tenant \cup {Nil}
    PROVE  Work(kind, n, t) \in JobWork /\ Work(kind, n, t).kind = kind
  BY DEF Work, JobWork, Dump, Estate, Blank

(* The blank estate is an estate, and the tenants are those of one. *)
LEMMA BlankType == Blank \in Estate
  BY DEF Blank, Estate

(* With the gate free every runner is idle and every job settled. *)
LEMMA FreeIsIdle ==
    ASSUME IInv, gate = Free, NEW j \in JobId
    PROVE  pc[j] = "idle" /\ status[j] \notin InFlight
  <1>1. pc[j] = "idle"
    BY FreeIsNoJob DEF IInv, Held
  <1>2. PlaceOK(j)
    BY DEF IInv, JobOK
  <1> QED
    BY <1>1, <1>2 DEF PlaceOK

(* An idle runner whose job is settled satisfies JobOK. *)
LEMMA IdleOK ==
    ASSUME NEW j \in JobId, (pc[j] = "idle")', (status[j] \notin InFlight)'
    PROVE  JobOK(j)'
  BY DEF JobOK, PlaceOK, ResultOK, Done

(* A step of the holder that leaves the others alone needs JobOK of the      *)
(* holder only.                                                              *)
LEMMA HolderSteps ==
    ASSUME IInv, NEW j \in JobId, pc[j] # "idle",
           gate' = gate, TypeOK', JobOK(j)', SnapshotsAreWhole',
           \A k \in JobId \ {j} : pc'[k] = pc[k] /\ status'[k] = status[k]
    PROVE  IInv'
  <1>1. gate = j
    BY DEF IInv, Held
  <1>2. ASSUME NEW k \in JobId, k # j
        PROVE  pc'[k] = "idle" /\ status'[k] \notin InFlight
    <2>1. pc[k] = "idle"
      BY <1>1, <1>2 DEF IInv, Held
    <2>2. PlaceOK(k)
      BY DEF IInv, JobOK
    <2> QED
      BY <1>2, <2>1, <2>2 DEF PlaceOK
  <1>3. ASSUME NEW k \in JobId PROVE JobOK(k)'
    <2>1. CASE k = j  BY <2>1
    <2>2. CASE k # j
      <3>1. pc'[k] = "idle" /\ status'[k] \notin InFlight
        BY <2>2, <1>2
      <3> QED  BY <3>1, IdleOK
    <2> QED  BY <2>1, <2>2
  <1>4. Held'
    <2> SUFFICES ASSUME NEW k \in JobId, pc'[k] # "idle" PROVE gate' = k
      BY DEF Held
    <2> QED
      BY <1>1, <1>2
  <1> QED
    BY <1>3, <1>4 DEF IInv

-----------------------------------------------------------------------------
(* The steps of the runners, one lemma each. *)

LEMMA BeginStep ==
    ASSUME IInv, NEW j \in JobId, Begin(j)
    PROVE  IInv'
  <1> USE DEF Begin, Keep, disk, history
  <1>1. TypeOK /\ PlaceOK(j) /\ ResultOK(j) /\ SnapshotsAreWhole
    BY DEF IInv, JobOK
  <1>2. /\ pc[j] # "idle" /\ gate' = gate
        /\ \A k \in JobId \ {j} : pc'[k] = pc[k] /\ status'[k] = status[k]
    BY <1>1 DEF TypeOK
  <1>3. TypeOK'
    BY <1>1 DEF TypeOK, PlaceOK, InFlight, ChildPC
  <1>4. PlaceOK(j)'
    BY <1>1 DEF TypeOK, PlaceOK, InFlight, JobWork, Kind, Mutating, ChildPC
  <1>5. ResultOK(j)'
    BY <1>1 DEF TypeOK, PlaceOK, ResultOK, Done, Mutating, JobWork, Dump, ChildPC
  <1>6. SnapshotsAreWhole'
    BY <1>1 DEF SnapshotsAreWhole
  <1> QED
    BY <1>2, <1>3, <1>4, <1>5, <1>6, HolderSteps DEF JobOK

LEMMA GenerateCommitStep ==
    ASSUME IInv, NEW j \in JobId, GenerateCommit(j)
    PROVE  IInv'
  <1> USE DEF GenerateCommit, Go, Keep, history
  <1>1. TypeOK /\ PlaceOK(j) /\ ResultOK(j) /\ SnapshotsAreWhole
    BY DEF IInv, JobOK
  <1>2. /\ pc[j] # "idle" /\ gate' = gate
        /\ \A k \in JobId \ {j} : pc'[k] = pc[k] /\ status'[k] = status[k]
    BY <1>1 DEF TypeOK
  <1>3. TypeOK'
    BY <1>1 DEF TypeOK, PlaceOK, InFlight, ChildPC, Estate, JobWork
  <1>4. PlaceOK(j)'
    BY <1>1 DEF TypeOK, PlaceOK, InFlight, JobWork, Kind, Mutating, ChildPC
  <1>5. ResultOK(j)'
    BY <1>1 DEF TypeOK, PlaceOK, ResultOK, Done, Mutating, JobWork, Dump, ChildPC
  <1>6. SnapshotsAreWhole'
    BY <1>1 DEF SnapshotsAreWhole
  <1> QED
    BY <1>2, <1>3, <1>4, <1>5, <1>6, HolderSteps DEF JobOK

LEMMA DumpStartStep ==
    ASSUME IInv, NEW j \in JobId, DumpStart(j)
    PROVE  IInv'
  <1> USE DEF DumpStart, Go, Keep, history
  <1>1. TypeOK /\ PlaceOK(j) /\ ResultOK(j) /\ SnapshotsAreWhole
    BY DEF IInv, JobOK
  <1>2. /\ pc[j] # "idle" /\ gate' = gate
        /\ \A k \in JobId \ {j} : pc'[k] = pc[k] /\ status'[k] = status[k]
    BY <1>1 DEF TypeOK
  <1>3. TypeOK'
    BY <1>1 DEF TypeOK, PlaceOK, InFlight, ChildPC, Dump, JobWork
  <1>4. PlaceOK(j)'
    BY <1>1 DEF TypeOK, PlaceOK, InFlight, JobWork, Kind, Mutating, ChildPC, Dump
  <1>5. ResultOK(j)'
    BY <1>1 DEF TypeOK, PlaceOK, ResultOK, Done, Mutating, JobWork, Dump, ChildPC
  <1>6. SnapshotsAreWhole'
    BY <1>1 DEF SnapshotsAreWhole
  <1> QED
    BY <1>2, <1>3, <1>4, <1>5, <1>6, HolderSteps DEF JobOK

LEMMA DumpEndStep ==
    ASSUME IInv, NEW j \in JobId, DumpEnd(j)
    PROVE  IInv'
  <1> USE DEF DumpEnd, Go, Keep, history
  <1>1. TypeOK /\ PlaceOK(j) /\ ResultOK(j) /\ SnapshotsAreWhole
    BY DEF IInv, JobOK
  <1>2. /\ pc[j] # "idle" /\ gate' = gate
        /\ \A k \in JobId \ {j} : pc'[k] = pc[k] /\ status'[k] = status[k]
    BY <1>1 DEF TypeOK
  <1>3. TypeOK'
    BY <1>1 DEF TypeOK, PlaceOK, InFlight, ChildPC, Dump, JobWork
  <1>4. PlaceOK(j)'
    BY <1>1 DEF TypeOK, PlaceOK, InFlight, JobWork, Kind, Mutating, ChildPC, Dump
  <1>5. ResultOK(j)'
    BY <1>1, DumpAssumption DEF TypeOK, PlaceOK, ResultOK, Done, Mutating, JobWork, Dump, ChildPC
  <1>6. SnapshotsAreWhole'
    BY <1>1 DEF SnapshotsAreWhole
  <1> QED
    BY <1>2, <1>3, <1>4, <1>5, <1>6, HolderSteps DEF JobOK

LEMMA LoadStartStep ==
    ASSUME IInv, NEW j \in JobId, LoadStart(j)
    PROVE  IInv'
  <1> USE DEF LoadStart, Go, Keep, disk, history
  <1>1. TypeOK /\ PlaceOK(j) /\ ResultOK(j) /\ SnapshotsAreWhole
    BY DEF IInv, JobOK
  <1>2. /\ pc[j] # "idle" /\ gate' = gate
        /\ \A k \in JobId \ {j} : pc'[k] = pc[k] /\ status'[k] = status[k]
    BY <1>1 DEF TypeOK
  <1>3. TypeOK'
    BY <1>1 DEF TypeOK, PlaceOK, InFlight, ChildPC
  <1>4. PlaceOK(j)'
    BY <1>1 DEF TypeOK, PlaceOK, InFlight, JobWork, Kind, Mutating, ChildPC
  <1>5. ResultOK(j)'
    BY <1>1 DEF TypeOK, PlaceOK, ResultOK, Done, Mutating, JobWork, Dump, ChildPC
  <1>6. SnapshotsAreWhole'
    BY <1>1 DEF SnapshotsAreWhole
  <1> QED
    BY <1>2, <1>3, <1>4, <1>5, <1>6, HolderSteps DEF JobOK

LEMMA LoadSequenceStep ==
    ASSUME IInv, NEW j \in JobId, LoadSequence(j)
    PROVE  IInv'
  <1> USE DEF LoadSequence, Go, Keep, history
  <1>1. TypeOK /\ PlaceOK(j) /\ ResultOK(j) /\ SnapshotsAreWhole
    BY DEF IInv, JobOK
  <1>2. /\ pc[j] # "idle" /\ gate' = gate
        /\ \A k \in JobId \ {j} : pc'[k] = pc[k] /\ status'[k] = status[k]
    BY <1>1 DEF TypeOK
  <1>3. TypeOK'
    BY <1>1 DEF TypeOK, PlaceOK, InFlight, ChildPC, Dump, JobWork
  <1>4. PlaceOK(j)'
    BY <1>1 DEF TypeOK, PlaceOK, InFlight, JobWork, Kind, Mutating, ChildPC
  <1>5. ResultOK(j)'
    BY <1>1 DEF TypeOK, PlaceOK, ResultOK, Done, Mutating, JobWork, Dump, ChildPC
  <1>6. SnapshotsAreWhole'
    BY <1>1 DEF SnapshotsAreWhole
  <1> QED
    BY <1>2, <1>3, <1>4, <1>5, <1>6, HolderSteps DEF JobOK

LEMMA LoadCommitStep ==
    ASSUME IInv, NEW j \in JobId, LoadCommit(j)
    PROVE  IInv'
  <1> USE DEF LoadCommit, Go, Keep, history
  <1>1. TypeOK /\ PlaceOK(j) /\ ResultOK(j) /\ SnapshotsAreWhole
    BY DEF IInv, JobOK
  <1>2. /\ pc[j] # "idle" /\ gate' = gate
        /\ \A k \in JobId \ {j} : pc'[k] = pc[k] /\ status'[k] = status[k]
    BY <1>1 DEF TypeOK
  <1>3. TypeOK'
    BY <1>1 DEF TypeOK, PlaceOK, InFlight, ChildPC, Dump, JobWork
  <1>4. PlaceOK(j)'
    BY <1>1 DEF TypeOK, PlaceOK, InFlight, JobWork, Kind, Mutating, ChildPC
  <1>5. ResultOK(j)'
    BY <1>1 DEF TypeOK, PlaceOK, ResultOK, Done, Mutating, JobWork, Dump, ChildPC
  <1>6. SnapshotsAreWhole'
    BY <1>1 DEF SnapshotsAreWhole
  <1> QED
    BY <1>2, <1>3, <1>4, <1>5, <1>6, HolderSteps DEF JobOK

LEMMA ChildExitsStep ==
    ASSUME IInv, NEW j \in JobId, ChildExits(j)
    PROVE  IInv'
  <1> USE DEF ChildExits, Go, Keep, disk, history
  <1>1. TypeOK /\ PlaceOK(j) /\ ResultOK(j) /\ SnapshotsAreWhole
    BY DEF IInv, JobOK
  <1>2. /\ pc[j] # "idle" /\ gate' = gate
        /\ \A k \in JobId \ {j} : pc'[k] = pc[k] /\ status'[k] = status[k]
    BY <1>1 DEF TypeOK
  <1>3. TypeOK'
    BY <1>1 DEF TypeOK, PlaceOK, InFlight, ChildPC
  <1>4. PlaceOK(j)'
    BY <1>1 DEF TypeOK, PlaceOK, InFlight, JobWork, Kind, Mutating, ChildPC
  <1>5. ResultOK(j)'
    BY <1>1 DEF TypeOK, PlaceOK, ResultOK, Done, Mutating, JobWork, Dump, ChildPC
  <1>6. SnapshotsAreWhole'
    BY <1>1 DEF SnapshotsAreWhole
  <1> QED
    BY <1>2, <1>3, <1>4, <1>5, <1>6, HolderSteps DEF JobOK

LEMMA ChildFailsStep ==
    ASSUME IInv, NEW j \in JobId, ChildFails(j)
    PROVE  IInv'
  <1> USE DEF ChildFails, Fail, Keep, disk, history
  <1>1. TypeOK /\ PlaceOK(j) /\ ResultOK(j) /\ SnapshotsAreWhole
    BY DEF IInv, JobOK
  <1>2. /\ pc[j] # "idle" /\ gate' = gate
        /\ \A k \in JobId \ {j} : pc'[k] = pc[k] /\ status'[k] = status[k]
    BY <1>1 DEF TypeOK, ChildPC
  <1>3. TypeOK'
    BY <1>1 DEF TypeOK, PlaceOK, InFlight, ChildPC
  <1>4. PlaceOK(j)'
    BY <1>1 DEF TypeOK, PlaceOK, InFlight, JobWork, Kind, Mutating, ChildPC
  <1>5. ResultOK(j)'
    BY <1>1 DEF TypeOK, PlaceOK, ResultOK, Done, Mutating, JobWork, Dump, ChildPC
  <1>6. SnapshotsAreWhole'
    BY <1>1 DEF SnapshotsAreWhole
  <1> QED
    BY <1>2, <1>3, <1>4, <1>5, <1>6, HolderSteps DEF JobOK

LEMMA CheckFileStep ==
    ASSUME IInv, NEW j \in JobId, CheckFile(j)
    PROVE  IInv'
  <1> USE DEF CheckFile, Go, Fail, Keep, disk, history
  <1>1. TypeOK /\ PlaceOK(j) /\ ResultOK(j) /\ SnapshotsAreWhole
    BY DEF IInv, JobOK
  <1>2. /\ pc[j] # "idle" /\ gate' = gate
        /\ \A k \in JobId \ {j} : pc'[k] = pc[k] /\ status'[k] = status[k]
    BY <1>1 DEF TypeOK
  <1>3. TypeOK'
    BY <1>1 DEF TypeOK, PlaceOK, InFlight, ChildPC
  <1>4. PlaceOK(j)'
    BY <1>1 DEF TypeOK, PlaceOK, InFlight, JobWork, Kind, Mutating, ChildPC
  <1>5. ResultOK(j)'
    BY <1>1 DEF TypeOK, PlaceOK, ResultOK, Done, Mutating, JobWork, Dump, ChildPC
  <1>6. SnapshotsAreWhole'
    BY <1>1 DEF SnapshotsAreWhole
  <1> QED
    BY <1>2, <1>3, <1>4, <1>5, <1>6, HolderSteps DEF JobOK

LEMMA ValidateStep ==
    ASSUME IInv, NEW j \in JobId, Validate(j)
    PROVE  IInv'
  <1> USE DEF Validate, Go, Fail, Keep, disk, history
  <1>1. TypeOK /\ PlaceOK(j) /\ ResultOK(j) /\ SnapshotsAreWhole
    BY DEF IInv, JobOK
  <1>2. /\ pc[j] # "idle" /\ gate' = gate
        /\ \A k \in JobId \ {j} : pc'[k] = pc[k] /\ status'[k] = status[k]
    BY <1>1 DEF TypeOK
  <1>3. TypeOK'
    BY <1>1 DEF TypeOK, PlaceOK, InFlight, ChildPC
  <1>4. PlaceOK(j)'
    BY <1>1 DEF TypeOK, PlaceOK, InFlight, JobWork, Kind, Mutating, ChildPC
  <1>5. ResultOK(j)'
    BY <1>1 DEF TypeOK, PlaceOK, ResultOK, Done, Mutating, JobWork, Dump, ChildPC
  <1>6. SnapshotsAreWhole'
    BY <1>1 DEF SnapshotsAreWhole
  <1> QED
    BY <1>2, <1>3, <1>4, <1>5, <1>6, HolderSteps DEF JobOK

LEMMA DecodeStep ==
    ASSUME IInv, NEW j \in JobId, Decode(j)
    PROVE  IInv'
  <1> USE DEF Decode, Go, Fail, Keep, disk, history
  <1>1. TypeOK /\ PlaceOK(j) /\ ResultOK(j) /\ SnapshotsAreWhole
    BY DEF IInv, JobOK
  <1>2. /\ pc[j] # "idle" /\ gate' = gate
        /\ \A k \in JobId \ {j} : pc'[k] = pc[k] /\ status'[k] = status[k]
    BY <1>1 DEF TypeOK
  <1>3. TypeOK'
    BY <1>1 DEF TypeOK, PlaceOK, InFlight, ChildPC, JobWork
  <1>4. PlaceOK(j)'
    BY <1>1 DEF TypeOK, PlaceOK, InFlight, JobWork, Kind, Mutating, ChildPC
  <1>5. ResultOK(j)'
    BY <1>1 DEF TypeOK, PlaceOK, ResultOK, Done, Mutating, JobWork, Dump, ChildPC
  <1>6. SnapshotsAreWhole'
    BY <1>1 DEF SnapshotsAreWhole
  <1> QED
    BY <1>2, <1>3, <1>4, <1>5, <1>6, HolderSteps DEF JobOK

LEMMA ReadRevisionStep ==
    ASSUME IInv, NEW j \in JobId, ReadRevision(j)
    PROVE  IInv'
  <1> USE DEF ReadRevision, Go, Fail, Keep, disk, history
  <1>1. TypeOK /\ PlaceOK(j) /\ ResultOK(j) /\ SnapshotsAreWhole
    BY DEF IInv, JobOK
  <1>2. /\ pc[j] # "idle" /\ gate' = gate
        /\ \A k \in JobId \ {j} : pc'[k] = pc[k] /\ status'[k] = status[k]
    BY <1>1 DEF TypeOK
  <1>3. TypeOK'
    BY <1>1 DEF TypeOK, PlaceOK, InFlight, ChildPC, JobWork
  <1>4. PlaceOK(j)'
    BY <1>1 DEF TypeOK, PlaceOK, InFlight, JobWork, Kind, Mutating, ChildPC
  <1>5. ResultOK(j)'
    BY <1>1 DEF TypeOK, PlaceOK, ResultOK, Done, Mutating, JobWork, Dump, ChildPC
  <1>6. SnapshotsAreWhole'
    BY <1>1 DEF SnapshotsAreWhole
  <1> QED
    BY <1>2, <1>3, <1>4, <1>5, <1>6, HolderSteps DEF JobOK

LEMMA ClampStep ==
    ASSUME IInv, NEW j \in JobId, Clamp(j)
    PROVE  IInv'
  <1> USE DEF Clamp, Go, Fail, Keep, history
  <1>1. TypeOK /\ PlaceOK(j) /\ ResultOK(j) /\ SnapshotsAreWhole
    BY DEF IInv, JobOK
  <1>2. /\ pc[j] # "idle" /\ gate' = gate
        /\ \A k \in JobId \ {j} : pc'[k] = pc[k] /\ status'[k] = status[k]
    BY <1>1 DEF TypeOK
  <1>3. TypeOK'
    BY <1>1 DEF TypeOK, PlaceOK, InFlight, ChildPC, JobWork
  <1>4. PlaceOK(j)'
    BY <1>1 DEF TypeOK, PlaceOK, InFlight, JobWork, Kind, Mutating, ChildPC
  <1>5. ResultOK(j)'
    BY <1>1 DEF TypeOK, PlaceOK, ResultOK, Done, Mutating, JobWork, Dump, ChildPC
  <1>6. SnapshotsAreWhole'
    BY <1>1 DEF SnapshotsAreWhole
  <1> QED
    BY <1>2, <1>3, <1>4, <1>5, <1>6, HolderSteps DEF JobOK

LEMMA TruncateStep ==
    ASSUME IInv, NEW j \in JobId, Truncate(j)
    PROVE  IInv'
  <1> USE DEF Truncate, Go, Fail, Keep, history
  <1>1. TypeOK /\ PlaceOK(j) /\ ResultOK(j) /\ SnapshotsAreWhole
    BY DEF IInv, JobOK
  <1>2. /\ pc[j] # "idle" /\ gate' = gate
        /\ \A k \in JobId \ {j} : pc'[k] = pc[k] /\ status'[k] = status[k]
    BY <1>1 DEF TypeOK
  <1>3. TypeOK'
    BY <1>1, BlankType DEF TypeOK, InFlight, ChildPC
  <1>4. PlaceOK(j)'
    BY <1>1 DEF TypeOK, PlaceOK, InFlight, JobWork, Kind, Mutating, ChildPC
  <1>5. ResultOK(j)'
    BY <1>1 DEF TypeOK, PlaceOK, ResultOK, Done, Mutating, JobWork, Dump, ChildPC
  <1>6. SnapshotsAreWhole'
    BY <1>1 DEF SnapshotsAreWhole
  <1> QED
    BY <1>2, <1>3, <1>4, <1>5, <1>6, HolderSteps DEF JobOK

LEMMA RefreshSignerStep ==
    ASSUME IInv, NEW j \in JobId, RefreshSigner(j)
    PROVE  IInv'
  <1> USE DEF RefreshSigner, Go, Fail, Keep, disk, history
  <1>1. TypeOK /\ PlaceOK(j) /\ ResultOK(j) /\ SnapshotsAreWhole
    BY DEF IInv, JobOK
  <1>2. /\ pc[j] # "idle" /\ gate' = gate
        /\ \A k \in JobId \ {j} : pc'[k] = pc[k] /\ status'[k] = status[k]
    BY <1>1 DEF TypeOK
  <1>3. TypeOK'
    BY <1>1 DEF TypeOK, InFlight, ChildPC, Estate
  <1>4. PlaceOK(j)'
    BY <1>1 DEF TypeOK, PlaceOK, InFlight, JobWork, Kind, Mutating, ChildPC
  <1>5. ResultOK(j)'
    BY <1>1 DEF TypeOK, PlaceOK, ResultOK, Done, Mutating, JobWork, Dump, ChildPC
  <1>6. SnapshotsAreWhole'
    BY <1>1 DEF SnapshotsAreWhole
  <1> QED
    BY <1>2, <1>3, <1>4, <1>5, <1>6, HolderSteps DEF JobOK

LEMMA PromoteStep ==
    ASSUME IInv, NEW j \in JobId, Promote(j)
    PROVE  IInv'
  <1> USE DEF Promote, Go, Fail, Keep, history
  <1>1. TypeOK /\ PlaceOK(j) /\ ResultOK(j) /\ SnapshotsAreWhole
    BY DEF IInv, JobOK
  <1>2. /\ pc[j] # "idle" /\ gate' = gate
        /\ \A k \in JobId \ {j} : pc'[k] = pc[k] /\ status'[k] = status[k]
    BY <1>1 DEF TypeOK
  <1>3. TypeOK'
    BY <1>1 DEF TypeOK, PlaceOK, InFlight, ChildPC, JobWork
  <1>4. PlaceOK(j)'
    BY <1>1 DEF TypeOK, PlaceOK, InFlight, JobWork, Kind, Mutating, ChildPC
  <1>5. ResultOK(j)'
    BY <1>1 DEF TypeOK, PlaceOK, ResultOK, Done, Mutating, JobWork, Dump, ChildPC
  <1>6. SnapshotsAreWhole'
    BY <1>1, DumpAssumption DEF SnapshotsAreWhole, TypeOK, PlaceOK, ResultOK, JobWork
  <1> QED
    BY <1>2, <1>3, <1>4, <1>5, <1>6, HolderSteps DEF JobOK

LEMMA CleanupStep ==
    ASSUME IInv, NEW j \in JobId, Cleanup(j)
    PROVE  IInv'
  <1> USE DEF Cleanup, Go, Keep, history
  <1>1. TypeOK /\ PlaceOK(j) /\ ResultOK(j) /\ SnapshotsAreWhole
    BY DEF IInv, JobOK
  <1>2. /\ pc[j] # "idle" /\ gate' = gate
        /\ \A k \in JobId \ {j} : pc'[k] = pc[k] /\ status'[k] = status[k]
    BY <1>1 DEF TypeOK
  <1>3. TypeOK'
    BY <1>1 DEF TypeOK, PlaceOK, InFlight, ChildPC, JobWork
  <1>4. PlaceOK(j)'
    BY <1>1 DEF TypeOK, PlaceOK, InFlight, JobWork, Kind, Mutating, ChildPC
  <1>5. ResultOK(j)'
    BY <1>1 DEF TypeOK, PlaceOK, ResultOK, Done, Mutating, JobWork, Dump, ChildPC
  <1>6. SnapshotsAreWhole'
    BY <1>1 DEF SnapshotsAreWhole
  <1> QED
    BY <1>2, <1>3, <1>4, <1>5, <1>6, HolderSteps DEF JobOK

LEMMA PublishStep ==
    ASSUME IInv, NEW j \in JobId, Publish(j)
    PROVE  IInv'
  <1> USE DEF Publish, Keep, disk, history
  <1>1. TypeOK /\ PlaceOK(j) /\ ResultOK(j) /\ SnapshotsAreWhole
    BY DEF IInv, JobOK
  <1>2. /\ pc[j] # "idle" /\ gate' = gate
        /\ \A k \in JobId \ {j} : pc'[k] = pc[k] /\ status'[k] = status[k]
    BY <1>1 DEF TypeOK
  <1>3. TypeOK'
    BY <1>1 DEF TypeOK, PlaceOK, InFlight, ChildPC
  <1>4. PlaceOK(j)'
    BY <1>1 DEF TypeOK, PlaceOK, InFlight, JobWork, Kind, Mutating, ChildPC
  <1>5. ResultOK(j)'
    BY <1>1 DEF TypeOK, PlaceOK, ResultOK, Done, Mutating, JobWork, Dump, ChildPC
  <1>6. SnapshotsAreWhole'
    BY <1>1 DEF SnapshotsAreWhole
  <1> QED
    BY <1>2, <1>3, <1>4, <1>5, <1>6, HolderSteps DEF JobOK

(* The last step of a runner gives the permit back. *)
LEMMA DropPermitStep ==
    ASSUME IInv, NEW j \in JobId, DropPermit(j)
    PROVE  IInv'
  <1> USE DEF DropPermit, Go, disk, history
  <1>1. TypeOK /\ PlaceOK(j) /\ SnapshotsAreWhole /\ gate = j
    BY DEF IInv, JobOK, Held
  <1>2. TypeOK'
    BY <1>1 DEF TypeOK
  <1>3. ASSUME NEW k \in JobId
        PROVE  pc'[k] = "idle" /\ status'[k] \notin InFlight
    <2>1. pc'[k] = "idle"
      BY <1>1 DEF IInv, Held, TypeOK
    <2>2. PlaceOK(k) /\ (k # j => pc[k] = "idle")
      BY <1>1 DEF IInv, JobOK, Held
    <2> QED
      BY <2>1, <2>2 DEF PlaceOK
  <1>4. \A k \in JobId : JobOK(k)'
    BY <1>3, IdleOK
  <1>5. Held' /\ SnapshotsAreWhole'
    BY <1>1, <1>3 DEF Held, SnapshotsAreWhole
  <1> QED
    BY <1>2, <1>4, <1>5 DEF IInv

(* Accepting a job: the gate was free, so every other runner is idle. *)
LEMMA AcceptStep ==
    ASSUME IInv, NEW w \in JobWork, Accept(w), asked' \subseteq Name,
           UNCHANGED <<signer, disk, history>>
    PROVE  IInv'
  <1> USE DEF Accept, disk, history
  <1>1. TypeOK /\ SnapshotsAreWhole
    BY DEF IInv
  <1>2. PICK j \in JobId : j = jobs + 1
    BY <1>1, ControlAssumption DEF TypeOK, JobId
  <1>3. ASSUME NEW k \in JobId, k # j
        PROVE  pc'[k] = "idle" /\ status'[k] \notin InFlight
    <2>1. pc[k] = "idle" /\ status[k] \notin InFlight
      BY FreeIsIdle
    <2> QED
      BY <1>1, <1>2, <1>3, <2>1 DEF TypeOK, InFlight
  <1>4. /\ pc'[j] = "queued" /\ status'[j] = "queued" /\ work'[j] = w
        /\ gate' = j
    BY <1>1, <1>2 DEF TypeOK
  <1>5. TypeOK'
    <2>1. gate' \in JobId \cup {Free} /\ jobs' \in 0..MaxJobs
      BY <1>1, <1>2 DEF TypeOK, JobId
    <2>2. status' \in [JobId -> InFlight \cup {"absent", "succeeded", "failed"}]
      BY <1>1 DEF TypeOK, InFlight
    <2>3. pc' \in [JobId -> ChildPC \cup {"idle", "queued", "check", "validate", "decode", "probe",
                                          "clamp", "truncate", "refresh", "promote", "publish",
                                          "cleanup", "drop"}]
      BY <1>1 DEF TypeOK
    <2>4. work' \in [JobId -> JobWork \cup {NoWork}]
      BY <1>1 DEF TypeOK
    <2> QED
      BY <1>1, <2>1, <2>2, <2>3, <2>4 DEF TypeOK
  <1>6. JobOK(j)'
    BY <1>4 DEF JobOK, PlaceOK, ResultOK, Done
  <1>7. ASSUME NEW k \in JobId PROVE JobOK(k)'
    <2>1. CASE k # j
      BY <1>3, <2>1, IdleOK
    <2> QED
      BY <1>6, <2>1
  <1>8. Held' /\ SnapshotsAreWhole'
    BY <1>1, <1>3, <1>4 DEF Held, SnapshotsAreWhole
  <1> QED
    BY <1>5, <1>7, <1>8 DEF IInv

(* A step outside the runners that moves no job, no result and no file but   *)
(* in ways the results survive.                                              *)
LEMMA OutsideStep ==
    ASSUME IInv, TypeOK', SnapshotsAreWhole',
           UNCHANGED <<gate, status, pc, work, part, signer>>,
           estate'.tenant = estate.tenant, seq' >= seq,
           snap' = snap \/ gate = Free
    PROVE  IInv'
  <1>1. ASSUME NEW j \in JobId PROVE JobOK(j)'
    <2>1. CASE gate = Free
      BY <2>1, FreeIsIdle, IdleOK
    <2>2. CASE snap' = snap
      <3>1. PlaceOK(j) /\ ResultOK(j)
        BY DEF IInv, JobOK
      <3>2. PlaceOK(j)'
        BY <3>1 DEF PlaceOK
      <3>3. ResultOK(j)'
        <4>1. pc[j] # "idle" => work[j].pre \in Nat
          BY <3>1 DEF PlaceOK, JobWork
        <4>2. seq \in Nat /\ seq' \in Nat
          BY DEF IInv, TypeOK
        <4> QED
          BY <2>2, <3>1, <4>1, <4>2 DEF ResultOK, Done
      <3> QED
        BY <3>2, <3>3 DEF JobOK
    <2> QED
      BY <2>1, <2>2
  <1>2. Held'
    BY DEF IInv, Held
  <1> QED
    BY <1>1, <1>2 DEF IInv

LEMMA RequestStep ==
    ASSUME IInv, Request
    PROVE  IInv'
  <1>1. TypeOK /\ SnapshotsAreWhole
    BY DEF IInv
  <1>2. CASE AcceptJob
    <2>1. \A n \in Name : Work("analyze", n, Nil) \in JobWork /\ Work("reset", n, Nil) \in JobWork
                          /\ Work("save", n, Nil) \in JobWork
      BY WorkType DEF Kind
    <2>2. \A n \in Name, t \in Tenant : Work("generate", n, t) \in JobWork
      BY WorkType DEF Kind
    <2>3. PICK w \in JobWork : Accept(w)
      BY <1>2, <2>1, <2>2 DEF AcceptJob
    <2> QED
      BY <1>1, <1>2, <2>3, AcceptStep DEF AcceptJob, TypeOK
  <1>3. ASSUME NEW n \in Name, AskRestore(n) PROVE IInv'
    <2>1. TypeOK' /\ SnapshotsAreWhole'
      BY <1>1, <1>3 DEF AskRestore, TypeOK, SnapshotsAreWhole, disk, history
    <2> QED
      BY <1>1, <1>3, <2>1, OutsideStep DEF AskRestore, disk, TypeOK
  <1>4. ASSUME NEW n \in Name, RestoreSnapshot(n) PROVE IInv'
    <2>1. CASE Accept(Work("restore", n, Nil))
      <3>1. Work("restore", n, Nil) \in JobWork
        BY WorkType DEF Kind
      <3> QED
        BY <1>1, <1>4, <2>1, <3>1, AcceptStep DEF RestoreSnapshot, TypeOK
    <2>2. CASE UNCHANGED <<gate, status, jobs, pc, work>>
      <3>1. TypeOK' /\ SnapshotsAreWhole'
        BY <1>1, <1>4, <2>2 DEF RestoreSnapshot, TypeOK, SnapshotsAreWhole, disk, history
      <3> QED
        BY <1>1, <1>4, <2>2, <3>1, OutsideStep DEF RestoreSnapshot, disk, TypeOK
    <2> QED
      BY <1>4, <2>1, <2>2 DEF RestoreSnapshot
  <1>5. ASSUME NEW n \in Name, DeleteSnapshot(n) PROVE IInv'
    <2> USE <1>5 DEF DeleteSnapshot, memoryVars, history
    <2>1. TypeOK'
      BY <1>1 DEF TypeOK
    <2>2. SnapshotsAreWhole'
      BY <1>1, DumpAssumption DEF TypeOK, SnapshotsAreWhole
    <2> QED
      BY <1>1, <2>1, <2>2, OutsideStep DEF TypeOK
  <1> QED
    BY <1>2, <1>3, <1>4, <1>5 DEF Request

LEMMA ArmPutStep ==
    ASSUME IInv, ArmPut
    PROVE  IInv'
  <1> USE DEF ArmPut, memoryVars
  <1>1. TypeOK /\ SnapshotsAreWhole
    BY DEF IInv
  <1>2. estate'.tenant = estate.tenant /\ seq' >= seq
    BY <1>1 DEF TypeOK, Estate
  <1>3. TypeOK'
    BY <1>1 DEF TypeOK, Estate
  <1>4. SnapshotsAreWhole'
    BY <1>1 DEF SnapshotsAreWhole
  <1> QED
    BY <1>2, <1>3, <1>4, OutsideStep

(* After a restart nothing runs and nothing is registered. *)
LEMMA RestartStep ==
    ASSUME IInv, Restart
    PROVE  IInv'
  <1> USE DEF Restart, disk
  <1>1. TypeOK /\ SnapshotsAreWhole
    BY DEF IInv
  <1>2. TypeOK'
    BY <1>1 DEF TypeOK, Estate
  <1>3. \A k \in JobId : pc'[k] = "idle" /\ status'[k] \notin InFlight
    BY DEF InFlight
  <1>4. \A k \in JobId : JobOK(k)'
    BY <1>3, IdleOK
  <1>5. Held' /\ SnapshotsAreWhole'
    BY <1>1, <1>3 DEF Held, SnapshotsAreWhole
  <1> QED
    BY <1>2, <1>4, <1>5 DEF IInv

-----------------------------------------------------------------------------
LEMMA InitInv == Init => IInv
  <1> SUFFICES ASSUME Init PROVE IInv
    OBVIOUS
  <1> USE DEF Init
  <1>1. TypeOK
    <2>1. estate \in Estate /\ signer \in Tenant \cup {Nil}
      BY DEF Estate
    <2>2. 0 \in 0..MaxJobs
      BY ControlAssumption
    <2> QED
      BY <2>1, <2>2 DEF TypeOK
  <1>2. \A j \in JobId : JobOK(j)
    BY DEF JobOK, PlaceOK, ResultOK, Done, InFlight
  <1>3. Held /\ SnapshotsAreWhole
    BY DumpAssumption DEF Held, SnapshotsAreWhole
  <1> QED
    BY <1>1, <1>2, <1>3 DEF IInv

LEMMA StutterInv == IInv /\ UNCHANGED vars => IInv'
  <1> SUFFICES ASSUME IInv, UNCHANGED vars PROVE IInv'
    OBVIOUS
  <1> USE DEF vars, memoryVars
  <1>1. TypeOK' /\ SnapshotsAreWhole'
    BY DEF IInv, TypeOK, SnapshotsAreWhole
  <1> QED
    BY <1>1, OutsideStep DEF IInv, TypeOK

LEMMA NextInv == IInv /\ [Next]_vars => IInv'
  <1> SUFFICES ASSUME IInv, [Next]_vars PROVE IInv'
    OBVIOUS
  <1>1. CASE Request          BY <1>1, RequestStep
  <1>2. CASE ArmPut           BY <1>2, ArmPutStep
  <1>3. CASE Restart          BY <1>3, RestartStep
  <1>4. CASE UNCHANGED vars   BY <1>4, StutterInv
  <1>5. ASSUME NEW j \in JobId, ServerStep(j) PROVE IInv'
    BY <1>5, BeginStep, CheckFileStep, ReadRevisionStep, ClampStep, TruncateStep,
       RefreshSignerStep, PromoteStep, CleanupStep, PublishStep, DropPermitStep
       DEF ServerStep
  <1>6. ASSUME NEW j \in JobId, ArchiveStep(j) PROVE IInv'
    BY <1>6, ValidateStep, DecodeStep DEF ArchiveStep
  <1>7. ASSUME NEW j \in JobId, ChildStep(j) PROVE IInv'
    BY <1>7, GenerateCommitStep, DumpStartStep, DumpEndStep, LoadStartStep,
       LoadSequenceStep, LoadCommitStep, ChildExitsStep DEF ChildStep
  <1>8. ASSUME NEW j \in JobId, ChildFails(j) PROVE IInv'
    BY <1>8, ChildFailsStep
  <1> QED
    BY <1>1, <1>2, <1>3, <1>4, <1>5, <1>6, <1>7, <1>8 DEF Next

LEMMA Invariant == Spec => []IInv
  BY InitInv, NextInv, PTL DEF Spec

(* Every variable keeps its type, for any names, tenants, retention and      *)
(* number of jobs (job.rs, snapshot.rs, control.rs).                         *)
THEOREM TypeCorrect == Spec => []TypeOK
  <1>1. IInv => TypeOK  BY DEF IInv
  <1> QED  BY <1>1, Invariant, PTL

(* With the gate free no job is queued or running: the permit outlives every *)
(* status change of its job (job.rs:680-714, snapshot.rs:173-186).           *)
THEOREM GateGuardsJobs == Spec => []GateFreeMeansSettled
  <1>1. IInv => GateFreeMeansSettled
    BY FreeIsIdle DEF GateFreeMeansSettled
  <1> QED  BY <1>1, Invariant, PTL

(* A published generate, reset or restore serves the tenant of the estate    *)
(* (job.rs:309-340).                                                         *)
THEOREM PublishedIdentity == Spec => []SuccessServesTenant
  <1>1. IInv => SuccessServesTenant
    BY DEF IInv, JobOK, ResultOK, Done, Mutating, SuccessServesTenant
  <1> QED  BY <1>1, Invariant, PTL

(* A published save left the dump it took under its name                     *)
(* (snapshot.rs:188-218).                                                    *)
THEOREM PublishedDump == Spec => []SuccessPublishesDump
  <1>1. IInv => SuccessPublishesDump
    BY DEF IInv, JobOK, ResultOK, Done, SuccessPublishesDump
  <1> QED  BY <1>1, Invariant, PTL

(* No artifact is a dump cut short, whatever fails (snapshot.rs:152-172).    *)
THEOREM NoTornSnapshot == Spec => []SnapshotsAreWhole
  <1>1. IInv => SnapshotsAreWhole  BY DEF IInv
  <1> QED  BY <1>1, Invariant, PTL

(* A published restore left the revision sequence no lower than it read it   *)
(* (snapshot.rs:426-450).                                                    *)
THEOREM ClampWorks == Spec => []RestoreKeepsRevision
  <1>1. IInv => RestoreKeepsRevision
    BY DEF IInv, JobOK, ResultOK, Done, RestoreKeepsRevision
  <1> QED  BY <1>1, Invariant, PTL

-----------------------------------------------------------------------------
(* The steps that can change a snapshot: a removal or a promotion.          *)
LEMMA SnapChanges ==
    ASSUME Next, snap' # snap
    PROVE  gate = Free \/ \E k \in JobId : pc[k] = "promote"
  <1> USE DEF Keep, disk, history
  <1>1. CASE Request
    BY <1>1 DEF Request, AcceptJob, AskRestore, RestoreSnapshot, DeleteSnapshot
  <1>2. CASE ArmPut \/ Restart
    BY <1>2 DEF ArmPut, Restart
  <1>3. ASSUME NEW k \in JobId, ServerStep(k) PROVE pc[k] = "promote"
    BY <1>3 DEF ServerStep, Begin, CheckFile, ReadRevision, Clamp, Truncate,
                RefreshSigner, Promote, Cleanup, Publish, DropPermit
  <1>4. ASSUME NEW k \in JobId, ArchiveStep(k) \/ ChildStep(k) \/ ChildFails(k) PROVE FALSE
    BY <1>4 DEF ArchiveStep, Validate, Decode, ChildFails, ChildStep, GenerateCommit,
                DumpStart, DumpEnd, LoadStart, LoadSequence, LoadCommit, ChildExits
  <1> QED
    BY <1>1, <1>2, <1>3, <1>4 DEF Next

(* The steps that can change the tenant of the estate.                      *)
LEMMA TenantChanges ==
    ASSUME TypeOK, Next, estate'.tenant # estate.tenant
    PROVE  \E k \in JobId : GenerateCommit(k) \/ LoadCommit(k) \/ Truncate(k)
  <1> USE DEF Keep, disk, history
  <1>1. CASE Request
    BY <1>1 DEF Request, AcceptJob, AskRestore, RestoreSnapshot, DeleteSnapshot
  <1>2. CASE ArmPut
    BY <1>2 DEF ArmPut, TypeOK, Estate
  <1>3. CASE Restart
    BY <1>3 DEF Restart
  <1>4. ASSUME NEW k \in JobId, ServerStep(k) PROVE Truncate(k)
    BY <1>4 DEF ServerStep, Begin, CheckFile, ReadRevision, Clamp,
                RefreshSigner, Promote, Cleanup, Publish, DropPermit
  <1>5. ASSUME NEW k \in JobId, ChildStep(k) PROVE GenerateCommit(k) \/ LoadCommit(k)
    BY <1>5 DEF ChildStep, DumpStart, DumpEnd, LoadStart, LoadSequence, ChildExits
  <1>6. ASSUME NEW k \in JobId, ArchiveStep(k) \/ ChildFails(k) PROVE FALSE
    BY <1>6 DEF ArchiveStep, Validate, Decode, ChildFails
  <1> QED
    BY <1>1, <1>2, <1>3, <1>4, <1>5, <1>6 DEF Next

(* No step removes or replaces the artifact of a restore that has checked    *)
(* the file and not yet decoded it (control.rs:400-429).                     *)
THEOREM ArchiveIsHeld == Spec => ArchiveHeld
  <1>1. ASSUME IInv, [Next]_vars, NEW j \in JobId, pc[j] \in {"validate", "decode"}
        PROVE  snap' = snap
    <2>1. gate = j /\ \A k \in JobId : pc[k] # "idle" => k = j
      BY <1>1 DEF IInv, Held
    <2>2. gate # Free /\ \A k \in JobId : pc[k] # "promote"
      BY <1>1, <2>1, FreeIsNoJob
    <2>3. CASE UNCHANGED vars
      BY <2>3 DEF vars
    <2> QED
      BY <1>1, <2>2, <2>3, SnapChanges
  <1>2. IInv /\ [Next]_vars =>
          [\A j \in JobId : pc[j] \in {"validate", "decode"} =>
              snap'[work[j].name] = snap[work[j].name]]_vars
    BY <1>1
  <1> QED
    BY <1>2, Invariant, PTL DEF Spec, ArchiveHeld

(* While a restore runs, the tenant of the estate changes at its commit      *)
(* only, to the archive's (snapshot.rs:288-302).                             *)
THEOREM RestoreAtomic == Spec => RestoreIsAtomic
  <1>1. ASSUME IInv, [Next]_vars, NEW j \in JobId, pc[j] # "idle",
               work[j].kind = "restore", estate'.tenant # estate.tenant
        PROVE  pc[j] = "loaded" /\ estate' = work[j].dump.estate
    <2>1. TypeOK /\ Next
      BY <1>1 DEF IInv, vars
    <2>2. PICK k \in JobId : GenerateCommit(k) \/ LoadCommit(k) \/ Truncate(k)
      BY <1>1, <2>1, TenantChanges
    <2>3. pc[k] # "idle"
      BY <2>2 DEF GenerateCommit, LoadCommit, Truncate
    <2>4. k = j
      BY <1>1, <2>3 DEF IInv, Held
    <2>5. PlaceOK(j)
      BY <1>1 DEF IInv, JobOK
    <2>6. ~GenerateCommit(j) /\ ~Truncate(j)
      BY <1>1, <2>5 DEF GenerateCommit, Truncate, PlaceOK
    <2> QED
      BY <2>2, <2>4, <2>6 DEF LoadCommit
  <1>2. IInv /\ [Next]_vars =>
          [\A j \in JobId : pc[j] # "idle" /\ work[j].kind = "restore"
                               /\ estate'.tenant # estate.tenant =>
              pc[j] = "loaded" /\ estate' = work[j].dump.estate]_vars
    BY <1>1
  <1> QED
    BY <1>2, Invariant, PTL DEF Spec, RestoreIsAtomic

-----------------------------------------------------------------------------
(* The registry. *)
Kept == gate # Free => gate \in Registered

(* A runner's step registers no job and forgets none. *)
LEMMA RunnerKeeps ==
    ASSUME IInv, Kept, NEW j \in JobId,
           ServerStep(j) \/ ArchiveStep(j) \/ ChildStep(j) \/ ChildFails(j)
    PROVE  Registered' = Registered /\ Kept'
  <1> USE DEF Keep, Go, Fail
  <1>1. pc[j] # "idle"
    BY DEF ServerStep, Begin, CheckFile, ReadRevision, Clamp, Truncate, RefreshSigner, Promote,
           Cleanup, Publish, DropPermit, ArchiveStep, Validate, Decode, ChildStep, GenerateCommit,
           DumpStart, DumpEnd, LoadStart, LoadSequence, LoadCommit, ChildExits, ChildFails, ChildPC
  <1>2. gate = j /\ TypeOK /\ status[j] # "absent"
    BY <1>1, FreeIsNoJob DEF IInv, Held, Kept, Registered
  <1>3. /\ gate' \in {gate, Free}
        /\ \/ status' = status
           \/ status' = [status EXCEPT ![j] = "running"]
           \/ status' = [status EXCEPT ![j] = "succeeded"]
           \/ status' = [status EXCEPT ![j] = IF @ = "absent" THEN @ ELSE "failed"]
    <2>1. CASE ServerStep(j)
      BY <1>2, <2>1 DEF ServerStep, Begin, CheckFile, ReadRevision, Clamp, Truncate, RefreshSigner,
                  Promote, Cleanup, Publish, DropPermit
    <2>2. CASE ArchiveStep(j) \/ ChildStep(j) \/ ChildFails(j)
      BY <2>2 DEF ArchiveStep, Validate, Decode, ChildStep, GenerateCommit, DumpStart, DumpEnd,
                  LoadStart, LoadSequence, LoadCommit, ChildExits, ChildFails
    <2> QED
      BY <2>1, <2>2
  <1>4. \A k \in JobId : status'[k] # "absent" <=> status[k] # "absent"
    BY <1>2, <1>3 DEF TypeOK
  <1> QED
    BY <1>3, <1>4 DEF Registered, Kept

(* Before the job is registered the oldest terminal jobs make room for it:  *)
(* with the gate free every registered job is terminal, so a full registry  *)
(* has one to give up.                                                      *)
LEMMA AcceptBounded ==
    ASSUME IInv, Cardinality(Registered) <= Retention, NEW w, Accept(w)
    PROVE  Cardinality(Registered') <= Retention /\ Kept'
  <1> DEFINE j == jobs + 1
             room == Registered \ Evicted
  <1>1. TypeOK /\ Terminal = Registered
    BY FreeIsIdle DEF IInv, Accept, Terminal, Registered
  <1>2. j \in JobId
    BY <1>1, ControlAssumption DEF TypeOK, JobId, Accept
  <1>3. Registered' = room \cup {j} /\ gate' = j
    BY <1>1, <1>2 DEF Accept, Registered, Evicted, TypeOK
  <1>4. IsFiniteSet(Registered) /\ Registered \subseteq Nat
    <2>1. IsFiniteSet(JobId) /\ JobId \subseteq Nat
      BY FS_Interval, ControlAssumption DEF JobId
    <2>2. Registered \in SUBSET JobId
      BY DEF Registered
    <2> QED
      BY <2>1, <2>2, FS_Subset
  <1>5. Cardinality(Registered) \in Nat /\ Retention \in Nat \ {0}
    BY <1>4, FS_CardinalityType, ControlAssumption
  <1>6. IsFiniteSet(room) /\ Cardinality(room) < Retention
    <2>1. CASE Cardinality(Registered) < Retention
      <3>1. room \in SUBSET Registered
        OBVIOUS
      <3>2. IsFiniteSet(room) /\ Cardinality(room) <= Cardinality(Registered)
        BY <1>4, <3>1, FS_Subset
      <3>3. Cardinality(room) \in Nat
        BY <3>2, FS_CardinalityType
      <3> QED
        BY <1>5, <2>1, <3>2, <3>3
    <2>2. CASE Cardinality(Registered) = Retention
      <3>1. Registered # {}
        BY <1>4, <1>5, <2>2, FS_EmptySet
      <3>2. PICK m \in Registered : \A k \in Registered : m <= k
        BY <1>4, <3>1, LeastNatural
      <3>3. {k \in Terminal : k < m} = {}
        <4>1. ASSUME NEW k \in Terminal, k < m PROVE FALSE
          <5>1. k \in Nat /\ m \in Nat /\ m <= k
            BY <1>1, <1>4, <3>2, <4>1
          <5> QED
            BY <4>1, <5>1
        <4> QED
          BY <4>1
      <3>4. m \in Evicted
        BY <1>1, <1>5, <2>2, <3>3, FS_EmptySet DEF Evicted
      <3>5. IsFiniteSet(Registered \ {m}) /\ Cardinality(Registered \ {m}) = Retention - 1
        BY <1>4, <2>2, FS_RemoveElement
      <3>6. room \in SUBSET (Registered \ {m})
        BY <3>4
      <3>7. IsFiniteSet(room) /\ Cardinality(room) <= Retention - 1
        BY <3>5, <3>6, FS_Subset
      <3>8. Cardinality(room) \in Nat
        BY <3>7, FS_CardinalityType
      <3> QED
        BY <1>5, <3>7, <3>8
    <2> QED
      BY <1>5, <2>1, <2>2
  <1>7. Cardinality(room) \in Nat
    BY <1>6, FS_CardinalityType
  <1>8. Cardinality(room \cup {j}) <= Cardinality(room) + 1
    BY <1>6, <1>7, FS_AddElement
  <1>9. Cardinality(room \cup {j}) \in Nat
    BY <1>6, FS_AddElement, <1>7
  <1>10. Cardinality(room \cup {j}) <= Retention
    BY <1>5, <1>6, <1>7, <1>8, <1>9
  <1> QED
    BY <1>3, <1>10 DEF Kept

(* The registry never holds more jobs than its retention, and never drops    *)
(* the one in flight: a poll of an accepted job finds it while it runs       *)
(* (job.rs:155-176, control.rs:259-270).                                     *)
THEOREM RetentionHolds == Spec => []RegistryBounded
  <1>1. Init => RegistryBounded
    <2>1. Init => Registered = {}
      BY DEF Init, Registered
    <2> QED
      BY <2>1, FS_EmptySet, ControlAssumption DEF Init, RegistryBounded
  <1>2. IInv /\ RegistryBounded /\ [Next]_vars => RegistryBounded'
    <2> SUFFICES ASSUME IInv, RegistryBounded, [Next]_vars PROVE RegistryBounded'
      OBVIOUS
    <2> USE DEF disk, history, memoryVars
    <2>1. CASE UNCHANGED <<gate, status>>
      BY <2>1 DEF RegistryBounded, Registered
    <2>2. ASSUME NEW w, Accept(w) PROVE RegistryBounded'
      BY <2>2, AcceptBounded DEF RegistryBounded, Kept
    <2>3. CASE Request
      BY <2>1, <2>2, <2>3 DEF Request, AcceptJob, AskRestore, RestoreSnapshot, DeleteSnapshot
    <2>4. CASE ArmPut \/ UNCHANGED vars
      BY <2>1, <2>4 DEF ArmPut, vars
    <2>5. CASE Restart
      <3>1. Registered' = {}
        BY <2>5 DEF Restart, Registered
      <3> QED
        BY <2>5, <3>1, FS_EmptySet, ControlAssumption DEF Restart, RegistryBounded
    <2>6. ASSUME NEW j \in JobId, ServerStep(j) \/ ArchiveStep(j) \/ ChildStep(j) \/ ChildFails(j)
          PROVE  RegistryBounded'
      BY <2>6, RunnerKeeps DEF RegistryBounded, Kept
    <2> QED
      BY <2>3, <2>4, <2>5, <2>6 DEF Next
  <1> QED
    BY <1>1, <1>2, Invariant, PTL DEF Spec
=============================================================================
