---------------------------- MODULE ControlPlane ----------------------------
(***************************************************************************)
(* The control plane of the server: control.rs (the handlers), job.rs (the  *)
(* registry, the single-writer gate, the runner) and snapshot.rs (save,     *)
(* restore, delete).  A job is accepted by a handler that takes the permit  *)
(* of the gate, and carried by a runner that holds the permit to its end;   *)
(* ARM writes go on beside it.  The runner's child processes (generate,     *)
(* analyze, pg_dump, psql) may fail or hang at every step.                  *)
(***************************************************************************)
EXTENDS Naturals, FiniteSets

CONSTANTS
    Name,         \* snapshot names
    Tenant,       \* the tenants generate can produce
    Nil,          \* the nil tenant of an empty estate
    NoDump,       \* no file of that name
    Torn,         \* the file of a dump that has not ended
    Free,         \* the gate has its permit
    Retention,    \* JOB_RETENTION
    MaxJobs,      \* bound: jobs accepted in a behaviour
    MaxPuts,      \* bound: ARM writes in a behaviour
    MaxRestarts   \* bound: restarts of the server

ASSUME ControlAssumption ==
    /\ Nil \notin Tenant
    /\ Retention \in Nat \ {0}
    /\ MaxJobs \in Nat /\ MaxPuts \in Nat /\ MaxRestarts \in Nat
    /\ Free \notin Nat

(* Job ids are numbered in the order of started_at. *)
JobId == 1..MaxJobs

(* What synthetic.* holds: its tenant, and the revision of its last ARM write. *)
Estate == [tenant : Tenant \cup {Nil}, rev : Nat]
Blank == [tenant |-> Nil, rev |-> 0]

(* A dump carries the rows and, as data, the setval of the revision sequence. *)
Dump == [estate : Estate, seq : Nat]
ASSUME DumpAssumption == NoDump \notin Dump /\ Torn \notin Dump /\ NoDump # Torn

Kind == {"generate", "analyze", "reset", "save", "restore"}

VARIABLES
    gate,      \* write_gate: the job holding the permit, or Free
    status,    \* the registry: status of a job, "absent" when it has no entry
    jobs,      \* jobs accepted so far
    pc,        \* pc[j]: where the runner of j is
    work,      \* work[j]: its arguments and locals
    asked,     \* restore requests past their 404 check
    snap,      \* <name>.dump
    part,      \* <name>.dump.partial
    estate,    \* the rows of synthetic.*
    seq,       \* arm_overlay_revision_seq
    signer,    \* the tenant of the shared signer
    puts,      \* ARM writes so far
    restarts,  \* restarts so far
    peak       \* the highest revision given to an ARM write: history

memoryVars == <<gate, status, jobs, pc, work, asked, signer>>
vars == <<memoryVars, snap, part, estate, seq, puts, restarts, peak>>

(* The arguments of a job, the dump it writes or decoded, pre_revision. *)
Work(kind, n, t) ==
    [kind |-> kind, name |-> n, tenant |-> t, dump |-> [estate |-> Blank, seq |-> 0], pre |-> 0]
NoWork == [kind |-> "none"]
JobWork == [kind : Kind, name : Name, tenant : Tenant \cup {Nil}, dump : Dump, pre : Nat]

InFlight == {"queued", "running"}
ChildPC == {"child", "dumping", "dumped", "loading", "loaded", "committed"}

-----------------------------------------------------------------------------
(* evict_terminal: the oldest terminal jobs, until the registry has room.   *)
Registered == {j \in JobId : status[j] # "absent"}
Terminal == {j \in Registered : status[j] \notin InFlight}

(* Mutant: off by one, room is made only once the bound is passed.          *)
Evicted_Late ==
    {j \in Terminal : Cardinality({k \in Terminal : k < j}) + Retention < Cardinality(Registered)}

Evicted ==
    {j \in Terminal : Cardinality({k \in Terminal : k < j}) + Retention <= Cardinality(Registered)}

(* try_acquire_owned, register_job, spawn.  A busy gate is a 409: no change. *)
Accept(w) ==
    LET j == jobs + 1 IN
    /\ gate = Free
    /\ jobs < MaxJobs
    /\ gate' = j
    /\ jobs' = j
    /\ status' = [k \in JobId |-> IF k = j THEN "queued"
                                  ELSE IF k \in Evicted THEN "absent" ELSE status[k]]
    /\ pc' = [pc EXCEPT ![j] = "queued"]
    /\ work' = [work EXCEPT ![j] = w]

disk == <<snap, part, estate, seq>>
history == <<puts, restarts, peak>>

AcceptJob ==
    /\ \/ \E t \in Tenant, n \in Name : Accept(Work("generate", n, t))
       \/ \E n \in Name : \/ Accept(Work("analyze", n, Nil))
                          \/ Accept(Work("reset", n, Nil))
                          \/ Accept(Work("save", n, Nil))
    /\ UNCHANGED <<asked, signer, disk, history>>

(* restore_snapshot: the 404 check comes before the permit.                 *)
AskRestore(n) ==
    /\ snap[n] # NoDump
    /\ n \notin asked
    /\ asked' = asked \cup {n}
    /\ UNCHANGED <<gate, status, jobs, pc, work, signer, disk, history>>

RestoreSnapshot(n) ==
    /\ n \in asked
    /\ asked' = asked \ {n}
    /\ \/ Accept(Work("restore", n, Nil))
       \/ gate # Free /\ UNCHANGED <<gate, status, jobs, pc, work>>
    /\ UNCHANGED <<signer, disk, history>>

(* Mutant: the artifact is removed without the permit.                      *)
DeleteSnapshot_Ungated(n) ==
    /\ snap[n] # NoDump
    /\ snap' = [snap EXCEPT ![n] = NoDump]
    /\ UNCHANGED <<memoryVars, part, estate, seq, history>>

(* delete_snapshot holds the permit for the removal, within one handler.    *)
DeleteSnapshot(n) ==
    /\ gate = Free
    /\ snap[n] # NoDump
    /\ snap' = [snap EXCEPT ![n] = NoDump]
    /\ UNCHANGED <<memoryVars, part, estate, seq, history>>

-----------------------------------------------------------------------------
(* The runner.  At j from one place to another; a failure is terminal.      *)
Go(j, to) == pc' = [pc EXCEPT ![j] = to] /\ UNCHANGED status

Fail(j) ==
    /\ status' = [status EXCEPT ![j] = IF @ = "absent" THEN @ ELSE "failed"]
    /\ pc' = [pc EXCEPT ![j] = IF work[j].kind = "save" THEN "cleanup" ELSE "drop"]

Keep == UNCHANGED <<gate, jobs, asked, history>>

Begin(j) ==
    /\ pc[j] = "queued"
    /\ status' = [status EXCEPT ![j] = "running"]
    /\ pc' = [pc EXCEPT ![j] = IF work[j].kind = "reset" THEN "truncate"
                                ELSE IF work[j].kind = "restore" THEN "check" ELSE "child"]
    /\ Keep /\ UNCHANGED <<work, signer, disk>>

(* generate: its write transaction commits, then it builds indexes.         *)
GenerateCommit(j) ==
    /\ pc[j] = "child" /\ work[j].kind = "generate"
    /\ estate' = [tenant |-> work[j].tenant, rev |-> 0]
    /\ Go(j, "committed")
    /\ Keep /\ UNCHANGED <<work, signer, snap, part, seq>>

(* Mutant: pg_dump writes to the final name.                                *)
DumpStart_InPlace(j) ==
    /\ pc[j] = "child" /\ work[j].kind = "save"
    /\ snap' = [snap EXCEPT ![work[j].name] = Torn]
    /\ work' = [work EXCEPT ![j].dump.estate = estate]
    /\ Go(j, "dumping")
    /\ Keep /\ UNCHANGED <<signer, part, estate, seq>>

(* pg_dump: the rows of one MVCC snapshot, the sequence as it is later.     *)
DumpStart(j) ==
    /\ pc[j] = "child" /\ work[j].kind = "save"
    /\ part' = [part EXCEPT ![work[j].name] = Torn]
    /\ work' = [work EXCEPT ![j].dump.estate = estate]
    /\ Go(j, "dumping")
    /\ Keep /\ UNCHANGED <<signer, snap, estate, seq>>

DumpEnd(j) ==
    LET d == [work[j].dump EXCEPT !.seq = seq] IN
    /\ pc[j] = "dumping"
    /\ work' = [work EXCEPT ![j].dump = d]
    /\ part' = [part EXCEPT ![work[j].name] = d]
    /\ Go(j, "dumped")
    /\ Keep /\ UNCHANGED <<signer, snap, estate, seq>>

(* Mutant: the TRUNCATE commits before the load starts.                     *)
LoadStart_Committed(j) ==
    /\ pc[j] = "child" /\ work[j].kind = "restore"
    /\ estate' = Blank
    /\ Go(j, "loading")
    /\ Keep /\ UNCHANGED <<work, signer, snap, part, seq>>

(* psql: one transaction of TRUNCATE, which locks the tables, and load; the *)
(* setval inside it takes effect at once and is not rolled back.            *)
LoadStart(j) ==
    /\ pc[j] = "child" /\ work[j].kind = "restore"
    /\ Go(j, "loading")
    /\ Keep /\ UNCHANGED <<work, signer, disk>>

LoadSequence(j) ==
    /\ pc[j] = "loading"
    /\ seq' = work[j].dump.seq
    /\ Go(j, "loaded")
    /\ Keep /\ UNCHANGED <<work, signer, snap, part, estate>>

LoadCommit(j) ==
    /\ pc[j] = "loaded"
    /\ estate' = work[j].dump.estate
    /\ Go(j, "committed")
    /\ Keep /\ UNCHANGED <<work, signer, snap, part, seq>>

(* Mutant: the permit goes with the child, before the job is finalized.     *)
ChildExits_DropsPermit(j) ==
    /\ \/ pc[j] = "child" /\ work[j].kind = "analyze" /\ Go(j, "publish")
       \/ pc[j] = "dumped" /\ Go(j, "promote")
       \/ pc[j] = "committed" /\ Go(j, IF work[j].kind = "restore" THEN "clamp" ELSE "refresh")
    /\ gate' = Free
    /\ UNCHANGED <<jobs, asked, history, work, signer, disk>>

(* Exit status 0. *)
ChildExits(j) ==
    /\ \/ pc[j] = "child" /\ work[j].kind = "analyze" /\ Go(j, "publish")
       \/ pc[j] = "dumped" /\ Go(j, "promote")
       \/ pc[j] = "committed" /\ Go(j, IF work[j].kind = "restore" THEN "clamp" ELSE "refresh")
    /\ Keep /\ UNCHANGED <<work, signer, disk>>

(* Mutant: nothing kills a psql that hangs in its load.                     *)
ChildFails_NoTimeout(j) ==
    /\ pc[j] \in ChildPC \ {"loading"}
    /\ Fail(j)
    /\ Keep /\ UNCHANGED <<work, signer, disk>>

(* A spawn error, a nonzero exit, or the kill at the timeout: the child's   *)
(* open transaction rolls back, a setval stays.                             *)
ChildFails(j) ==
    /\ pc[j] \in ChildPC
    /\ Fail(j)
    /\ Keep /\ UNCHANGED <<work, signer, disk>>

(* restore, up to psql: is_file, pg_restore --list, decode, guard, probes.  *)
CheckFile(j) ==
    /\ pc[j] = "check"
    /\ \/ snap[work[j].name] # NoDump /\ Go(j, "validate")
       \/ snap[work[j].name] = NoDump /\ Fail(j)
    /\ Keep /\ UNCHANGED <<work, signer, disk>>

Validate(j) ==
    /\ pc[j] = "validate"
    /\ \/ snap[work[j].name] \in Dump /\ Go(j, "decode")
       \/ Fail(j)
    /\ Keep /\ UNCHANGED <<work, signer, disk>>

Decode(j) ==
    /\ pc[j] = "decode"
    /\ \/ /\ snap[work[j].name] \in Dump
          /\ work' = [work EXCEPT ![j].dump = snap[work[j].name]]
          /\ Go(j, "probe")
       \/ Fail(j) /\ UNCHANGED work
    /\ Keep /\ UNCHANGED <<signer, disk>>

(* Mutant: the value before the last one drawn is kept.                     *)
ReadRevision_OffByOne(j) ==
    /\ pc[j] = "probe"
    /\ \/ work' = [work EXCEPT ![j].pre = seq - 1] /\ Go(j, "child")
       \/ Fail(j) /\ UNCHANGED work
    /\ Keep /\ UNCHANGED <<signer, disk>>

ReadRevision(j) ==
    /\ pc[j] = "probe"
    /\ \/ work' = [work EXCEPT ![j].pre = seq] /\ Go(j, "child")
       \/ Fail(j) /\ UNCHANGED work
    /\ Keep /\ UNCHANGED <<signer, disk>>

(* Mutant: the sequence is left as the load set it.                         *)
Clamp_Skipped(j) ==
    /\ pc[j] = "clamp"
    /\ Go(j, "refresh")
    /\ Keep /\ UNCHANGED <<work, signer, disk>>

(* setval(seq, GREATEST(pre, last_value)), a statement of its own.          *)
Clamp(j) ==
    /\ pc[j] = "clamp"
    /\ \/ /\ seq' = IF work[j].pre > seq THEN work[j].pre ELSE seq
          /\ Go(j, "refresh")
       \/ Fail(j) /\ UNCHANGED seq
    /\ Keep /\ UNCHANGED <<work, signer, snap, part, estate>>

(* run_reset: one TRUNCATE statement.                                       *)
Truncate(j) ==
    /\ pc[j] = "truncate"
    /\ \/ estate' = Blank /\ Go(j, "refresh")
       \/ Fail(j) /\ UNCHANGED estate
    /\ Keep /\ UNCHANGED <<work, signer, snap, part, seq>>

(* Mutant: the identity is not re-derived.                                  *)
RefreshSigner_Skipped(j) ==
    /\ pc[j] = "refresh"
    /\ Go(j, "publish")
    /\ Keep /\ UNCHANGED <<work, signer, disk>>

(* refresh_signer_for_current_tenant, before the job is published.          *)
RefreshSigner(j) ==
    /\ pc[j] = "refresh"
    /\ \/ signer' = estate.tenant /\ Go(j, "publish")
       \/ Fail(j) /\ UNCHANGED signer
    /\ Keep /\ UNCHANGED <<work, disk>>

(* Mutant: the job goes on to its publication without the rename.           *)
Promote_Skipped(j) ==
    /\ pc[j] = "promote"
    /\ Go(j, "publish")
    /\ Keep /\ UNCHANGED <<work, signer, disk>>

(* finalize_save: rename the partial over the final name, or fail.          *)
Promote(j) ==
    LET n == work[j].name IN
    /\ pc[j] = "promote"
    /\ \/ snap' = [snap EXCEPT ![n] = part[n]] /\ part' = [part EXCEPT ![n] = NoDump] /\ Go(j, "publish")
       \/ Fail(j) /\ UNCHANGED <<snap, part>>
    /\ Keep /\ UNCHANGED <<work, signer, estate, seq>>

Cleanup(j) ==
    /\ pc[j] = "cleanup"
    /\ part' = [part EXCEPT ![work[j].name] = NoDump]
    /\ Go(j, "drop")
    /\ Keep /\ UNCHANGED <<work, signer, snap, estate, seq>>

Publish(j) ==
    /\ pc[j] = "publish"
    /\ status' = [status EXCEPT ![j] = "succeeded"]
    /\ pc' = [pc EXCEPT ![j] = "drop"]
    /\ Keep /\ UNCHANGED <<work, signer, disk>>

(* The end of the runner's scope: the permit returns to the gate.           *)
DropPermit(j) ==
    /\ pc[j] = "drop"
    /\ gate' = IF gate = j THEN Free ELSE gate
    /\ work' = [work EXCEPT ![j] = NoWork]
    /\ Go(j, "idle")
    /\ UNCHANGED <<jobs, asked, history, signer, disk>>

-----------------------------------------------------------------------------
(* An ARM write takes the next revision; it waits for the restore's TRUNCATE *)
(* lock.                                                                     *)
ArmPut ==
    /\ puts < MaxPuts
    /\ \A j \in JobId : pc[j] \notin {"loading", "loaded"}
    /\ puts' = puts + 1
    /\ seq' = seq + 1
    /\ estate' = [estate EXCEPT !.rev = seq + 1]
    /\ peak' = IF seq + 1 > peak THEN seq + 1 ELSE peak
    /\ UNCHANGED <<memoryVars, snap, part, restarts>>

(* The server dies with its children and boots again: the registry and the  *)
(* gate are new, the signer is read from the estate, the disk stays.        *)
Restart ==
    /\ restarts < MaxRestarts
    /\ restarts' = restarts + 1
    /\ gate' = Free
    /\ status' = [j \in JobId |-> "absent"]
    /\ pc' = [j \in JobId |-> "idle"]
    /\ work' = [j \in JobId |-> NoWork]
    /\ asked' = {}
    /\ signer' = estate.tenant
    /\ UNCHANGED <<jobs, disk, puts, peak>>

-----------------------------------------------------------------------------
Init ==
    /\ gate = Free /\ jobs = 0 /\ asked = {}
    /\ status = [j \in JobId |-> "absent"]
    /\ pc = [j \in JobId |-> "idle"]
    /\ work = [j \in JobId |-> NoWork]
    /\ snap = [n \in Name |-> NoDump]
    /\ part = [n \in Name |-> NoDump]
    /\ estate \in {[tenant |-> t, rev |-> 0] : t \in Tenant \cup {Nil}}
    /\ seq = 0 /\ peak = 0
    /\ signer = estate.tenant
    /\ puts = 0 /\ restarts = 0

ServerStep(j) ==
    \/ Begin(j) \/ CheckFile(j) \/ ReadRevision(j) \/ Clamp(j) \/ Truncate(j)
    \/ RefreshSigner(j) \/ Promote(j) \/ Cleanup(j) \/ Publish(j) \/ DropPermit(j)

(* pg_restore --list and the decode: children awaited without a timeout.     *)
ArchiveStep(j) == Validate(j) \/ Decode(j)

ChildStep(j) ==
    \/ GenerateCommit(j) \/ DumpStart(j) \/ DumpEnd(j)
    \/ LoadStart(j) \/ LoadSequence(j) \/ LoadCommit(j) \/ ChildExits(j)

Request ==
    \/ AcceptJob
    \/ \E n \in Name : AskRestore(n) \/ RestoreSnapshot(n) \/ DeleteSnapshot(n)

Next ==
    \/ Request \/ ArmPut \/ Restart
    \/ \E j \in JobId : ServerStep(j) \/ ArchiveStep(j) \/ ChildStep(j) \/ ChildFails(j)

Spec == Init /\ [][Next]_vars

(* A runner's own steps are scheduled by tokio, and the pool's statements    *)
(* have a statement_timeout.  A child may hang: only the timeout's kill is   *)
(* fair.                                                                     *)
KillSpec == Spec /\ \A j \in JobId : WF_vars(ServerStep(j)) /\ WF_vars(ChildFails(j))

(* Under the assumption that pg_restore, which only reads and writes local   *)
(* files here, ends.                                                         *)
FairSpec == KillSpec /\ \A j \in JobId : WF_vars(ArchiveStep(j))

-----------------------------------------------------------------------------
(* Every variable stays in its type. *)
TypeOK ==
    /\ gate \in JobId \cup {Free}
    /\ status \in [JobId -> InFlight \cup {"absent", "succeeded", "failed"}]
    /\ jobs \in 0..MaxJobs
    /\ pc \in [JobId -> ChildPC \cup {"idle", "queued", "check", "validate", "decode", "probe",
                                      "clamp", "truncate", "refresh", "promote", "publish",
                                      "cleanup", "drop"}]
    /\ work \in [JobId -> JobWork \cup {NoWork}]
    /\ asked \subseteq Name
    /\ snap \in [Name -> Dump \cup {NoDump, Torn}]
    /\ part \in [Name -> Dump \cup {NoDump, Torn}]
    /\ estate \in Estate
    /\ signer \in Tenant \cup {Nil}
    /\ seq \in Nat /\ puts \in Nat /\ restarts \in Nat /\ peak \in Nat

(* With the gate free no poll shows a job queued or running: what a client   *)
(* sees as in flight holds the permit (job.rs:680-714, snapshot.rs:173-186). *)
GateFreeMeansSettled ==
    gate = Free => \A j \in JobId : status[j] \notin InFlight

(* The registry stays within its retention and never forgets the job in      *)
(* flight (job.rs:155-176, control.rs:259-270).                              *)
RegistryBounded ==
    /\ Cardinality(Registered) <= Retention
    /\ gate # Free => gate \in Registered

(* A job that changes the tenant is published only when the served identity  *)
(* is the tenant the estate holds (job.rs:309-340).                          *)
SuccessServesTenant ==
    \A j \in JobId : pc[j] = "drop" /\ status[j] = "succeeded"
                         /\ work[j].kind \in {"generate", "reset", "restore"} =>
        signer = estate.tenant

(* A save is published only when the artifact of its name is the dump it     *)
(* took (snapshot.rs:188-218).                                               *)
SuccessPublishesDump ==
    \A j \in JobId : pc[j] = "drop" /\ status[j] = "succeeded" /\ work[j].kind = "save" =>
        snap[work[j].name] = work[j].dump

(* No file a restore would take is a dump cut short, whatever fails and      *)
(* whenever the server dies (snapshot.rs:152-172).                           *)
SnapshotsAreWhole == \A n \in Name : snap[n] # Torn

(* A restore that succeeds leaves the sequence where it found it, or ahead   *)
(* (snapshot.rs:426-450).                                                    *)
RestoreKeepsRevision ==
    \A j \in JobId : pc[j] = "drop" /\ status[j] = "succeeded" /\ work[j].kind = "restore" =>
        seq >= work[j].pre

(* From its check on, a restore's artifact is not removed nor replaced until *)
(* it is decoded (control.rs:400-429).                                       *)
ArchiveHeld ==
    [][\A j \in JobId : pc[j] \in {"validate", "decode"} =>
          snap'[work[j].name] = snap[work[j].name]]_vars

(* While a restore runs the tenant of the estate changes only to the one of  *)
(* the archive: a failed load leaves the estate (snapshot.rs:288-302).       *)
RestoreIsAtomic ==
    [][\A j \in JobId : pc[j] # "idle" /\ work[j].kind = "restore"
                            /\ estate'.tenant # estate.tenant =>
          pc[j] = "loaded" /\ estate' = work[j].dump.estate]_vars

(* Every accepted job ends, its permit given back, even if a child hangs     *)
(* (job.rs:629-641, 712-713).                                                *)
JobsEnd ==
    \A j \in JobId : pc[j] # "idle" ~>
        pc[j] = "idle" /\ status[j] \notin InFlight /\ gate # j

(* At rest the revision counter has not rewound below a revision given out   *)
(* (snapshot.rs:374-381, 427-432).                                           *)
RevisionsNeverRewind == gate = Free => seq >= peak

(* At rest the served identity is the tenant of the estate (job.rs:230-235). *)
IdentityTracksTenant == gate = Free => signer = estate.tenant
=============================================================================
