--------------------- MODULE EstateProvisioning_proofs ---------------------
(***************************************************************************)
(* Proofs about EstateProvisioning, for any number of concurrent generate  *)
(* and init-db commands.  Most steps move one command and its locks        *)
(* (Moves); a step that also changes the database disturbs no other        *)
(* command (Quiet), which is what the locks are for.                       *)
(***************************************************************************)
EXTENDS EstateProvisioning, TLAPS

(* The places of a command: provisioning, past the audit with a write ahead *)
(* of it, past the audit, at the indexes, and past the provisioning.        *)
Provisioning == {"drift", "provision", "fold", "cutover"}
Writing == {"prompt", "generate", "truncate", "clear", "copy_tenant", "copy_resources",
            "copy_dependents", "copy_cost", "copy_identity", "commit"}
Audited == Writing \cup {"gate", "look"}
Building == {"build", "validate", "repair", "retire", "drop"}
Provisioned == Audited \cup Building \cup {"audit", "builder", "done"}

Divergent == AuditFails /\ arm_id_identity_switchover_active

(* A generate holds its session lock throughout, a builder its own.         *)
LockOK(p) ==
    /\ cmd[p] # "init_db" /\ pc[p] \notin Ended \cup {"start"} => lock["generate"] = p
    /\ pc[p] \in Building => lock["builder"] = p

(* Only a generate writes; past the provisioning the base is there.         *)
PlaceOK(p) ==
    /\ pc[p] \in Audited \cup {"audit"} => cmd[p] # "init_db"
    /\ pc[p] \in Provisioning => base = "complete" \/ lock["schema"] = p
    /\ pc[p] \in Provisioned => base = "complete"

(* What an audit has found stays true until it is acted on.                 *)
AuditOK(p) ==
    /\ pc[p] \in Audited => ~Divergent
    /\ pc[p] = "drop" => legacy = {} \/ ~AuditFails

OthersEmpty == \A t \in _SYNTHETIC_TABLES \ {"overlay"} : rows[t] = Nothing

(* So does what the gate has found; the COPYs respect the foreign keys.     *)
GateOK(p) ==
    /\ cmd[p] = "if_empty" /\ pc[p] \in Writing => OthersEmpty
    /\ "resources" \in loaded[p] => "tenant" \in loaded[p]

(* A builder has validated the indexes it has no more to build, and none    *)
(* repairs one once some command has reported success.                      *)
IndexOK(p) ==
    /\ pc[p] \notin Building \cup Ended => index[p] = Index
    /\ pc[p] \in {"build", "validate", "repair"} => index[p] # {}
    /\ pc[p] \in {"retire", "drop"} => index[p] = {}
    /\ pc[p] \in Building => \A i \in Index \ index[p] : fold[i] = "valid"
    /\ pc[p] = "repair" => \A q \in Proc : pc[q] # "done"

ProcOK(p) == LockOK(p) /\ PlaceOK(p) /\ AuditOK(p) /\ GateOK(p) /\ IndexOK(p)

(* The base is created under its lock; only a volume with a base diverges.  *)
BaseOK ==
    /\ clashes => base = "complete"
    /\ lock["schema"] # Nobody => base = "bare"
    /\ base = "bare" => legacy = {}

(* Rows of a command came with its tenant, and nothing else stayed.         *)
RowsOK ==
    /\ NoLeakedRows
    /\ rows["resources"] \in Proc => rows["tenant"] = rows["resources"]

IInv ==
    /\ TypeOK
    /\ BaseOK
    /\ RowsOK
    /\ DoneMeansSwitched
    /\ \A p \in Proc : ProcOK(p)

(* What a step of p leaves to the other commands.                           *)
Quiet(p) ==
    /\ cmd' = cmd
    /\ \A q \in Proc \ {p} : pc'[q] = pc[q] /\ loaded'[q] = loaded[q] /\ index'[q] = index[q]
    /\ \A l \in Lock : lock[l] \notin {p, Nobody} => lock'[l] = lock[l]
    /\ base = "complete" => base' = "complete"
    /\ AuditFails' => AuditFails
    /\ Divergent' => Divergent
    /\ legacy = {} /\ AuditFails' => legacy' = {}
    /\ lock["generate"] # p /\ OthersEmpty => OthersEmpty'
    /\ lock["builder"] # p => \A i \in Index : fold[i] = "valid" => fold'[i] = "valid"
    /\ lock["builder"] # p => pc'[p] # "done"

(* A step that leaves the database as it is, seen by its own command.       *)
Stays(p, step) ==
    /\ pc'[p] = step /\ cmd'[p] = cmd[p] /\ index'[p] = index[p]
    /\ base' = base /\ fold' = fold /\ legacy' = legacy
    /\ AuditFails' <=> AuditFails
    /\ Divergent' <=> Divergent
    /\ OthersEmpty' <=> OthersEmpty
    /\ \A q \in Proc : pc'[q] = "done" => pc[q] = "done"

-----------------------------------------------------------------------------
LEMMA TakeFacts ==
    ASSUME lock \in [Lock -> Proc \cup {Nobody}], NEW p \in Proc, NEW l \in Lock,
           Available(p, l), Take(p, {l})
    PROVE  /\ lock' \in [Lock -> Proc \cup {Nobody}]
           /\ lock'[l] = p
           /\ \A m \in Lock : m # l => lock'[m] = lock[m]
           /\ \A m \in Lock : lock[m] \notin {p, Nobody} => lock'[m] = lock[m]
           /\ \A m \in Lock : lock[m] = p => lock'[m] = p
  BY DEF Available, Take

LEMMA ReleaseFacts ==
    ASSUME lock \in [Lock -> Proc \cup {Nobody}], NEW p \in Proc, NEW L, Release(p, L)
    PROVE  /\ lock' \in [Lock -> Proc \cup {Nobody}]
           /\ \A m \in Lock : lock'[m] # lock[m] => lock'[m] = Nobody
           /\ \A m \in Lock : m \in L => lock'[m] # p
           /\ \A m \in Lock : lock[m] \notin {p, Nobody} => lock'[m] = lock[m]
           /\ \A m \in Lock : lock[m] = p /\ m \notin L => lock'[m] = p
  BY ProvisioningAssumption DEF Release

(* The other commands' part of the invariant outlives a quiet step.         *)
LEMMA OthersKept ==
    ASSUME IInv, NEW p \in Proc, Quiet(p), NEW q \in Proc \ {p}
    PROVE  ProcOK(q)'
  <1>1. ProcOK(q) /\ q \in Proc /\ q # p /\ q # Nobody
    BY ProvisioningAssumption DEF IInv
  <1>2. pc'[q] = pc[q] /\ loaded'[q] = loaded[q] /\ index'[q] = index[q] /\ cmd'[q] = cmd[q]
    BY DEF Quiet
  <1>3. \A l \in Lock : lock[l] = q => lock'[l] = q
    BY <1>1 DEF Quiet
  <1>4. LockOK(q)'
    BY <1>1, <1>2, <1>3 DEF ProcOK, LockOK, Lock
  <1>5. PlaceOK(q)'
    BY <1>1, <1>2, <1>3 DEF ProcOK, PlaceOK, Lock, Quiet
  <1>6. AuditOK(q)'
    BY <1>1, <1>2 DEF ProcOK, AuditOK, Quiet
  <1>7. GateOK(q)'
    <2>1. cmd[q] = "if_empty" /\ pc[q] \in Writing => lock["generate"] = q
      BY <1>1 DEF ProcOK, LockOK, Ended, Writing
    <2> QED
      BY <1>1, <1>2, <2>1 DEF ProcOK, GateOK, Quiet
  <1>8. IndexOK(q)'
    <2>1. pc[q] \in Building => lock["builder"] # p
      BY <1>1 DEF ProcOK, LockOK
    <2>2. pc[q] \in Building => \A i \in Index \ index[q] : fold'[i] = "valid"
      BY <1>1, <2>1 DEF ProcOK, IndexOK, Quiet
    <2>3. pc[q] = "repair" => \A r \in Proc : pc'[r] # "done"
      <3> SUFFICES ASSUME pc[q] = "repair", NEW r \in Proc PROVE pc'[r] # "done"
        OBVIOUS
      <3>1. CASE r = p
        BY <2>1, <3>1 DEF Building, Quiet
      <3>2. CASE r # p
        BY <1>1, <3>2 DEF ProcOK, IndexOK, Quiet
      <3> QED
        BY <3>1, <3>2
    <2> QED
      BY <1>1, <1>2, <2>2, <2>3 DEF ProcOK, IndexOK
  <1> QED
    BY <1>4, <1>5, <1>6, <1>7, <1>8 DEF ProcOK

(* A quiet step needs the rest of the invariant and its own command's part. *)
LEMMA Assemble ==
    ASSUME IInv, NEW p \in Proc, Quiet(p), TypeOK', BaseOK', RowsOK', DoneMeansSwitched', ProcOK(p)'
    PROVE  IInv'
  <1>1. ASSUME NEW q \in Proc PROVE ProcOK(q)'
    BY OthersKept
  <1> QED
    BY <1>1 DEF IInv

(* A step that moves p, changes its locks and leaves the database.          *)
LEMMA Moves ==
    ASSUME IInv, NEW p \in Proc, NEW step \in Steps \ {"done"}, Goto(p, step),
           UNCHANGED <<catalog, estate, cmd, index, puts>>, kills' \in 0..MaxKills,
           loaded' \in [Proc -> SUBSET _SYNTHETIC_TABLES],
           \A q \in Proc \ {p} : loaded'[q] = loaded[q],
           lock' \in [Lock -> Proc \cup {Nobody}],
           \A l \in Lock : lock[l] \notin {p, Nobody} => lock'[l] = lock[l],
           \A l \in Lock : lock'[l] # lock[l] => lock'[l] \in {p, Nobody},
           step \in Ended => \A l \in Lock : lock'[l] # p,
           lock'["schema"] # Nobody => base = "bare",
           ProcOK(p)'
    PROVE  IInv'
  <1>1. pc \in [Proc -> Steps] /\ pc' = [pc EXCEPT ![p] = step]
    BY DEF IInv, TypeOK, Goto
  <1>2. TypeOK'
    <2>1. \A q \in Proc, l \in Lock : lock'[l] = q => pc'[q] \notin Ended
      <3> SUFFICES ASSUME NEW q \in Proc, NEW l \in Lock, lock'[l] = q PROVE pc'[q] \notin Ended
        OBVIOUS
      <3>1. CASE q = p
        BY <1>1, <3>1
      <3>2. CASE q # p
        <4>1. lock[l] = q
          BY <3>2, ProvisioningAssumption
        <4> QED
          BY <1>1, <3>2, <4>1 DEF IInv, TypeOK
      <3> QED
        BY <3>1, <3>2
    <2> QED
      BY <1>1, <2>1 DEF IInv, TypeOK, catalog, estate
  <1>3. BaseOK'
    BY DEF IInv, BaseOK, catalog, estate
  <1>4. RowsOK'
    BY DEF IInv, RowsOK, NoLeakedRows, estate
  <1>5. DoneMeansSwitched'
    BY <1>1 DEF IInv, DoneMeansSwitched, catalog
  <1>6. Quiet(p)
    BY <1>1 DEF Quiet, AuditFails, Divergent, arm_id_identity_switchover_active, OthersEmpty,
                catalog, estate
  <1> QED
    BY <1>2, <1>3, <1>4, <1>5, <1>6, Assemble

(* An Acquire, seen by its own command.                                     *)
LEMMA AcquireFacts ==
    ASSUME IInv, NEW p \in Proc, NEW from \in Steps, NEW l \in Lock, NEW step \in Steps \ Ended,
           Acquire(p, from, l, step)
    PROVE  /\ pc[p] = from /\ Stays(p, step) /\ loaded'[p] = loaded[p]
           /\ lock'[l] = p /\ \A m \in Lock : lock[m] = p => lock'[m] = p
  <1>1. pc \in [Proc -> Steps] /\ pc' = [pc EXCEPT ![p] = step] /\ step # "done"
    BY DEF IInv, TypeOK, Acquire, Goto, Ended
  <1>2. Stays(p, step)
    BY <1>1 DEF Acquire, Stays, AuditFails, Divergent, arm_id_identity_switchover_active,
                OthersEmpty, catalog, estate, own
  <1> QED
    BY <1>2, TakeFacts DEF IInv, TypeOK, Acquire, own

LEMMA AcquireKeeps ==
    ASSUME IInv, NEW p \in Proc, NEW from \in Steps, NEW l \in Lock, NEW step \in Steps \ Ended,
           Acquire(p, from, l, step), l = "schema" => base = "bare", ProcOK(p)'
    PROVE  IInv'
  <1>1. /\ lock' \in [Lock -> Proc \cup {Nobody}]
        /\ lock'[l] = p
        /\ \A m \in Lock : m # l => lock'[m] = lock[m]
        /\ \A m \in Lock : lock[m] \notin {p, Nobody} => lock'[m] = lock[m]
    BY TakeFacts DEF IInv, TypeOK, Acquire
  <1>2. lock'["schema"] # Nobody => base = "bare"
    BY <1>1 DEF IInv, BaseOK, Lock
  <1>3. /\ step # "done" /\ Goto(p, step)
        /\ UNCHANGED <<catalog, estate, cmd, index, puts>> /\ kills' \in 0..MaxKills
        /\ loaded' \in [Proc -> SUBSET _SYNTHETIC_TABLES]
        /\ \A q \in Proc \ {p} : loaded'[q] = loaded[q]
    BY DEF IInv, TypeOK, Acquire, Ended, own, bounds
  <1> QED
    BY <1>1, <1>2, <1>3, Moves

(* A step that only moves its command.                                      *)
LEMMA BranchFacts ==
    ASSUME IInv, NEW p \in Proc, NEW step \in Steps \ Ended, Branch(p, step)
    PROVE  Stays(p, step) /\ loaded'[p] = loaded[p] /\ lock' = lock
  <1>1. pc \in [Proc -> Steps] /\ pc' = [pc EXCEPT ![p] = step] /\ step # "done"
    BY DEF IInv, TypeOK, Branch, Goto, Ended
  <1> QED
    BY <1>1 DEF Branch, Stays, AuditFails, Divergent, arm_id_identity_switchover_active,
                OthersEmpty, catalog, estate, own

LEMMA BranchKeeps ==
    ASSUME IInv, NEW p \in Proc, NEW step \in Steps \ Ended, Branch(p, step), ProcOK(p)'
    PROVE  IInv'
  <1>1. /\ step # "done" /\ Goto(p, step) /\ lock' = lock
        /\ UNCHANGED <<catalog, estate, cmd, index, puts>> /\ kills' \in 0..MaxKills
        /\ loaded' \in [Proc -> SUBSET _SYNTHETIC_TABLES]
        /\ \A q \in Proc \ {p} : loaded'[q] = loaded[q]
    BY DEF IInv, TypeOK, Branch, Ended, own, bounds
  <1>2. lock'["schema"] # Nobody => base = "bare"
    BY <1>1 DEF IInv, BaseOK
  <1>3. lock' \in [Lock -> Proc \cup {Nobody}]
    BY <1>1 DEF IInv, TypeOK
  <1> QED
    BY <1>1, <1>2, <1>3, Moves

(* A command that gives up keeps nothing and breaks nothing.                *)
LEMMA GivingUp ==
    ASSUME IInv, NEW p \in Proc, NEW step \in {"failed", "refused"}, End(p, step),
           UNCHANGED <<catalog, estate, cmd, index, puts>>, kills' \in 0..MaxKills,
           loaded' = loaded \/ loaded' = [loaded EXCEPT ![p] = {}]
    PROVE  IInv'
  <1>1. /\ lock' \in [Lock -> Proc \cup {Nobody}]
        /\ \A m \in Lock : lock'[m] # lock[m] => lock'[m] = Nobody
        /\ \A m \in Lock : lock'[m] # p
        /\ \A m \in Lock : lock[m] \notin {p, Nobody} => lock'[m] = lock[m]
    BY ReleaseFacts DEF IInv, TypeOK, End
  <1>2. lock'["schema"] # Nobody => base = "bare"
    BY <1>1 DEF IInv, BaseOK, Lock
  <1>3. loaded' \in [Proc -> SUBSET _SYNTHETIC_TABLES] /\ \A q \in Proc \ {p} : loaded'[q] = loaded[q]
    BY DEF IInv, TypeOK
  <1>4. step \in Steps \ {"done"} /\ Goto(p, step) /\ pc'[p] = step
    BY DEF IInv, TypeOK, Steps, Ended, End, Goto
  <1>5. "resources" \in loaded'[p] => "tenant" \in loaded'[p]
    BY DEF IInv, TypeOK, ProcOK, GateOK
  <1>6. ProcOK(p)'
    BY <1>4, <1>5 DEF ProcOK, LockOK, PlaceOK, AuditOK, GateOK, IndexOK, Ended, Provisioning,
                      Writing, Audited, Building, Provisioned
  <1> QED
    BY <1>1, <1>2, <1>3, <1>4, <1>6, Moves

LEMMA FailKeeps ==
    ASSUME IInv, NEW p \in Proc, Fail(p)
    PROVE  IInv'
  BY GivingUp DEF IInv, TypeOK, Fail, own, bounds

-----------------------------------------------------------------------------
LEMMA InitInvariant == Init => IInv
  <1> SUFFICES ASSUME Init PROVE IInv
    OBVIOUS
  <1>1. /\ base \in {"bare", "partial", "complete"} /\ check \in {"absent", "lower", "key"}
        /\ rows \in [_SYNTHETIC_TABLES -> {Earlier, Nothing}] /\ clashes \in BOOLEAN
        /\ legacy \subseteq Index
        /\ clashes => base = "complete"
        /\ base = "bare" => legacy = {}
    BY DEF Init, Volume, OnlyIn
  <1>2. TypeOK
    BY <1>1, ProvisioningAssumption DEF Init, TypeOK, Steps, Ended, Lock
  <1>3. BaseOK
    BY <1>1 DEF Init, BaseOK, Lock
  <1>4. RowsOK
    BY <1>1, ProvisioningAssumption DEF RowsOK, NoLeakedRows, _SYNTHETIC_TABLES
  <1>5. DoneMeansSwitched
    BY DEF Init, DoneMeansSwitched
  <1>6. ASSUME NEW p \in Proc PROVE ProcOK(p)
    BY DEF Init, ProcOK, LockOK, PlaceOK, AuditOK, GateOK, IndexOK, Ended, Provisioning, Writing,
           Audited, Building, Provisioned
  <1> QED
    BY <1>2, <1>3, <1>4, <1>5, <1>6 DEF IInv

LEMMA BeginKeeps ==
    ASSUME IInv, NEW p \in Proc, Begin(p)
    PROVE  IInv'
  <1>0. ProcOK(p) /\ "base" \in Steps \ Ended /\ "start" \in Steps /\ "generate" \in Lock
    BY DEF IInv, Steps, Ended, Lock
  <1>1. CASE Acquire(p, "start", "generate", "base")
    <2>1. /\ pc[p] = "start" /\ Stays(p, "base") /\ loaded'[p] = loaded[p]
          /\ lock'["generate"] = p
      BY <1>0, <1>1, AcquireFacts
    <2>2. ProcOK(p)'
      BY <1>0, <2>1 DEF Stays, ProcOK, LockOK, PlaceOK, AuditOK, GateOK, IndexOK, Ended,
           Provisioning, Writing, Audited, Building, Provisioned
    <2> QED
      BY <1>0, <1>1, <2>2, AcquireKeeps
  <1>2. CASE cmd[p] = "init_db" /\ pc[p] = "start" /\ Branch(p, "base")
    <2>1. Stays(p, "base") /\ loaded'[p] = loaded[p] /\ lock' = lock
      BY <1>0, <1>2, BranchFacts
    <2>2. ProcOK(p)'
      BY <1>0, <1>2, <2>1 DEF Stays, ProcOK, LockOK, PlaceOK, AuditOK, GateOK, IndexOK, Ended,
           Provisioning, Writing, Audited, Building, Provisioned
    <2> QED
      BY <1>0, <1>2, <2>2, BranchKeeps
  <1> QED
    BY <1>1, <1>2, FailKeeps DEF Begin, acquire_generate_lock_session, init_db

(* The base: found complete, created under its lock, or refused.            *)
LEMMA BaseKeeps ==
    ASSUME IInv, NEW p \in Proc, ensure_base_schema(p) \/ CreateBase(p)
    PROVE  IInv'
  <1>0. /\ ProcOK(p) /\ {"create", AfterBase(p)} \subseteq Steps \ Ended /\ "schema" \in Lock
        /\ AfterBase(p) \in {"drift", "provision"}
    BY DEF IInv, Steps, Ended, Lock, AfterBase
  <1>1. CASE pc[p] = "base" /\ base = "complete" /\ Branch(p, AfterBase(p))
    <2>1. Stays(p, AfterBase(p)) /\ loaded'[p] = loaded[p] /\ lock' = lock
      BY <1>0, <1>1, BranchFacts
    <2>2. ProcOK(p)'
      BY <1>0, <1>1, <2>1 DEF Stays, ProcOK, LockOK, PlaceOK, AuditOK, GateOK, IndexOK, Ended,
           Provisioning, Writing, Audited, Building, Provisioned
    <2> QED
      BY <1>0, <1>1, <2>2, BranchKeeps
  <1>2. CASE pc[p] = "base" /\ Branch(p, "create")
    <2>1. Stays(p, "create") /\ loaded'[p] = loaded[p] /\ lock' = lock
      BY <1>0, <1>2, BranchFacts
    <2>2. ProcOK(p)'
      BY <1>0, <1>2, <2>1 DEF Stays, ProcOK, LockOK, PlaceOK, AuditOK, GateOK, IndexOK, Ended,
           Provisioning, Writing, Audited, Building, Provisioned
    <2> QED
      BY <1>0, <1>2, <2>2, BranchKeeps
  <1>3. CASE base = "bare" /\ Acquire(p, "create", "schema", AfterBase(p))
    <2>1. /\ pc[p] = "create" /\ Stays(p, AfterBase(p)) /\ loaded'[p] = loaded[p]
          /\ lock'["schema"] = p /\ \A m \in Lock : lock[m] = p => lock'[m] = p
      BY <1>0, <1>3, AcquireFacts DEF Steps
    <2>2. ProcOK(p)'
      BY <1>0, <2>1 DEF Stays, ProcOK, LockOK, PlaceOK, AuditOK, GateOK, IndexOK, Ended, Lock,
           Provisioning, Writing, Audited, Building, Provisioned
    <2> QED
      BY <1>0, <1>3, <2>2, AcquireKeeps DEF Steps
  <1> QED
    BY <1>1, <1>2, <1>3, FailKeeps DEF ensure_base_schema, CreateBase

(* A step on to the next lock inside the provisioning.                      *)
LEMMA ProvisionKeeps ==
    ASSUME IInv, NEW p \in Proc, NEW from \in {"drift", "provision", "fold"},
           NEW l \in {"resources", "tenant", "fold"}, NEW step \in {"provision", "fold", "cutover"},
           Acquire(p, from, l, step)
    PROVE  IInv'
  <1>0. ProcOK(p) /\ from \in Steps /\ l \in Lock /\ l # "schema" /\ step \in Steps \ Ended
    BY DEF IInv, Steps, Ended, Lock
  <1>1. /\ pc[p] = from /\ Stays(p, step) /\ loaded'[p] = loaded[p]
        /\ \A m \in Lock : lock[m] = p => lock'[m] = p
    BY <1>0, AcquireFacts
  <1>2. LockOK(p)' /\ PlaceOK(p)'
    BY <1>0, <1>1 DEF Stays, ProcOK, LockOK, PlaceOK, Ended, Lock,
           Provisioning, Writing, Audited, Building, Provisioned
  <1>3. AuditOK(p)' /\ GateOK(p)' /\ IndexOK(p)'
    BY <1>0, <1>1 DEF Stays, ProcOK, AuditOK, GateOK, IndexOK, Ended,
           Provisioning, Writing, Audited, Building, Provisioned
  <1> QED
    BY <1>0, <1>2, <1>3, AcquireKeeps DEF ProcOK

(* The commit of a provisioning: the base is complete from then on.         *)
LEMMA CommitFacts ==
    ASSUME IInv, NEW p \in Proc, pc[p] \in Provisioning, base' = BaseAfter(p),
           legacy' = LegacyAfter(p), NEW step \in {"audit", "builder"}, Goto(p, step),
           Release(p, Transaction), check' \in {"absent", "lower", "key"},
           check' = "lower" => check = "lower",
           UNCHANGED <<fold, estate, own, bounds>>, step = "audit" => cmd[p] # "init_db"
    PROVE  IInv'
  <1>0. /\ ProcOK(p) /\ pc \in [Proc -> Steps] /\ pc' = [pc EXCEPT ![p] = step]
        /\ step \in Steps \ Ended /\ p # Nobody
    BY ProvisioningAssumption DEF IInv, TypeOK, Goto, Steps, Ended
  <1>1. /\ lock' \in [Lock -> Proc \cup {Nobody}]
        /\ \A m \in Lock : lock'[m] # lock[m] => lock'[m] = Nobody
        /\ \A m \in Lock : lock[m] \notin {p, Nobody} => lock'[m] = lock[m]
        /\ \A m \in Lock : lock[m] = p /\ m \notin Transaction => lock'[m] = p
        /\ \A m \in Lock : m \in Transaction => lock'[m] # p
    BY ReleaseFacts DEF IInv, TypeOK
  <1>2. base' = "complete" /\ lock'["schema"] = Nobody
    <2>1. base = "complete" \/ lock["schema"] = p
      BY <1>0 DEF ProcOK, PlaceOK
    <2>2. base' = "complete"
      BY <2>1 DEF BaseAfter
    <2>3. CASE lock["schema"] = p
      BY <1>0, <1>1, <2>2, <2>3 DEF Lock, Transaction
    <2>4. CASE base = "complete"
      <3>1. lock["schema"] = Nobody
        BY <2>4 DEF IInv, BaseOK
      <3> QED
        BY <1>1, <2>2, <3>1 DEF Lock
    <2> QED
      BY <2>1, <2>2, <2>3, <2>4
  <1>3. clashes => legacy' = legacy
    BY <1>0 DEF IInv, BaseOK, LegacyAfter
  <1>4. legacy' \subseteq Index /\ (legacy' # legacy => ~clashes /\ lock["schema"] = p)
    BY <1>3 DEF LegacyAfter, Index, IInv, TypeOK
  <1>5. TypeOK'
    <2>1. \A q \in Proc, l \in Lock : lock'[l] = q => pc'[q] \notin Ended
      <3> SUFFICES ASSUME NEW q \in Proc, NEW l \in Lock, lock'[l] = q PROVE pc'[q] \notin Ended
        OBVIOUS
      <3>1. lock[l] = q
        BY <1>1, ProvisioningAssumption
      <3> QED
        BY <1>0, <3>1 DEF IInv, TypeOK
    <2> QED
      BY <1>0, <1>1, <1>2, <1>4, <2>1 DEF IInv, TypeOK, estate, own, bounds
  <1>6. BaseOK' /\ RowsOK'
    BY <1>2 DEF IInv, BaseOK, RowsOK, NoLeakedRows, estate
  <1>7. ~AuditFails' => ~Divergent'
    BY DEF Divergent
  <1>8. (AuditFails' <=> AuditFails) /\ (Divergent' => Divergent) /\ (OthersEmpty' <=> OthersEmpty)
    BY <1>3 DEF AuditFails, Divergent, arm_id_identity_switchover_active, OthersEmpty, estate
  <1>9. \A q \in Proc : pc[q] = "done" => base = "complete"
    BY DEF IInv, ProcOK, PlaceOK, Provisioned
  <1>10. DoneMeansSwitched'
    <2>1. (\E q \in Proc : pc'[q] = "done") => legacy' = legacy
      <3> SUFFICES ASSUME NEW q \in Proc, pc'[q] = "done" PROVE lock["schema"] # p
        BY <1>4
      <3>1. pc[q] = "done"
        BY <1>0 DEF Ended
      <3> QED
        BY <1>0, <1>9, <3>1 DEF IInv, BaseOK
    <2> QED
      BY <1>0, <2>1 DEF IInv, DoneMeansSwitched, Ended
  <1>11. Quiet(p)
    BY <1>0, <1>1, <1>2, <1>4, <1>8 DEF Quiet, AuditFails, Ended, own
  <1>12. ProcOK(p)'
    BY <1>0, <1>1, <1>2 DEF ProcOK, LockOK, PlaceOK, AuditOK, GateOK, IndexOK, Ended, Lock,
           Transaction, Provisioning, Writing, Audited, Building, Provisioned, own
  <1> QED
    BY <1>5, <1>6, <1>10, <1>11, <1>12, Assemble

LEMMA SchemaKeeps ==
    ASSUME IInv, NEW p \in Proc,
           \/ ensure_drift_schema(p) \/ ensure_web_metadata_schema(p)
           \/ ensure_arm_id_key_schema(p) \/ ensure_arm_id_identity_cutover_schema(p)
    PROVE  IInv'
  <1>1. CASE ensure_drift_schema(p) \/ ensure_web_metadata_schema(p)
    BY <1>1, ProvisionKeeps DEF ensure_drift_schema, ensure_web_metadata_schema
  <1>2. CASE ensure_arm_id_key_schema(p)
    <2>1. CASE Acquire(p, "fold", "fold", "cutover")
      BY <2>1, ProvisionKeeps
    <2>2. CASE cmd[p] # "init_db" /\ ~Acquire(p, "fold", "fold", "cutover")
      <3>1. pc[p] \in Provisioning /\ base' = BaseAfter(p) /\ legacy' = LegacyAfter(p)
            /\ Goto(p, "audit") /\ Release(p, Transaction)
            /\ UNCHANGED <<check, fold, estate, own, bounds>>
        BY <1>2, <2>2 DEF ensure_arm_id_key_schema, Provisioning
      <3>2. check' \in {"absent", "lower", "key"} /\ check' = check
        BY <3>1 DEF IInv, TypeOK
      <3> QED
        BY <2>2, <3>1, <3>2, CommitFacts
    <2> QED
      BY <1>2, <2>1, <2>2 DEF ensure_arm_id_key_schema
  <1>3. CASE ensure_arm_id_identity_cutover_schema(p)
    <2>1. CASE Fail(p)
      BY <2>1, FailKeeps
    <2>2. CASE ~Fail(p)
      <3>1. pc[p] \in Provisioning /\ base' = BaseAfter(p) /\ legacy' = LegacyAfter(p)
            /\ check' = "key" /\ Goto(p, "builder") /\ Release(p, Transaction)
            /\ UNCHANGED <<fold, estate, own, bounds>>
        BY <1>3, <2>2 DEF ensure_arm_id_identity_cutover_schema, Provisioning
      <3> QED
        BY <3>1, CommitFacts
    <2> QED
      BY <2>1, <2>2
  <1> QED
    BY <1>1, <1>2, <1>3

-----------------------------------------------------------------------------
(* The end of a transaction that leaves the database as it is.              *)
LEMMA LeaveFacts ==
    ASSUME IInv, NEW p \in Proc, NEW step \in Steps \ Ended, Goto(p, step),
           Release(p, Transaction), UNCHANGED <<catalog, estate, own, bounds>>
    PROVE  /\ Stays(p, step) /\ loaded'[p] = loaded[p]
           /\ \A m \in Lock \ Transaction : lock[m] = p => lock'[m] = p
  <1>1. pc \in [Proc -> Steps] /\ pc' = [pc EXCEPT ![p] = step] /\ step # "done"
    BY DEF IInv, TypeOK, Goto, Ended
  <1>2. Stays(p, step)
    BY <1>1 DEF Stays, AuditFails, Divergent, arm_id_identity_switchover_active, OthersEmpty,
                catalog, estate, own
  <1> QED
    BY <1>2, ReleaseFacts DEF IInv, TypeOK, own

LEMMA LeaveKeeps ==
    ASSUME IInv, NEW p \in Proc, NEW step \in Steps \ Ended, Goto(p, step),
           Release(p, Transaction), UNCHANGED <<catalog, estate, own, bounds>>, ProcOK(p)'
    PROVE  IInv'
  <1>1. /\ lock' \in [Lock -> Proc \cup {Nobody}]
        /\ \A m \in Lock : lock'[m] # lock[m] => lock'[m] = Nobody
        /\ \A m \in Lock : lock[m] \notin {p, Nobody} => lock'[m] = lock[m]
    BY ReleaseFacts DEF IInv, TypeOK
  <1>2. lock'["schema"] # Nobody => base = "bare"
    BY <1>1 DEF IInv, BaseOK, Lock
  <1>3. /\ step # "done"
        /\ UNCHANGED <<catalog, estate, cmd, index, puts>> /\ kills' \in 0..MaxKills
        /\ loaded' \in [Proc -> SUBSET _SYNTHETIC_TABLES]
        /\ \A q \in Proc \ {p} : loaded'[q] = loaded[q]
    BY DEF IInv, TypeOK, Ended, own, bounds
  <1> QED
    BY <1>1, <1>2, <1>3, Moves

(* The audit goes on only when nothing diverges during a switchover.        *)
LEMMA AuditKeeps ==
    ASSUME IInv, NEW p \in Proc, audit_arm_id_identity_during_switchover(p)
    PROVE  IInv'
  <1>1. CASE Fail(p)
    BY <1>1, FailKeeps
  <1>2. CASE ~Fail(p)
    <2>1. ProcOK(p) /\ pc[p] = "audit" /\ ~Divergent /\ Branch(p, "gate") /\ "gate" \in Steps \ Ended
      BY <1>2 DEF IInv, audit_arm_id_identity_during_switchover, Divergent, Steps, Ended
    <2>2. Stays(p, "gate") /\ loaded'[p] = loaded[p] /\ lock' = lock
      BY <2>1, BranchFacts
    <2>3. ProcOK(p)'
      BY <2>1, <2>2 DEF Stays, ProcOK, LockOK, PlaceOK, AuditOK, GateOK, IndexOK, Ended,
           Provisioning, Writing, Audited, Building, Provisioned
    <2> QED
      BY <2>1, <2>3, BranchKeeps
  <1> QED
    BY <1>1, <1>2

LEMMA GateKeeps ==
    ASSUME IInv, NEW p \in Proc, EstateGate(p)
    PROVE  IInv'
  <1>1. /\ ProcOK(p) /\ Acquire(p, "gate", "tenant", "look") /\ "look" \in Steps \ Ended
        /\ "gate" \in Steps /\ "tenant" \in Lock /\ "generate" \in Lock
    BY DEF IInv, EstateGate, Steps, Ended, Lock
  <1>2. /\ pc[p] = "gate" /\ Stays(p, "look") /\ loaded'[p] = loaded[p]
        /\ \A m \in Lock : lock[m] = p => lock'[m] = p
    BY <1>1, AcquireFacts
  <1>3. ProcOK(p)'
    BY <1>1, <1>2 DEF Stays, ProcOK, LockOK, PlaceOK, AuditOK, GateOK, IndexOK, Ended,
         Provisioning, Writing, Audited, Building, Provisioned
  <1> QED
    BY <1>1, <1>3, AcquireKeeps

(* --only-if-empty goes on to write only when it has seen nothing.          *)
LEMMA DecisionFacts ==
    ASSUME IInv, NEW p \in Proc, NEW step \in Decision(p)
    PROVE  /\ step \in {"builder", "prompt", "refused", "generate"}
           /\ cmd[p] = "if_empty" /\ step \in {"prompt", "generate"} => OthersEmpty
  BY DEF Decision, OthersEmpty, estate_is_empty, schema_is_empty, _SYNTHETIC_TABLES

LEMMA DecideKeeps ==
    ASSUME IInv, NEW p \in Proc, Decide(p)
    PROVE  IInv'
  <1>0. ProcOK(p) /\ pc[p] = "look" /\ "generate" \in Lock \ Transaction
    BY DEF IInv, Decide, Lock, Transaction
  <1>1. PICK step \in Decision(p) :
           CASE step = "refused" -> End(p, step)
             [] step = "prompt" -> Goto(p, step) /\ UNCHANGED lock
             [] OTHER -> Goto(p, step) /\ Release(p, Transaction)
    BY DEF Decide
  <1>2. UNCHANGED <<catalog, estate, own, bounds>>
    BY DEF Decide
  <1>3. /\ step \in {"builder", "prompt", "refused", "generate"}
        /\ cmd[p] = "if_empty" /\ step \in {"prompt", "generate"} => OthersEmpty
    BY DecisionFacts
  <1>4. CASE step = "refused"
    BY <1>1, <1>2, <1>4, GivingUp DEF IInv, TypeOK, own, bounds
  <1>5. CASE step = "prompt"
    <2>1. Branch(p, "prompt") /\ "prompt" \in Steps \ Ended
      BY <1>1, <1>2, <1>5 DEF Branch, Steps, Ended
    <2>2. Stays(p, "prompt") /\ loaded'[p] = loaded[p] /\ lock' = lock
      BY <2>1, BranchFacts
    <2>3. ProcOK(p)'
      BY <1>0, <1>3, <1>5, <2>2 DEF Stays, ProcOK, LockOK, PlaceOK, AuditOK, GateOK, IndexOK, Ended,
           Provisioning, Writing, Audited, Building, Provisioned
    <2> QED
      BY <2>1, <2>3, BranchKeeps
  <1>6. CASE step \in {"builder", "generate"}
    <2>1. Goto(p, step) /\ Release(p, Transaction) /\ step \in Steps \ Ended
      BY <1>1, <1>6 DEF Steps, Ended
    <2>2. Stays(p, step) /\ loaded'[p] = loaded[p] /\ (lock["generate"] = p => lock'["generate"] = p)
      BY <1>0, <1>2, <2>1, LeaveFacts
    <2>3. ProcOK(p)'
      BY <1>0, <1>3, <1>6, <2>2 DEF Stays, ProcOK, LockOK, PlaceOK, AuditOK, GateOK, IndexOK, Ended,
           Provisioning, Writing, Audited, Building, Provisioned
    <2> QED
      BY <1>2, <2>1, <2>3, LeaveKeeps
  <1> QED
    BY <1>3, <1>4, <1>5, <1>6

LEMMA ConfirmKeeps ==
    ASSUME IInv, NEW p \in Proc, Confirm(p)
    PROVE  IInv'
  <1>0. ProcOK(p) /\ pc[p] = "prompt" /\ "generate" \in Lock \ Transaction
    BY DEF IInv, Confirm, Lock, Transaction
  <1>1. UNCHANGED <<catalog, estate, own, bounds>>
    BY DEF Confirm
  <1>2. CASE End(p, "refused")
    BY <1>1, <1>2, GivingUp DEF IInv, TypeOK, own, bounds
  <1>3. CASE Goto(p, "generate") /\ Release(p, Transaction)
    <2>1. "generate" \in Steps \ Ended
      BY DEF Steps, Ended
    <2>2. Stays(p, "generate") /\ loaded'[p] = loaded[p] /\ (lock["generate"] = p => lock'["generate"] = p)
      BY <1>0, <1>1, <1>3, <2>1, LeaveFacts
    <2>3. ProcOK(p)'
      BY <1>0, <2>2 DEF Stays, ProcOK, LockOK, PlaceOK, AuditOK, GateOK, IndexOK, Ended,
           Provisioning, Writing, Audited, Building, Provisioned
    <2> QED
      BY <1>1, <1>3, <2>1, <2>3, LeaveKeeps
  <1> QED
    BY <1>2, <1>3 DEF Confirm

LEMMA GenerateKeeps ==
    ASSUME IInv, NEW p \in Proc, generate_tenant(p)
    PROVE  IInv'
  <1>1. CASE Fail(p)
    BY <1>1, FailKeeps
  <1>2. CASE Branch(p, "truncate")
    <2>1. ProcOK(p) /\ pc[p] = "generate" /\ "truncate" \in Steps \ Ended
      BY DEF IInv, generate_tenant, Steps, Ended
    <2>2. Stays(p, "truncate") /\ loaded'[p] = loaded[p] /\ lock' = lock
      BY <1>2, <2>1, BranchFacts
    <2>3. ProcOK(p)'
      BY <2>1, <2>2 DEF Stays, ProcOK, LockOK, PlaceOK, AuditOK, GateOK, IndexOK, Ended,
           Provisioning, Writing, Audited, Building, Provisioned
    <2> QED
      BY <1>2, <2>1, <2>3, BranchKeeps
  <1> QED
    BY <1>1, <1>2 DEF generate_tenant

LEMMA TruncateKeeps ==
    ASSUME IInv, NEW p \in Proc, truncate_synthetic(p)
    PROVE  IInv'
  <1>1. ASSUME NEW from \in {"truncate", "clear"}, NEW l \in {"tenant", "resources"},
               NEW step \in {"clear", "copy_tenant"}, Acquire(p, from, l, step)
        PROVE  IInv'
    <2>1. ProcOK(p) /\ from \in Steps /\ l \in Lock /\ l # "schema" /\ step \in Steps \ Ended
          /\ "generate" \in Lock
      BY DEF IInv, Steps, Ended, Lock
    <2>2. /\ pc[p] = from /\ Stays(p, step) /\ loaded'[p] = loaded[p]
          /\ \A m \in Lock : lock[m] = p => lock'[m] = p
      BY <1>1, <2>1, AcquireFacts
    <2>3. ProcOK(p)'
      BY <2>1, <2>2 DEF Stays, ProcOK, LockOK, PlaceOK, AuditOK, GateOK, IndexOK, Ended,
           Provisioning, Writing, Audited, Building, Provisioned
    <2> QED
      BY <1>1, <2>1, <2>3, AcquireKeeps
  <1> QED
    BY <1>1 DEF truncate_synthetic

(* A COPY fills tables whose foreign keys are filled.                       *)
LEMMA CopyKeeps ==
    ASSUME IInv, NEW p \in Proc, NEW from \in Writing, NEW T \in SUBSET _SYNTHETIC_TABLES,
           NEW step \in Writing, CopyInto(p, from, T, step)
    PROVE  IInv'
  <1>1. CASE Fail(p)
    BY <1>1, FailKeeps
  <1>2. CASE ~Fail(p)
    <2>1. /\ ProcOK(p) /\ pc[p] = from /\ step \in Steps \ Ended /\ step # "done" /\ Goto(p, step)
          /\ \A t \in T : ForeignKeys[t] \subseteq loaded[p]
          /\ loaded' = [loaded EXCEPT ![p] = @ \cup T]
          /\ UNCHANGED <<catalog, estate, lock, cmd, index, bounds>>
      BY <1>2 DEF IInv, CopyInto, Writing, Steps, Ended
    <2>2. /\ pc \in [Proc -> Steps] /\ pc'[p] = step
          /\ loaded'[p] = loaded[p] \cup T /\ \A q \in Proc \ {p} : loaded'[q] = loaded[q]
          /\ loaded' \in [Proc -> SUBSET _SYNTHETIC_TABLES] /\ kills' \in 0..MaxKills
          /\ lock' \in [Lock -> Proc \cup {Nobody}] /\ UNCHANGED puts
      BY <2>1 DEF IInv, TypeOK, Goto, bounds
    <2>3. "resources" \in loaded'[p] => "tenant" \in loaded'[p]
      <3>1. "resources" \in T => "tenant" \in loaded[p]
        BY <2>1 DEF ForeignKeys, _SYNTHETIC_TABLES
      <3> QED
        BY <2>1, <2>2, <3>1 DEF ProcOK, GateOK
    <2>4. LockOK(p)' /\ PlaceOK(p)'
      BY <2>1, <2>2 DEF ProcOK, LockOK, PlaceOK, Ended, Provisioning, Writing, Audited, Building,
           Provisioned, catalog
    <2>5. AuditOK(p)'
      BY <2>1, <2>2 DEF ProcOK, AuditOK, Writing, Audited, AuditFails, Divergent,
           arm_id_identity_switchover_active, catalog, estate
    <2>6. GateOK(p)' /\ IndexOK(p)'
      BY <2>1, <2>2, <2>3 DEF ProcOK, GateOK, IndexOK, Ended, Writing, Building, OthersEmpty, estate
    <2>7. lock'["schema"] # Nobody => base = "bare"
      BY <2>1 DEF IInv, BaseOK
    <2> QED
      BY <2>1, <2>2, <2>4, <2>5, <2>6, <2>7, Moves DEF ProcOK
  <1> QED
    BY <1>1, <1>2

LEMMA WriteKeeps ==
    ASSUME IInv, NEW p \in Proc, write_tenant(p)
    PROVE  IInv'
  <1>1. {"copy_tenant", "copy_resources", "copy_dependents", "copy_cost", "copy_identity", "commit"}
          \subseteq Writing
    BY DEF Writing
  <1>2. {{"tenant"}, {"resources"}, {"dependents"}, {"cost"}, {"identity"}, {}}
          \subseteq SUBSET _SYNTHETIC_TABLES
    BY DEF _SYNTHETIC_TABLES
  <1>3. CASE copy_tenant(p)
    BY <1>1, <1>2, <1>3, CopyKeeps DEF copy_tenant
  <1>4. CASE copy_resources(p)
    BY <1>1, <1>2, <1>4, CopyKeeps DEF copy_resources
  <1>5. CASE copy_dependents(p)
    BY <1>1, <1>2, <1>5, CopyKeeps DEF copy_dependents
  <1>6. CASE copy_cost_records(p)
    BY <1>1, <1>2, <1>6, CopyKeeps DEF copy_cost_records
  <1>7. CASE copy_identity(p)
    BY <1>1, <1>2, <1>7, CopyKeeps DEF copy_identity
  <1> QED
    BY <1>3, <1>4, <1>5, <1>6, <1>7 DEF write_tenant

(* The commit of the write: only rows of its command are left.              *)
LEMMA OpenWriterKeeps ==
    ASSUME IInv, NEW p \in Proc, open_writer(p)
    PROVE  IInv'
  <1>0. /\ ProcOK(p) /\ pc[p] = "commit" /\ "generate" \in Lock \ Transaction
        /\ pc \in [Proc -> Steps] /\ pc' = [pc EXCEPT ![p] = "builder"] /\ pc'[p] = "builder"
        /\ loaded' = [loaded EXCEPT ![p] = {}]
        /\ UNCHANGED <<base, check, legacy, clashes, cmd, index, bounds>>
        /\ p # Earlier /\ Nothing # Earlier /\ "builder" \in Steps
    BY ProvisioningAssumption DEF IInv, TypeOK, open_writer, Goto, Lock, Transaction, Steps
  <1>1. /\ lock' \in [Lock -> Proc \cup {Nobody}]
        /\ \A m \in Lock : lock'[m] # lock[m] => lock'[m] = Nobody
        /\ \A m \in Lock : lock[m] \notin {p, Nobody} => lock'[m] = lock[m]
        /\ lock["generate"] = p /\ lock'["generate"] = p
    <2>1. lock["generate"] = p
      BY <1>0 DEF ProcOK, LockOK, PlaceOK, Audited, Writing, Ended
    <2> QED
      BY <1>0, <2>1, ReleaseFacts DEF IInv, TypeOK, open_writer
  <1>2. /\ rows' \in [_SYNTHETIC_TABLES -> {p, Nothing}]
        /\ rows'["resources"] = p => rows'["tenant"] = p
    <2>1. rows' = Written(p)
      BY DEF open_writer
    <2>2. "resources" \in loaded[p] => "tenant" \in loaded[p]
      BY <1>0 DEF ProcOK, GateOK
    <2>3. rows' \in [_SYNTHETIC_TABLES -> {p, Nothing}]
      BY <2>1 DEF Written
    <2>4. rows'["resources"] = p => rows'["tenant"] = p
      BY <2>1, <2>2, ProvisioningAssumption DEF Written, _SYNTHETIC_TABLES
    <2> QED
      BY <2>3, <2>4
  <1>3. /\ fold' \in [Index -> {"absent", "invalid", "valid"}]
        /\ \A i \in Index : fold[i] = "valid" => fold'[i] = "valid"
    BY DEF IInv, TypeOK, open_writer, _dropped_secondary_indexes
  <1>4. ~AuditFails' /\ ~Divergent'
    <2>1. rows'["resources"] # Earlier
      BY <1>0, <1>2 DEF _SYNTHETIC_TABLES
    <2> QED
      BY <2>1 DEF AuditFails, Divergent
  <1>5. TypeOK'
    <2>1. \A q \in Proc, l \in Lock : lock'[l] = q => pc'[q] \notin Ended
      <3> SUFFICES ASSUME NEW q \in Proc, NEW l \in Lock, lock'[l] = q PROVE pc'[q] \notin Ended
        OBVIOUS
      <3>1. lock[l] = q
        BY <1>1, ProvisioningAssumption
      <3> QED
        BY <1>0, <3>1 DEF IInv, TypeOK, Ended
    <2>2. rows' \in [_SYNTHETIC_TABLES -> Proc \cup {Earlier, Nothing}]
      BY <1>2
    <2> QED
      BY <1>0, <1>1, <1>3, <2>1, <2>2 DEF IInv, TypeOK, bounds
  <1>6. BaseOK'
    BY <1>0, <1>1 DEF IInv, BaseOK, Lock
  <1>7. RowsOK'
    BY <1>2, ProvisioningAssumption DEF RowsOK, NoLeakedRows, _SYNTHETIC_TABLES
  <1>8. DoneMeansSwitched'
    BY <1>0, <1>3 DEF IInv, DoneMeansSwitched
  <1>9. Quiet(p)
    BY <1>0, <1>1, <1>3, <1>4 DEF Quiet
  <1>10. ProcOK(p)'
    <2>1. LockOK(p)' /\ PlaceOK(p)'
      BY <1>0, <1>1 DEF ProcOK, LockOK, PlaceOK, Ended, Provisioning, Writing, Audited, Building,
           Provisioned
    <2>2. loaded'[p] = {}
      BY <1>0 DEF IInv, TypeOK
    <2>3. AuditOK(p)' /\ GateOK(p)'
      BY <1>0, <2>2 DEF AuditOK, GateOK, Writing, Audited
    <2>4. IndexOK(p)'
      BY <1>0 DEF ProcOK, IndexOK, Ended, Building
    <2> QED
      BY <2>1, <2>3, <2>4 DEF ProcOK
  <1> QED
    BY <1>5, <1>6, <1>7, <1>8, <1>9, <1>10, Assemble

-----------------------------------------------------------------------------
LEMMA TakeBuilderKeeps ==
    ASSUME IInv, NEW p \in Proc, TakeBuilderLock(p)
    PROVE  IInv'
  <1>1. /\ ProcOK(p) /\ Acquire(p, "builder", "builder", "build") /\ "build" \in Steps \ Ended
        /\ "builder" \in Steps /\ "builder" \in Lock /\ "generate" \in Lock /\ Index # {}
    BY DEF IInv, TakeBuilderLock, Steps, Ended, Lock, Index
  <1>2. /\ pc[p] = "builder" /\ Stays(p, "build") /\ loaded'[p] = loaded[p] /\ lock'["builder"] = p
        /\ \A m \in Lock : lock[m] = p => lock'[m] = p
    BY <1>1, AcquireFacts
  <1>3. ProcOK(p)'
    BY <1>1, <1>2 DEF Stays, ProcOK, LockOK, PlaceOK, AuditOK, GateOK, IndexOK, Ended,
         Provisioning, Writing, Audited, Building, Provisioned
  <1> QED
    BY <1>1, <1>3, AcquireKeeps

LEMMA UnbuiltFacts ==
    ASSUME IInv, NEW p \in Proc, pc[p] \in {"build", "validate", "repair"}
    PROVE  Unbuilt(p) \in index[p] /\ Unbuilt(p) \in Index /\ lock["builder"] = p
  <1>1. index[p] # {} /\ lock["builder"] = p /\ index[p] \subseteq Index
    BY DEF IInv, TypeOK, ProcOK, LockOK, IndexOK, Building
  <1> QED
    BY <1>1 DEF Unbuilt

(* A builder that changes one index it has still to build, and goes on.     *)
LEMMA BuilderKeeps ==
    ASSUME IInv, NEW p \in Proc, pc[p] \in {"build", "repair"},
           NEW step \in {"build", "validate"}, Goto(p, step),
           NEW s \in {"absent", "valid"}, fold' = [fold EXCEPT ![Unbuilt(p)] = s],
           s = "valid" \/ \A q \in Proc : pc[q] # "done",
           UNCHANGED <<base, check, legacy, estate, lock, own, bounds>>
    PROVE  IInv'
  <1>0. /\ ProcOK(p) /\ pc' = [pc EXCEPT ![p] = step] /\ pc'[p] = step /\ step \in Steps \ Ended
        /\ lock["builder"] = p /\ Unbuilt(p) \in index[p] /\ Unbuilt(p) \in Index
        /\ pc \in [Proc -> Steps]
    BY UnbuiltFacts DEF IInv, TypeOK, Goto, Steps, Ended
  <1>1. TypeOK'
    BY <1>0 DEF IInv, TypeOK, estate, own, bounds
  <1>2. BaseOK' /\ RowsOK'
    BY DEF IInv, BaseOK, RowsOK, NoLeakedRows, estate
  <1>3. DoneMeansSwitched'
    BY <1>0 DEF IInv, TypeOK, DoneMeansSwitched, Ended
  <1>4. Quiet(p)
    BY <1>0 DEF Quiet, AuditFails, Divergent, arm_id_identity_switchover_active, OthersEmpty,
                estate, own
  <1>5. LockOK(p)' /\ PlaceOK(p)'
    BY <1>0 DEF ProcOK, LockOK, PlaceOK, Ended, Provisioning, Writing, Audited, Building,
                Provisioned, own
  <1>6. AuditOK(p)' /\ GateOK(p)'
    BY <1>0 DEF ProcOK, AuditOK, GateOK, Audited, Writing, own
  <1>7. IndexOK(p)'
    <2>1. \A i \in Index \ index'[p] : fold'[i] = "valid"
      BY <1>0 DEF IInv, TypeOK, ProcOK, IndexOK, Building, own
    <2> QED
      BY <1>0, <2>1 DEF ProcOK, IndexOK, Building, Ended, own
  <1> QED
    BY <1>1, <1>2, <1>3, <1>4, <1>5, <1>6, <1>7, Assemble DEF ProcOK

(* CREATE INDEX ends, is skipped, or is interrupted and leaves its index    *)
(* invalid: not one that was valid before.                                  *)
LEMMA InterruptedKeeps ==
    ASSUME IInv, NEW p \in Proc, pc[p] = "build", fold[Unbuilt(p)] = "absent",
           fold' = [fold EXCEPT ![Unbuilt(p)] = "invalid"], End(p, "failed"),
           UNCHANGED <<base, check, legacy, estate, own, bounds>>
    PROVE  IInv'
  <1>0. /\ ProcOK(p) /\ pc' = [pc EXCEPT ![p] = "failed"] /\ pc'[p] = "failed" /\ "failed" \in Steps
        /\ lock["builder"] = p /\ Unbuilt(p) \in Index /\ pc \in [Proc -> Steps]
    BY UnbuiltFacts DEF IInv, TypeOK, End, Goto, Steps, Ended
  <1>1. /\ lock' \in [Lock -> Proc \cup {Nobody}]
        /\ \A m \in Lock : lock'[m] # lock[m] => lock'[m] = Nobody
        /\ \A m \in Lock : lock'[m] # p
        /\ \A m \in Lock : lock[m] \notin {p, Nobody} => lock'[m] = lock[m]
    BY ReleaseFacts DEF IInv, TypeOK, End
  <1>2. TypeOK'
    <2>1. \A q \in Proc, l \in Lock : lock'[l] = q => pc'[q] \notin Ended
      <3> SUFFICES ASSUME NEW q \in Proc, NEW l \in Lock, lock'[l] = q PROVE pc'[q] \notin Ended
        OBVIOUS
      <3>1. lock[l] = q /\ q # p
        BY <1>1, ProvisioningAssumption
      <3> QED
        BY <1>0, <3>1 DEF IInv, TypeOK
    <2> QED
      BY <1>0, <1>1, <2>1 DEF IInv, TypeOK, estate, own, bounds
  <1>3. BaseOK' /\ RowsOK'
    BY <1>1 DEF IInv, BaseOK, RowsOK, NoLeakedRows, estate, Lock
  <1>4. DoneMeansSwitched'
    BY <1>0 DEF IInv, DoneMeansSwitched
  <1>5. Quiet(p)
    BY <1>0, <1>1 DEF Quiet, AuditFails, Divergent, arm_id_identity_switchover_active, OthersEmpty,
                estate, own
  <1>6. ProcOK(p)'
    BY <1>0 DEF ProcOK, LockOK, PlaceOK, AuditOK, GateOK, IndexOK, Ended, Provisioning, Writing,
                Audited, Building, Provisioned, own
  <1> QED
    BY <1>2, <1>3, <1>4, <1>5, <1>6, Assemble

(* A builder that only goes on inside its pass.                             *)
LEMMA PassKeeps ==
    ASSUME IInv, NEW p \in Proc, pc[p] \in Building, NEW step \in {"validate", "repair", "drop"},
           Branch(p, step), step # "drop" => index[p] # {}, step = "drop" => index[p] = {},
           step = "repair" => \A q \in Proc : pc[q] # "done",
           step = "drop" => legacy = {} \/ ~AuditFails
    PROVE  IInv'
  <1>1. ProcOK(p) /\ step \in Steps \ Ended
    BY DEF IInv, Steps, Ended
  <1>2. Stays(p, step) /\ loaded'[p] = loaded[p] /\ lock' = lock
    BY <1>1, BranchFacts
  <1>3. LockOK(p)' /\ PlaceOK(p)' /\ AuditOK(p)' /\ GateOK(p)'
    BY <1>1, <1>2 DEF Stays, ProcOK, LockOK, PlaceOK, AuditOK, GateOK, Ended, Provisioning,
         Writing, Audited, Building, Provisioned
  <1>4. IndexOK(p)'
    BY <1>1, <1>2 DEF Stays, ProcOK, IndexOK, Ended, Building
  <1> QED
    BY <1>1, <1>3, <1>4, BranchKeeps DEF ProcOK

LEMMA CreateIndexKeeps ==
    ASSUME IInv, NEW p \in Proc, CreateIndex(p)
    PROVE  IInv'
  <1>1. pc[p] = "build" /\ pc[p] \in Building /\ index[p] # {}
    BY DEF IInv, ProcOK, IndexOK, CreateIndex, Building
  <1>2. CASE fold[Unbuilt(p)] # "absent"
    BY <1>1, <1>2, PassKeeps DEF CreateIndex
  <1>3. CASE fold[Unbuilt(p)] = "absent"
    BY <1>1, <1>3, BuilderKeeps, InterruptedKeeps DEF CreateIndex
  <1> QED
    BY <1>2, <1>3

(* An index found valid is struck off; one that is not is repaired, which   *)
(* no command that reported success has left behind.                        *)
LEMMA ValidateKeeps ==
    ASSUME IInv, NEW p \in Proc, ValidateIndex(p)
    PROVE  IInv'
  <1>0. /\ ProcOK(p) /\ pc[p] = "validate" /\ pc[p] \in Building /\ index[p] # {}
        /\ Unbuilt(p) \in index[p] /\ Unbuilt(p) \in Index /\ lock["builder"] = p
    <2>1. pc[p] = "validate"
      BY DEF ValidateIndex
    <2> QED
      BY <2>1, UnbuiltFacts DEF IInv, ProcOK, IndexOK, Building
  <1>1. CASE fold[Unbuilt(p)] # "valid"
    <2>1. \A q \in Proc : pc[q] # "done"
      BY <1>0, <1>1 DEF IInv, DoneMeansSwitched
    <2> QED
      BY <1>0, <1>1, <2>1, PassKeeps DEF ValidateIndex
  <1>2. CASE fold[Unbuilt(p)] = "valid"
    <2>1. /\ index' = [index EXCEPT ![p] = @ \ {Unbuilt(p)}] /\ Goto(p, AfterIndex(p))
          /\ UNCHANGED <<catalog, estate, lock, cmd, loaded, bounds>>
      BY <1>2 DEF ValidateIndex
    <2>2. /\ AfterIndex(p) \in {"retire", "build"} /\ AfterIndex(p) \in Steps \ Ended
          /\ index[p] \ {Unbuilt(p)} = {} <=> AfterIndex(p) = "retire"
      BY <1>0 DEF AfterIndex, Steps, Ended
    <2>3. /\ pc \in [Proc -> Steps] /\ pc' = [pc EXCEPT ![p] = AfterIndex(p)]
          /\ pc'[p] = AfterIndex(p) /\ index'[p] = index[p] \ {Unbuilt(p)}
          /\ \A q \in Proc : pc'[q] = "done" => pc[q] = "done"
      BY <2>1, <2>2 DEF IInv, TypeOK, Goto, Ended
    <2>4. TypeOK'
      BY <2>1, <2>2, <2>3 DEF IInv, TypeOK, catalog, estate, bounds
    <2>5. BaseOK' /\ RowsOK' /\ DoneMeansSwitched'
      BY <2>1, <2>3 DEF IInv, BaseOK, RowsOK, NoLeakedRows, DoneMeansSwitched, catalog, estate
    <2>6. Quiet(p)
      BY <1>0, <2>1, <2>3 DEF Quiet, AuditFails, Divergent, arm_id_identity_switchover_active,
           OthersEmpty, catalog, estate, IInv, TypeOK
    <2>7. LockOK(p)' /\ PlaceOK(p)' /\ AuditOK(p)' /\ GateOK(p)'
      BY <1>0, <2>1, <2>2, <2>3 DEF ProcOK, LockOK, PlaceOK, AuditOK, GateOK, Ended, Provisioning,
           Writing, Audited, Building, Provisioned, catalog
    <2>8. IndexOK(p)'
      BY <1>0, <1>2, <2>1, <2>2, <2>3 DEF ProcOK, IndexOK, Building, Ended, catalog
    <2> QED
      BY <2>4, <2>5, <2>6, <2>7, <2>8, Assemble DEF ProcOK
  <1> QED
    BY <1>1, <1>2

LEMMA RepairKeeps ==
    ASSUME IInv, NEW p \in Proc, RepairIndex(p)
    PROVE  IInv'
  <1>1. pc[p] = "repair" /\ \A q \in Proc : pc[q] # "done"
    BY DEF IInv, ProcOK, IndexOK, RepairIndex
  <1> QED
    BY <1>1, BuilderKeeps DEF RepairIndex

LEMMA RetireKeeps ==
    ASSUME IInv, NEW p \in Proc, _drop_legacy_lower_indexes(p)
    PROVE  IInv'
  <1>1. CASE Fail(p)
    BY <1>1, FailKeeps
  <1>2. CASE ~Fail(p)
    <2>1. pc[p] = "retire" /\ pc[p] \in Building /\ index[p] = {}
      BY DEF IInv, ProcOK, IndexOK, _drop_legacy_lower_indexes, Building
    <2>2. Branch(p, "drop") /\ (legacy = {} \/ ~AuditFails)
      BY <1>2 DEF _drop_legacy_lower_indexes
    <2> QED
      BY <2>1, <2>2, PassKeeps
  <1> QED
    BY <1>1, <1>2

(* The lower() indexes go one by one; then the command reports success.     *)
LEMMA DropKeeps ==
    ASSUME IInv, NEW p \in Proc, DropLegacy(p)
    PROVE  IInv'
  <1>0. /\ ProcOK(p) /\ pc[p] = "drop" /\ lock["builder"] = p /\ index[p] = {}
        /\ (\A i \in Index : fold[i] = "valid")
        /\ UNCHANGED <<base, check, fold, estate, own, bounds>>
    BY DEF IInv, ProcOK, LockOK, IndexOK, DropLegacy, Building
  <1>1. CASE legacy = {}
    <2>1. /\ End(p, "done") /\ legacy' = legacy /\ "done" \in Steps /\ pc \in [Proc -> Steps]
          /\ pc' = [pc EXCEPT ![p] = "done"] /\ pc'[p] = "done"
      BY <1>1 DEF DropLegacy, IInv, TypeOK, End, Goto, Steps, Ended
    <2>2. /\ lock' \in [Lock -> Proc \cup {Nobody}]
          /\ \A m \in Lock : lock'[m] # lock[m] => lock'[m] = Nobody
          /\ \A m \in Lock : lock'[m] # p
          /\ \A m \in Lock : lock[m] \notin {p, Nobody} => lock'[m] = lock[m]
      BY <2>1, ReleaseFacts DEF IInv, TypeOK, End
    <2>3. TypeOK'
      <3>1. \A q \in Proc, l \in Lock : lock'[l] = q => pc'[q] \notin Ended
        <4> SUFFICES ASSUME NEW q \in Proc, NEW l \in Lock, lock'[l] = q PROVE pc'[q] \notin Ended
          OBVIOUS
        <4>1. lock[l] = q /\ q # p
          BY <2>2, ProvisioningAssumption
        <4> QED
          BY <2>1, <4>1 DEF IInv, TypeOK
      <3> QED
        BY <1>0, <2>1, <2>2, <3>1 DEF IInv, TypeOK, estate, own, bounds
    <2>4. BaseOK' /\ RowsOK'
      BY <1>0, <2>1, <2>2 DEF IInv, BaseOK, RowsOK, NoLeakedRows, estate, Lock
    <2>5. DoneMeansSwitched'
      BY <1>0, <1>1, <2>1 DEF DoneMeansSwitched
    <2>6. Quiet(p)
      BY <1>0, <1>1, <2>1, <2>2 DEF Quiet, AuditFails, Divergent,
           arm_id_identity_switchover_active, OthersEmpty, estate, own
    <2>7. ProcOK(p)'
      BY <1>0, <2>1 DEF ProcOK, LockOK, PlaceOK, AuditOK, GateOK, IndexOK, Ended, Provisioning,
           Writing, Audited, Building, Provisioned, own
    <2> QED
      BY <2>3, <2>4, <2>5, <2>6, <2>7, Assemble
  <1>2. CASE legacy # {}
    <2>1. legacy' \subseteq legacy /\ pc' = pc /\ lock' = lock
      BY <1>2 DEF DropLegacy
    <2>2. TypeOK'
      BY <1>0, <2>1 DEF IInv, TypeOK, estate, own, bounds
    <2>3. BaseOK' /\ RowsOK' /\ DoneMeansSwitched'
      BY <1>0, <2>1 DEF IInv, BaseOK, RowsOK, NoLeakedRows, DoneMeansSwitched, estate
    <2>4. Quiet(p)
      BY <1>0, <2>1 DEF Quiet, AuditFails, Divergent, arm_id_identity_switchover_active,
           OthersEmpty, estate, own
    <2>5. LockOK(p)' /\ PlaceOK(p)' /\ AuditOK(p)' /\ GateOK(p)' /\ IndexOK(p)'
      BY <1>0, <1>2, <2>1 DEF ProcOK, LockOK, PlaceOK, AuditOK, GateOK, IndexOK, Ended,
           Provisioning, Writing, Audited, Building, Provisioned, own, AuditFails, estate
    <2> QED
      BY <2>2, <2>3, <2>4, <2>5, Assemble DEF ProcOK
  <1> QED
    BY <1>1, <1>2

-----------------------------------------------------------------------------
LEMMA KillKeeps ==
    ASSUME IInv, NEW p \in Proc, Kill(p)
    PROVE  IInv'
  <1>1. kills' \in 0..MaxKills
    BY ProvisioningAssumption DEF IInv, TypeOK, Kill
  <1> QED
    BY <1>1, GivingUp DEF Kill

(* An ARM PUT adds overlay rows of the tenant that is there.                *)
LEMMA PutKeeps ==
    ASSUME IInv, ArmPut
    PROVE  IInv'
  <1>1. /\ rows' = [rows EXCEPT !["overlay"] = IF rows["tenant"] = Nothing THEN Earlier ELSE rows["tenant"]]
        /\ puts' = puts + 1 /\ puts < MaxPuts
        /\ UNCHANGED <<catalog, clashes, lock, cmd, pc, loaded, index, kills>>
        /\ rows \in [_SYNTHETIC_TABLES -> Proc \cup {Earlier, Nothing}]
        /\ {"tenant", "resources", "overlay"} \subseteq _SYNTHETIC_TABLES
    BY DEF ArmPut, IInv, TypeOK, _SYNTHETIC_TABLES
  <1>2. /\ \A t \in _SYNTHETIC_TABLES \ {"overlay"} : rows'[t] = rows[t]
        /\ rows'["overlay"] \in Proc \cup {Earlier}
        /\ rows["tenant"] # Nothing => rows'["overlay"] = rows["tenant"]
    BY <1>1
  <1>3. TypeOK'
    <2>1. puts' \in 0..MaxPuts
      BY <1>1, ProvisioningAssumption DEF IInv, TypeOK
    <2> QED
      BY <1>1, <2>1 DEF IInv, TypeOK, catalog
  <1>4. BaseOK' /\ DoneMeansSwitched'
    BY <1>1 DEF IInv, BaseOK, DoneMeansSwitched, catalog
  <1>5. RowsOK'
    <2>1. rows'["resources"] = rows["resources"] /\ rows'["tenant"] = rows["tenant"]
      BY <1>1, <1>2
    <2>2. rows["resources"] \in Proc => rows'["overlay"] = rows["resources"]
      BY <1>2, ProvisioningAssumption DEF IInv, RowsOK
    <2> QED
      BY <1>2, <2>1, <2>2 DEF IInv, RowsOK, NoLeakedRows
  <1>6. (AuditFails' <=> AuditFails) /\ (Divergent' <=> Divergent) /\ (OthersEmpty' <=> OthersEmpty)
    BY <1>1, <1>2 DEF AuditFails, Divergent, arm_id_identity_switchover_active, OthersEmpty, catalog
  <1>7. ASSUME NEW p \in Proc PROVE ProcOK(p)'
    <2>1. ProcOK(p)
      BY DEF IInv
    <2> QED
      BY <1>1, <1>6, <2>1 DEF ProcOK, LockOK, PlaceOK, AuditOK, GateOK, IndexOK, catalog
  <1> QED
    BY <1>3, <1>4, <1>5, <1>7 DEF IInv

LEMMA NextInvariant == IInv /\ [Next]_vars => IInv'
  <1> SUFFICES ASSUME IInv, [Next]_vars PROVE IInv'
    OBVIOUS
  <1>1. CASE UNCHANGED vars
    <2>1. UNCHANGED <<base, check, rows, clashes, legacy, fold, lock, cmd, pc, loaded, index, puts, kills>>
      BY <1>1 DEF vars, catalog, estate, own, bounds
    <2>2. TypeOK' /\ BaseOK' /\ RowsOK' /\ DoneMeansSwitched'
      BY <2>1 DEF IInv, TypeOK, BaseOK, RowsOK, NoLeakedRows, DoneMeansSwitched
    <2>3. ASSUME NEW p \in Proc PROVE ProcOK(p)'
      <3>1. ProcOK(p)
        BY DEF IInv
      <3> QED
        BY <2>1, <3>1 DEF ProcOK, LockOK, PlaceOK, AuditOK, GateOK, IndexOK, AuditFails, Divergent,
             arm_id_identity_switchover_active, OthersEmpty
    <2> QED
      BY <2>2, <2>3 DEF IInv
  <1>2. CASE ArmPut
    BY <1>2, PutKeeps
  <1>3. ASSUME NEW p \in Proc, Run(p) PROVE IInv'
    <2>1. CASE TimeOut(p) \/ Deadlock(p)
      BY <2>1, FailKeeps DEF TimeOut, Deadlock
    <2> QED
      BY <1>3, <2>1, BeginKeeps, BaseKeeps, SchemaKeeps, AuditKeeps, GateKeeps, DecideKeeps,
         GenerateKeeps, TruncateKeeps, WriteKeeps, OpenWriterKeeps, TakeBuilderKeeps,
         CreateIndexKeeps, ValidateKeeps, RepairKeeps, RetireKeeps, DropKeeps DEF Run
  <1> QED
    BY <1>1, <1>2, <1>3, ConfirmKeeps, KillKeeps DEF Next

LEMMA Inductive == Spec => []IInv
  BY InitInvariant, NextInvariant, PTL DEF Spec

(* Types; and no lock outlives the command that held it, whichever way that *)
(* command ended: the connections of cli.py are closed on every path.       *)
THEOREM TypeCorrect == Spec => []TypeOK
  <1>1. IInv => TypeOK
    BY DEF IInv
  <1> QED
    BY <1>1, Inductive, PTL

(* However many commands run and however they fail, once one has reported   *)
(* success both fold indexes stand and no lower() index is left, for good.  *)
THEOREM SuccessIsLasting == Spec => []DoneMeansSwitched
  <1>1. IInv => DoneMeansSwitched
    BY DEF IInv
  <1> QED
    BY <1>1, Inductive, PTL

(* No table keeps rows of an estate that a generate has replaced, ARM       *)
(* writes beside it and optional tables left out of the COPYs included.     *)
THEOREM ReseedLeaksNothing == Spec => []NoLeakedRows
  <1>1. IInv => NoLeakedRows
    BY DEF IInv, RowsOK
  <1> QED
    BY <1>1, Inductive, PTL

-----------------------------------------------------------------------------
(* Rows change where a write commits and where an ARM PUT does.             *)
LEMMA RowsChange ==
    ASSUME [Next]_vars, rows' # rows, ~ArmPut
    PROVE  \E p \in Proc : open_writer(p)
  <1>1. PICK p \in Proc : Run(p) \/ Confirm(p) \/ Kill(p)
    BY DEF Next, vars, estate
  <1>2. ~Fail(p)
    BY DEF Fail, estate
  <1>3. ASSUME NEW step PROVE ~Branch(p, step)
    BY DEF Branch, estate
  <1>4. ASSUME NEW from, NEW l, NEW step PROVE ~Acquire(p, from, l, step)
    BY DEF Acquire, estate
  <1>5. ~Confirm(p) /\ ~Kill(p) /\ ~TimeOut(p) /\ ~Deadlock(p)
    BY <1>2 DEF Confirm, Kill, TimeOut, Deadlock, estate
  <1>6. ~Begin(p) /\ ~ensure_base_schema(p) /\ ~CreateBase(p) /\ ~ensure_drift_schema(p)
        /\ ~ensure_web_metadata_schema(p) /\ ~EstateGate(p) /\ ~generate_tenant(p)
        /\ ~truncate_synthetic(p) /\ ~TakeBuilderLock(p) /\ ~_drop_legacy_lower_indexes(p)
        /\ ~audit_arm_id_identity_during_switchover(p)
    BY <1>2, <1>3, <1>4 DEF Begin, acquire_generate_lock_session, init_db, ensure_base_schema,
         CreateBase, ensure_drift_schema, ensure_web_metadata_schema, EstateGate, generate_tenant,
         truncate_synthetic, TakeBuilderLock, _drop_legacy_lower_indexes,
         audit_arm_id_identity_during_switchover
  <1>7. ~ensure_arm_id_key_schema(p) /\ ~ensure_arm_id_identity_cutover_schema(p)
    BY <1>2, <1>4 DEF ensure_arm_id_key_schema, ensure_arm_id_identity_cutover_schema, estate
  <1>8. ~Decide(p) /\ ~write_tenant(p)
    BY <1>2 DEF Decide, write_tenant, copy_tenant, copy_resources, copy_dependents,
         copy_cost_records, copy_identity, CopyInto, estate
  <1>9. ~CreateIndex(p) /\ ~ValidateIndex(p) /\ ~RepairIndex(p) /\ ~DropLegacy(p)
    BY <1>3 DEF CreateIndex, ValidateIndex, RepairIndex, DropLegacy, estate
  <1> QED
    BY <1>1, <1>5, <1>6, <1>7, <1>8, <1>9 DEF Run

(* A lower() index appears with a new base and goes with DropLegacy.        *)
LEMMA LegacyShrinks ==
    ASSUME IInv, [Next]_vars, ~(legacy \subseteq legacy')
    PROVE  \E p \in Proc : DropLegacy(p)
  <1>1. ~ArmPut /\ \E p \in Proc : Run(p) \/ Confirm(p) \/ Kill(p)
    BY DEF Next, vars, ArmPut, catalog
  <1>2. PICK p \in Proc : Run(p) \/ Confirm(p) \/ Kill(p)
    BY <1>1
  <1>3. ~Fail(p)
    BY DEF Fail, catalog
  <1>4. ASSUME NEW step PROVE ~Branch(p, step)
    BY DEF Branch, catalog
  <1>5. ASSUME NEW from, NEW l, NEW step PROVE ~Acquire(p, from, l, step)
    BY DEF Acquire, catalog
  <1>6. ~Confirm(p) /\ ~Kill(p) /\ ~TimeOut(p) /\ ~Deadlock(p)
    BY <1>3 DEF Confirm, Kill, TimeOut, Deadlock, catalog
  <1>7. ~Begin(p) /\ ~ensure_base_schema(p) /\ ~CreateBase(p) /\ ~ensure_drift_schema(p)
        /\ ~ensure_web_metadata_schema(p) /\ ~EstateGate(p) /\ ~generate_tenant(p)
        /\ ~truncate_synthetic(p) /\ ~TakeBuilderLock(p) /\ ~_drop_legacy_lower_indexes(p)
        /\ ~audit_arm_id_identity_during_switchover(p)
    BY <1>3, <1>4, <1>5 DEF Begin, acquire_generate_lock_session, init_db, ensure_base_schema,
         CreateBase, ensure_drift_schema, ensure_web_metadata_schema, EstateGate, generate_tenant,
         truncate_synthetic, TakeBuilderLock, _drop_legacy_lower_indexes,
         audit_arm_id_identity_during_switchover
  <1>8. legacy \subseteq LegacyAfter(p)
    <2>1. p # Nobody
      BY ProvisioningAssumption
    <2> QED
      BY <2>1 DEF IInv, BaseOK, LegacyAfter
  <1>9. ~ensure_arm_id_key_schema(p) /\ ~ensure_arm_id_identity_cutover_schema(p)
    BY <1>3, <1>5, <1>8 DEF ensure_arm_id_key_schema, ensure_arm_id_identity_cutover_schema
  <1>10. ~Decide(p) /\ ~write_tenant(p) /\ ~open_writer(p)
    BY <1>3 DEF Decide, write_tenant, copy_tenant, copy_resources, copy_dependents,
         copy_cost_records, copy_identity, CopyInto, open_writer, catalog
  <1>11. ~CreateIndex(p) /\ ~ValidateIndex(p) /\ ~RepairIndex(p)
    BY <1>4 DEF CreateIndex, ValidateIndex, RepairIndex, catalog
  <1> QED
    BY <1>2, <1>6, <1>7, <1>9, <1>10, <1>11 DEF Run

(* A write that commits was let through by the audit and by the gate, and   *)
(* both still hold: only its holder of the session lock could undo them.    *)
LEMMA WriterFacts ==
    ASSUME IInv, NEW p \in Proc, open_writer(p)
    PROVE  /\ ~Divergent
           /\ cmd[p] = "if_empty" => OthersEmpty
           /\ rows'["resources"] \in {p, Nothing}
  <1>1. pc[p] = "commit" /\ ProcOK(p) /\ rows' = Written(p)
    BY DEF IInv, open_writer
  <1> QED
    BY <1>1 DEF ProcOK, AuditOK, GateOK, Writing, Audited, Written, _SYNTHETIC_TABLES

(* generate --only-if-empty finds every table empty but the overlay at the  *)
(* moment its write commits, not only when its gate looked.                 *)
THEOREM IfEmptyIsCritical == Spec => OnlyIfEmptyNeverReplaces
  <1>1. IInv /\ [Next]_vars =>
          [\A p \in Proc : cmd[p] = "if_empty" /\ rows'["resources"] = p /\ rows["resources"] # p
             => \A t \in _SYNTHETIC_TABLES \ {"overlay"} : rows[t] = Nothing]_vars
    <2> SUFFICES ASSUME IInv, [Next]_vars, NEW p \in Proc, cmd[p] = "if_empty",
                        rows'["resources"] = p, rows["resources"] # p
                 PROVE  OthersEmpty
      BY DEF OthersEmpty
    <2>1. ~ArmPut
      BY DEF ArmPut, IInv, TypeOK, _SYNTHETIC_TABLES
    <2>2. PICK q \in Proc : open_writer(q)
      BY <2>1, RowsChange
    <2>3. q = p
      BY <2>2, WriterFacts, ProvisioningAssumption
    <2> QED
      BY <2>2, <2>3, WriterFacts
  <1> QED
    BY <1>1, Inductive, PTL DEF Spec, OnlyIfEmptyNeverReplaces

(* A lower() index goes only while both fold indexes are valid and the      *)
(* baseline holds no id that diverges or collides under them.               *)
THEOREM RetirementIsSafe == Spec => RetiredOnlyWhenReplaced
  <1>1. IInv /\ [Next]_vars =>
          [~(legacy \subseteq legacy') => (\A i \in Index : fold[i] = "valid") /\ ~AuditFails]_vars
    <2> SUFFICES ASSUME IInv, [Next]_vars, ~(legacy \subseteq legacy')
                 PROVE  (\A i \in Index : fold[i] = "valid") /\ ~AuditFails
      OBVIOUS
    <2>1. PICK p \in Proc : DropLegacy(p)
      BY LegacyShrinks
    <2>2. ProcOK(p) /\ pc[p] = "drop" /\ legacy # {}
      BY <2>1 DEF IInv, DropLegacy
    <2> QED
      BY <2>2 DEF ProcOK, AuditOK, IndexOK, Building
  <1> QED
    BY <1>1, Inductive, PTL DEF Spec, RetiredOnlyWhenReplaced

(* A baseline that the audit refuses is never replaced, whatever the other  *)
(* commands do between the audit and the TRUNCATE.                          *)
THEOREM DivergenceIsKept == Spec => DivergentEstateKept
  <1>1. IInv /\ [Next]_vars =>
          [AuditFails /\ (check = "lower" \/ legacy # {}) => rows'["resources"] = rows["resources"]]_vars
    <2> SUFFICES ASSUME IInv, [Next]_vars, Divergent
                 PROVE  rows'["resources"] = rows["resources"]
      BY DEF Divergent, arm_id_identity_switchover_active
    <2>1. ASSUME NEW p \in Proc PROVE ~open_writer(p)
      BY <2>1, WriterFacts
    <2>2. CASE ArmPut
      BY <2>2 DEF ArmPut, IInv, TypeOK, _SYNTHETIC_TABLES
    <2> QED
      BY <2>1, <2>2, RowsChange
  <1> QED
    BY <1>1, Inductive, PTL DEF Spec, DivergentEstateKept
=============================================================================
