------------------------- MODULE EstateProvisioning -------------------------
(***************************************************************************)
(* generate and init-db against one PostgreSQL volume: writer.py and the    *)
(* two commands of cli.py that call it.  generate runs four short           *)
(* transactions and one unlogged pass of CREATE/DROP INDEX CONCURRENTLY     *)
(* under a session advisory lock; init-db applies the migrations in one     *)
(* transaction and runs the same pass, without that lock.  ARM writes go    *)
(* on beside them.  Commands fail, time out and are killed.                 *)
(*                                                                         *)
(* Tables are grouped: "tenant" (tenant, subscriptions, resource_groups),   *)
(* "resources", "dependents" (dependencies, violations), "cost", "identity" *)
(* (principals, role_assignments), "drift" and "overlay".  Rows carry the   *)
(* command that wrote them.                                                 *)
(***************************************************************************)
EXTENDS Naturals, FiniteSets

CONSTANTS
    Proc,      \* the processes, one command each
    Commands,  \* the commands they may run
    Earlier,   \* the writer of the rows an older volume holds
    Nothing,   \* no rows
    Nobody,    \* no holder
    MaxPuts,   \* bound: ARM writes in a behaviour
    MaxKills   \* bound: killed commands in a behaviour

ASSUME ProvisioningAssumption ==
    /\ Commands \subseteq {"force", "if_empty", "plain", "init_db"}
    /\ Earlier \notin Proc /\ Nothing \notin Proc \cup {Earlier} /\ Nobody \notin Proc
    /\ MaxPuts \in Nat /\ MaxKills \in Nat

_SYNTHETIC_TABLES ==
    {"tenant", "resources", "dependents", "cost", "identity", "drift", "overlay"}

(* The tables that foreign keys make a table follow.                        *)
ForeignKeys == [t \in _SYNTHETIC_TABLES |->
    CASE t \in {"resources", "identity"} -> {"tenant"}
      [] t \in {"dependents", "cost"} -> {"resources"}
      [] OTHER -> {}]

Index == {"id", "rg"}
Lock == {"generate", "schema", "tenant", "resources", "fold", "builder"}

VARIABLES
    base,     \* sql/001-003 on the volume: "bare", "partial" or "complete"
    check,    \* the overlay's identity CHECK: "absent" (no table), "lower", "key"
    rows,     \* rows[t]: the writer of the committed rows of t
    clashes,  \* ids of the earlier baseline diverge or collide under arm_id_key
    legacy,   \* the lower() indexes that exist
    fold,     \* fold[i]: the arm_id_key index i: "absent", "invalid", "valid"
    lock,     \* lock[l]: the holder of an advisory lock or of a table
    cmd,      \* cmd[p]: the command p runs
    pc,       \* pc[p]: the step p takes next
    loaded,   \* loaded[p]: the tables the write transaction of p has filled
    index,    \* index[p]: fold indexes p has still to build
    puts,     \* ARM writes so far
    kills     \* killed commands so far

catalog == <<base, check, legacy, fold>>
estate == <<rows, clashes>>
own == <<cmd, loaded, index>>
bounds == <<puts, kills>>
vars == <<catalog, estate, lock, pc, own, bounds>>

Ended == {"done", "refused", "failed"}
Steps == Ended \cup {"start", "base", "create", "drift", "provision", "fold", "cutover",
    "audit", "gate", "look", "prompt", "generate", "truncate", "clear", "copy_tenant",
    "copy_resources", "copy_dependents", "copy_cost", "copy_identity", "commit",
    "builder", "build", "validate", "repair", "retire", "drop"}

-----------------------------------------------------------------------------
Goto(p, step) == pc' = [pc EXCEPT ![p] = step]
Available(p, l) == lock[l] \in {p, Nobody}
Take(p, L) == lock' = [l \in Lock |-> IF l \in L THEN p ELSE lock[l]]
Release(p, L) == lock' = [l \in Lock |-> IF l \in L /\ lock[l] = p THEN Nobody ELSE lock[l]]

(* A transaction ends: its table locks, DDL and xact advisory locks go.     *)
Transaction == {"schema", "tenant", "resources", "fold"}

(* Mutant: the error path leaves the lock connection open.                  *)
End_KeepsSession(p, step) == Goto(p, step) /\ Release(p, Lock \ {"generate"})

(* An exception: the open transaction is rolled back, every connection is   *)
(* closed and the process exits nonzero.                                    *)
End(p, step) == Goto(p, step) /\ Release(p, Lock)
Fail(p) ==
    /\ End(p, "failed") /\ loaded' = [loaded EXCEPT ![p] = {}]
    /\ UNCHANGED <<catalog, estate, cmd, index, bounds>>

(* The lock a step waits for.                                               *)
Needs == [s \in Steps |->
    CASE s = "start" -> {"generate"}
      [] s = "create" -> {"schema"}
      [] s \in {"drift", "look", "clear", "build", "repair", "retire", "drop"} -> {"resources"}
      [] s \in {"provision", "gate", "truncate"} -> {"tenant"}
      [] s = "fold" -> {"fold"}
      [] s = "builder" -> {"builder"}
      [] OTHER -> {}]

Waits(p) == \E l \in Needs[pc[p]] : ~Available(p, l)
Blockers(p) == {lock[l] : l \in Needs[pc[p]]} \ {p, Nobody}

(* A step that takes lock l, held by nobody else, and goes on.              *)
Acquire(p, from, l, step) ==
    /\ pc[p] = from /\ Available(p, l)
    /\ Take(p, {l}) /\ Goto(p, step)
    /\ UNCHANGED <<catalog, estate, own, bounds>>

Branch(p, step) ==
    Goto(p, step) /\ UNCHANGED <<catalog, estate, lock, own, bounds>>

-----------------------------------------------------------------------------
(* generate begins with the session lock; init-db takes none.               *)
acquire_generate_lock_session(p) == Acquire(p, "start", "generate", "base")

(* Its pre-flight check of the migration files may already refuse.          *)
init_db(p) == pc[p] = "start" /\ (Fail(p) \/ Branch(p, "base"))

Begin(p) ==
    \/ cmd[p] # "init_db" /\ acquire_generate_lock_session(p)
    \/ cmd[p] = "init_db" /\ init_db(p)

(* The probe of the 18 base objects: complete is a no-op, partial refused,  *)
(* bare creates them with bare CREATE statements.                           *)
AfterBase(p) == IF cmd[p] = "init_db" THEN "drift" ELSE "provision"

ensure_base_schema(p) ==
    /\ pc[p] = "base"
    /\ \/ base = "partial" /\ Fail(p)
       \/ base = "complete" /\ Branch(p, AfterBase(p))
       \/ base = "bare" /\ Branch(p, "create")


(* A second creator waits for the first and fails on "already exists".      *)
CreateBase(p) ==
    \/ base = "bare" /\ Acquire(p, "create", "schema", AfterBase(p))
    \/ pc[p] = "create" /\ Available(p, "schema") /\ base # "bare" /\ Fail(p)

(* init-db: sql/004 and sql/006 lock resources, then sql/007 the tenant.    *)
ensure_drift_schema(p) == Acquire(p, "drift", "resources", "provision")
ensure_web_metadata_schema(p) == Acquire(p, "provision", "tenant", "fold")

BaseAfter(p) == IF lock["schema"] = p THEN "complete" ELSE base
LegacyAfter(p) == IF lock["schema"] = p THEN {"id"} ELSE legacy

(* The fold functions: generate commits its provisioning right after, while *)
(* init-db keeps the lock to the end of its transaction.                    *)
ensure_arm_id_key_schema(p) ==
    \/ cmd[p] = "init_db" /\ Acquire(p, "fold", "fold", "cutover")
    \/ /\ cmd[p] # "init_db" /\ pc[p] = "fold" /\ Available(p, "fold")
       /\ base' = BaseAfter(p) /\ legacy' = LegacyAfter(p)
       /\ Goto(p, "audit") /\ Release(p, Transaction)
       /\ UNCHANGED <<check, fold, estate, own, bounds>>

-----------------------------------------------------------------------------
(* Mutant: the switchover is thought over once the CHECK is converted.      *)
arm_id_identity_switchover_active_CheckOnly == check = "lower"

arm_id_identity_switchover_active == check = "lower" \/ legacy # {}

(* The audit of the committed baseline refuses divergence and collision.    *)
AuditFails == clashes /\ rows["resources"] = Earlier

(* sql/012 re-derives the CHECK after the audit, then 010; one commit.      *)
ensure_arm_id_identity_cutover_schema(p) ==
    /\ pc[p] = "cutover"
    /\ IF AuditFails /\ arm_id_identity_switchover_active THEN Fail(p)
       ELSE /\ base' = BaseAfter(p) /\ legacy' = LegacyAfter(p) /\ check' = "key"
            /\ Goto(p, "builder") /\ Release(p, Transaction)
            /\ UNCHANGED <<fold, estate, own, bounds>>

(* generate audits in a READ ONLY transaction of its own, before the gate.  *)
audit_arm_id_identity_during_switchover(p) ==
    /\ pc[p] = "audit"
    /\ IF AuditFails /\ arm_id_identity_switchover_active THEN Fail(p) ELSE Branch(p, "gate")

estate_is_empty == \A t \in _SYNTHETIC_TABLES : rows[t] = Nothing
schema_is_empty == rows["tenant"] = Nothing

(* What the gate decides: a skip still builds the indexes, a refusal is a   *)
(* usage error without a terminal and a prompt with one.                    *)
Decision(p) ==
    IF cmd[p] = "if_empty" /\ ~estate_is_empty THEN {"builder"}
    ELSE IF cmd[p] # "force" /\ ~schema_is_empty THEN {"prompt", "refused"}
    ELSE {"generate"}

(* The gate's transaction reads the tenant table and then, for the whole    *)
(* estate, the others; it waits for DDL, and holds back DDL until it ends.  *)
EstateGate(p) == Acquire(p, "gate", "tenant", "look")

(* Mutant: the lock of a transaction, gone when the gate commits.           *)
Decide_XactLock(p) ==
    /\ pc[p] = "look" /\ (cmd[p] = "if_empty" => Available(p, "resources"))
    /\ \E step \in Decision(p) : Goto(p, step) /\ Release(p, Lock)
    /\ UNCHANGED <<catalog, estate, own, bounds>>

(* A prompt keeps the transaction and the session lock until its answer.    *)
Decide(p) ==
    /\ pc[p] = "look" /\ (cmd[p] = "if_empty" => Available(p, "resources"))
    /\ \E step \in Decision(p) :
          CASE step = "refused" -> End(p, step)
            [] step = "prompt" -> Goto(p, step) /\ UNCHANGED lock
            [] OTHER -> Goto(p, step) /\ Release(p, Transaction)
    /\ UNCHANGED <<catalog, estate, own, bounds>>

Confirm(p) ==
    /\ pc[p] = "prompt"
    /\ \/ Goto(p, "generate") /\ Release(p, Transaction)
       \/ End(p, "refused")
    /\ UNCHANGED <<catalog, estate, own, bounds>>

(* The CPU phase holds the session lock alone, and may raise.               *)
generate_tenant(p) == pc[p] = "generate" /\ (Branch(p, "truncate") \/ Fail(p))

(* Mutant: the write also takes acquire_generate_lock, on its own session.  *)
truncate_synthetic_Relocks(p) ==
    \/ lock["generate"] = Nobody /\ Acquire(p, "truncate", "tenant", "clear")
    \/ Acquire(p, "clear", "resources", "copy_tenant")

(* TRUNCATE locks its tables in list order: the tenant first.               *)
truncate_synthetic(p) ==
    \/ Acquire(p, "truncate", "tenant", "clear")
    \/ Acquire(p, "clear", "resources", "copy_tenant")

(* write_tenant: binary COPYs in foreign-key order, each of which may fail. *)
CopyInto(p, from, T, step) ==
    /\ pc[p] = from
    /\ \/ Fail(p)
       \/ /\ \A t \in T : ForeignKeys[t] \subseteq loaded[p]
          /\ loaded' = [loaded EXCEPT ![p] = @ \cup T] /\ Goto(p, step)
          /\ UNCHANGED <<catalog, estate, lock, cmd, index, bounds>>

copy_tenant(p) == CopyInto(p, "copy_tenant", {"tenant"}, "copy_resources")
copy_resources(p) == CopyInto(p, "copy_resources", {"resources"}, "copy_dependents")
copy_dependents(p) == CopyInto(p, "copy_dependents", {"dependents"}, "copy_cost")
copy_cost_records(p) == \E T \in {{}, {"cost"}} : CopyInto(p, "copy_cost", T, "copy_identity")
copy_identity(p) == \E T \in {{}, {"identity"}} : CopyInto(p, "copy_identity", T, "commit")

write_tenant(p) ==
    copy_tenant(p) \/ copy_resources(p) \/ copy_dependents(p) \/ copy_cost_records(p) \/ copy_identity(p)

(* Mutant: a list of tables that ends before the overlay.                   *)
Written_KeepsOverlay(p) ==
    [t \in _SYNTHETIC_TABLES |-> IF t = "overlay" THEN rows[t]
                                 ELSE IF t \in loaded[p] THEN p ELSE Nothing]

(* What TRUNCATE and the COPYs leave of the whole schema.                   *)
Written(p) == [t \in _SYNTHETIC_TABLES |-> IF t \in loaded[p] THEN p ELSE Nothing]

(* A bulk load drops the secondary indexes and creates them again.          *)
_dropped_secondary_indexes == [i \in Index |-> IF fold[i] = "absent" THEN "absent" ELSE "valid"]

open_writer(p) ==
    /\ pc[p] = "commit"
    /\ rows' = Written(p)
    /\ \E bulk \in BOOLEAN : fold' = IF bulk THEN _dropped_secondary_indexes ELSE fold
    /\ Goto(p, "builder") /\ Release(p, Transaction)
    /\ loaded' = [loaded EXCEPT ![p] = {}]
    /\ UNCHANGED <<base, check, legacy, clashes, cmd, index, bounds>>

-----------------------------------------------------------------------------
(* The index pass, on an autocommit connection with lock_timeout 3s.        *)
Unbuilt(p) == CHOOSE i \in index[p] : TRUE

(* Mutant: the lower() indexes are retired after the first fold index.      *)
AfterIndex_First(p) == "retire"

AfterIndex(p) == IF index[p] = {Unbuilt(p)} THEN "retire" ELSE "build"

TakeBuilderLock(p) == Acquire(p, "builder", "builder", "build")

(* CREATE INDEX CONCURRENTLY IF NOT EXISTS: skipped over any index of that  *)
(* name; interrupted in its later phases it leaves an invalid one behind.   *)
CreateIndex(p) ==
    /\ pc[p] = "build" /\ Available(p, "resources")
    /\ IF fold[Unbuilt(p)] # "absent" THEN Branch(p, "validate")
       ELSE \/ /\ fold' = [fold EXCEPT ![Unbuilt(p)] = "valid"] /\ Goto(p, "validate")
               /\ UNCHANGED <<base, check, legacy, estate, lock, own, bounds>>
            \/ /\ fold' = [fold EXCEPT ![Unbuilt(p)] = "invalid"] /\ End(p, "failed")
               /\ UNCHANGED <<base, check, legacy, estate, own, bounds>>

(* Mutant: IF NOT EXISTS reported success, so the index is there.           *)
ValidateIndex_Trusting(p) ==
    /\ pc[p] = "validate"
    /\ index' = [index EXCEPT ![p] = @ \ {Unbuilt(p)}] /\ Goto(p, AfterIndex(p))
    /\ UNCHANGED <<catalog, estate, lock, cmd, loaded, bounds>>

(* Present, valid and of the right shape, or dropped and built once more.   *)
ValidateIndex(p) ==
    /\ pc[p] = "validate"
    /\ IF fold[Unbuilt(p)] = "valid"
       THEN /\ index' = [index EXCEPT ![p] = @ \ {Unbuilt(p)}] /\ Goto(p, AfterIndex(p))
            /\ UNCHANGED <<catalog, estate, lock, cmd, loaded, bounds>>
       ELSE Branch(p, "repair")

RepairIndex(p) ==
    /\ pc[p] = "repair" /\ Available(p, "resources")
    /\ fold' = [fold EXCEPT ![Unbuilt(p)] = "absent"] /\ Goto(p, "build")
    /\ UNCHANGED <<base, check, legacy, estate, lock, own, bounds>>

(* The lower() indexes go once both fold indexes stand, after an audit.     *)
_drop_legacy_lower_indexes(p) ==
    /\ pc[p] = "retire" /\ (legacy = {} \/ Available(p, "resources"))
    /\ IF legacy # {} /\ AuditFails THEN Fail(p) ELSE Branch(p, "drop")

DropLegacy(p) ==
    /\ pc[p] = "drop" /\ (legacy = {} \/ Available(p, "resources"))
    /\ IF legacy = {} THEN End(p, "done") /\ UNCHANGED legacy
       ELSE (\E i \in legacy : legacy' = legacy \ {i}) /\ UNCHANGED <<pc, lock>>
    /\ UNCHANGED <<base, check, fold, estate, own, bounds>>

-----------------------------------------------------------------------------
(* lock_timeout: init-db from sql/009 on, and the whole index pass.         *)
TimeOut(p) ==
    /\ Waits(p)
    /\ pc[p] \in {"builder", "build", "repair", "retire", "drop"} \/ (pc[p] = "fold" /\ cmd[p] = "init_db")
    /\ Fail(p)

(* PostgreSQL aborts one of the transactions that wait in a circle.         *)
Deadlock(p) ==
    /\ \E S \in SUBSET Proc :
          p \in S /\ \A q \in S : Waits(q) /\ Blockers(q) \subseteq S
    /\ Fail(p)

(* A command is killed, or the database restarts under it.                  *)
Kill(p) ==
    /\ kills < MaxKills /\ pc[p] \notin Ended
    /\ kills' = kills + 1 /\ End(p, "failed") /\ loaded' = [loaded EXCEPT ![p] = {}]
    /\ UNCHANGED <<catalog, estate, cmd, index, puts>>

(* An ARM PUT commits an overlay row; it waits for a TRUNCATE to end.       *)
ArmPut ==
    /\ puts < MaxPuts /\ check # "absent" /\ lock["resources"] = Nobody
    /\ rows' = [rows EXCEPT !["overlay"] = IF rows["tenant"] = Nothing THEN Earlier ELSE rows["tenant"]]
    /\ puts' = puts + 1
    /\ UNCHANGED <<catalog, clashes, lock, cmd, pc, loaded, index, kills>>

-----------------------------------------------------------------------------
(* A bare server; a base that lost an object; a volume of an older version, *)
(* with or without rows; one that holds rows in a single table.             *)
OnlyIn(T) == [t \in _SYNTHETIC_TABLES |-> IF t \in T THEN Earlier ELSE Nothing]

Volume ==
    \/ /\ base = "bare" /\ check = "absent" /\ legacy = {}
       /\ rows = OnlyIn({}) /\ clashes = FALSE
    \/ /\ base = "partial" /\ check = "absent" /\ legacy = {}
       /\ rows = OnlyIn({}) /\ clashes = FALSE
    \/ /\ base = "complete" /\ check \in {"absent", "lower"} /\ legacy = Index
       /\ \/ rows = OnlyIn({}) /\ clashes = FALSE
          \/ rows = OnlyIn({"drift"}) /\ clashes = FALSE
          \/ rows = OnlyIn({"tenant", "resources"}) /\ clashes \in BOOLEAN

Init ==
    /\ Volume
    /\ fold = [i \in Index |-> "absent"]
    /\ lock = [l \in Lock |-> Nobody]
    /\ cmd \in [Proc -> Commands]
    /\ pc = [p \in Proc |-> "start"]
    /\ loaded = [p \in Proc |-> {}]
    /\ index = [p \in Proc |-> Index]
    /\ puts = 0 /\ kills = 0

Run(p) ==
    \/ Begin(p) \/ ensure_base_schema(p) \/ CreateBase(p)
    \/ ensure_drift_schema(p) \/ ensure_web_metadata_schema(p) \/ ensure_arm_id_key_schema(p)
    \/ ensure_arm_id_identity_cutover_schema(p) \/ audit_arm_id_identity_during_switchover(p)
    \/ EstateGate(p) \/ Decide(p) \/ generate_tenant(p) \/ truncate_synthetic(p) \/ write_tenant(p)
    \/ open_writer(p)
    \/ TakeBuilderLock(p) \/ CreateIndex(p) \/ ValidateIndex(p) \/ RepairIndex(p)
    \/ _drop_legacy_lower_indexes(p) \/ DropLegacy(p)
    \/ TimeOut(p) \/ Deadlock(p)

Next == ArmPut \/ \E p \in Proc : Run(p) \/ Confirm(p) \/ Kill(p)

Spec == Init /\ [][Next]_vars

(* Every step of a command but the answer to its prompt is taken in the     *)
(* end: connections are served, waits time out or are broken.               *)
Fairness == \A p \in Proc : WF_vars(Run(p))
FairSpec == Spec /\ Fairness

-----------------------------------------------------------------------------
(* Types; and whatever way a command ends, none of its locks outlives it.    *)
TypeOK ==
    /\ base \in {"bare", "partial", "complete"}
    /\ check \in {"absent", "lower", "key"}
    /\ rows \in [_SYNTHETIC_TABLES -> Proc \cup {Earlier, Nothing}]
    /\ clashes \in BOOLEAN
    /\ legacy \subseteq Index
    /\ fold \in [Index -> {"absent", "invalid", "valid"}]
    /\ lock \in [Lock -> Proc \cup {Nobody}]
    /\ cmd \in [Proc -> Commands]
    /\ pc \in [Proc -> Steps]
    /\ loaded \in [Proc -> SUBSET _SYNTHETIC_TABLES]
    /\ index \in [Proc -> SUBSET Index]
    /\ puts \in 0..MaxPuts /\ kills \in 0..MaxKills
    /\ \A p \in Proc, l \in Lock : lock[l] = p => pc[p] \notin Ended

(* writer.build_arm_id_key_indexes_concurrently "Returns True once BOTH fold *)
(* indexes are confirmed ... and the legacy lower() indexes are gone": when *)
(* any command has reported success, that holds and goes on holding.        *)
DoneMeansSwitched ==
    (\E p \in Proc : pc[p] = "done") => legacy = {} /\ \A i \in Index : fold[i] = "valid"

(* A re-seed leaks nothing: once a generate has written the baseline, no    *)
(* table holds rows of an earlier estate.                                   *)
NoLeakedRows ==
    rows["resources"] \in Proc =>
        \A t \in _SYNTHETIC_TABLES : rows[t] \in {Nothing, rows["resources"]}

(* generate --only-if-empty never replaces what another generate wrote:     *)
(* the check and the write are one critical section.                        *)
OnlyIfEmptyNeverReplaces ==
    [][\A p \in Proc : cmd[p] = "if_empty" /\ rows'["resources"] = p /\ rows["resources"] # p
          => \A t \in _SYNTHETIC_TABLES \ {"overlay"} : rows[t] = Nothing]_vars

(* Lookups never lose their index: a lower() index goes only while both     *)
(* fold indexes are valid and no baseline id diverges or collides.          *)
RetiredOnlyWhenReplaced ==
    [][~(legacy \subseteq legacy') => (\A i \in Index : fold[i] = "valid") /\ ~AuditFails]_vars

(* "A divergent estate is refused before it is replaced" (cli.py:957-959),  *)
(* whatever the other commands do between the audit and the TRUNCATE.       *)
DivergentEstateKept ==
    [][AuditFails /\ (check = "lower" \/ legacy # {}) => rows'["resources"] = rows["resources"]]_vars

(* Every command ends, unless some prompt is left unanswered: waits in a    *)
(* circle are broken and a killed command's locks are free again.           *)
Answered == \A p \in Proc : pc[p] = "prompt" ~> pc[p] # "prompt"
CommandsEnd == Answered => \A p \in Proc : <>(pc[p] \in Ended)
=============================================================================
