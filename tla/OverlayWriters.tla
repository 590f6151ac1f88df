--------------------------- MODULE OverlayWriters ---------------------------
(***************************************************************************)
(* The two families of writers of arm_overlay running together: the ARM     *)
(* requests of the server, serialized among themselves by one advisory      *)
(* lock, and the drift commands of the CLI, serialized by another.          *)
(***************************************************************************)
EXTENDS ArmWritePlane, DriftEngine

CONSTANTS
    Payload,   \* the bodies requests carry
    Patches,   \* the sets of fields a PATCH body may name
    DriftVal   \* the values the seeded mutators set

ASSUME InputAssumption ==
    /\ Payload \subseteq Body
    /\ Patches \subseteq SUBSET Field
    /\ DriftVal \subseteq Val

(* lastRev[i] is the highest revision any committed row of i has carried:   *)
(* history, read by the properties only.                                    *)
VARIABLE lastRev

vars == <<storeVars, pc, writeVars, driftVars, lastRev>>

ClientPC == {"idle", "queued", "read_overlay", "read_view", "read_tombstone", "upsert",
             "gather_view", "gather_overlay", "tombstone", "cascade", "commit"}
DrifterPC == {"idle", "apply_read", "apply_mint", "apply_owners", "apply_write",
              "apply_commit", "revert_read", "revert_write", "reset_scan", "reset_write"}

(* A request the client at t may send. *)
ClientArrives(t) ==
    \E i \in Id : \E h \in Headers(i) :
        \/ \E b \in Payload : Submit(t, "PUT", i, Field, b, h)
        \/ \E b \in Payload, F \in Patches : Submit(t, "PATCH", i, F, b, h)
        \/ Submit(t, "DELETE", i, {}, BaseBody[i], h)

DriftArrives(t) ==
    \E first \in {"apply_read", "revert_read", "reset_scan"} : StartDrift(t, first)

FieldDeltas == {r \in Rec : r.kind = "field" /\ r.val \in DriftVal}
AtMostOnePerId(recs) == \A r, q \in recs : r.id = q.id => r = q

(* Lifecycle records carry no field of their own: one shape per kind and id. *)
Marker(kind, i) == [kind |-> kind, id |-> i, field |-> CHOOSE f \in Field : TRUE,
                    val |-> CHOOSE v \in Val : TRUE]

ApplyStep(t) ==
    \/ /\ pc[t] = "apply_read"
       /\ \E S \in Scopes, G \in SUBSET Id :
             \E D \in {R \in SUBSET FieldDeltas : AtMostOnePerId(R)} :
                ApplyRead(t, S, D, {Marker("gone", i) : i \in G})
    \/ /\ pc[t] = "apply_mint"
       /\ \E M \in SUBSET Mintable : ApplyMint(t, {Marker("mint", i) : i \in M})
    \/ ApplyOwners(t)
    \/ \E kind \in Kind, i \in Id : ApplyUpsert(t, kind, i)
    \/ ApplyVerify(t)
    \/ ApplyCommit(t)

RevertStep(t) ==
    \/ RevertRefuse(t)
    \/ \E k \in DOMAIN ledger : RevertRead(t, k)
    \/ \E i \in Id : RevertRow(t, i)
    \/ RevertCommit(t)

ResetStep(t) == ResetScan(t) \/ (\E i \in Id : ResetRow(t, i)) \/ ResetCommit(t)

DriftStep(t) == ApplyStep(t) \/ RevertStep(t) \/ ResetStep(t)

-----------------------------------------------------------------------------
(* Row-lock waits.  A client or a drift command is stuck when every row it  *)
(* may write next is locked by another transaction.                         *)
NextRows(t) ==
    IF t \in Client
    THEN CASE pc[t] \in {"upsert", "tombstone"} -> {req[t].id}
           [] pc[t] = "cascade" -> sweep[t]
           [] OTHER -> {}
    ELSE {i \in Id : \E w \in left[t] :
             w[2] = i /\ \A x \in left[t] : Pass(w[1]) <= Pass(x[1])}

Stuck(t) == NextRows(t) # {} /\ \A i \in NextRows(t) : ~Free(t, i)

WaitsFor(t, u) == Stuck(t) /\ \E i \in NextRows(t) : owner[i] = u

(* PostgreSQL's detector aborts one transaction of a cycle of waits.  Only  *)
(* the two advisory-lock holders own rows, so a cycle has two members.      *)
DetectDeadlock ==
    \E t \in Client, u \in Drifter :
        /\ WaitsFor(t, u) /\ WaitsFor(u, t)
        /\ \/ AbortWrite(t) /\ UNCHANGED driftVars
           \/ AbortDrift(u) /\ UNCHANGED writeVars

-----------------------------------------------------------------------------
Init ==
    /\ StoreInit
    /\ WriteInit
    /\ dlock = NoTx /\ ledger = <<>> /\ ops = 0
    /\ plan = [t \in Drifter |-> NoPlan]
    /\ left = [t \in Drifter |-> {}]
    /\ pc = [t \in Tx |-> "idle"]
    /\ lastRev = [i \in Id |-> 0]

ClientNext(t) ==
    (ClientArrives(t) \/ WriteStep(t) \/ AbortWrite(t)) /\ UNCHANGED driftVars

DrifterNext(t) ==
    (DriftArrives(t) \/ DriftStep(t) \/ AbortDrift(t)) /\ UNCHANGED writeVars

Track ==
    lastRev' = [i \in Id |-> IF committed'[i].source # "none"
                             THEN committed'[i].revision ELSE lastRev[i]]

Next ==
    /\ \/ \E t \in Client : ClientNext(t)
       \/ \E t \in Drifter : DrifterNext(t)
       \/ DetectDeadlock
    /\ Track

Spec == Init /\ [][Next]_vars

(***************************************************************************)
(* Fairness.  A transaction that can take its next step takes it (tokio and *)
(* the OS schedule both sides); PostgreSQL queues lock waiters in order, so *)
(* a waiter whose lock keeps coming free gets it: strong fairness.  Nothing *)
(* makes a request arrive, a process start or a transaction abort, except   *)
(* the deadlock detector, which runs after deadlock_timeout.                *)
(***************************************************************************)
FairSpec ==
    /\ Spec
    /\ \A t \in Client : SF_vars(WriteStep(t) /\ UNCHANGED driftVars /\ Track)
    /\ \A t \in Drifter : SF_vars(DriftStep(t) /\ UNCHANGED writeVars /\ Track)
    /\ WF_vars(DetectDeadlock /\ Track)

-----------------------------------------------------------------------------
(* Every variable stays in its type. *)
TypeOK ==
    /\ StoreTypeOK
    /\ WriteTypeOK
    /\ dlock \in Drifter \cup {NoTx}
    /\ ledger \in Seq(Batch)
    /\ plan \in [Drifter -> Plan]
    /\ left \in [Drifter -> SUBSET (Kind \X Id)]
    /\ ops \in Nat
    /\ pc \in [Tx -> ClientPC \cup DrifterPC]
    /\ \A t \in Client : pc[t] \in ClientPC
    /\ \A t \in Drifter : pc[t] \in DrifterPC
    /\ lastRev \in [Id -> Nat]

(* When a request is about to commit over a row that is user-owned, that row *)
(* is the one its read_current returned: no ARM write is lost to another     *)
(* whatever the interleaving of requests, drift commands and aborts          *)
(* (resource_write.rs:54-66, the advisory lock).                             *)
NoLostUserUpdate ==
    \A t \in Client : pc[t] = "commit" =>
        LET row == committed[req[t].id] IN
        row.source = "user" =>
            IF row.present
            THEN cur[t].kind = "overlay" /\ cur[t].revision = row.revision
            ELSE cur[t].kind = "tombstoned"

(* A DELETE about to commit leaves no user-owned resource live below its     *)
(* target (resource_write.rs:627-674, gather and cascade under the lock).    *)
CascadeSweepsUserRows ==
    \A t \in Client : pc[t] = "commit" /\ req[t].op = "DELETE" =>
        \A d \in Below[req[t].id] : View(t)[d].source = "user" => ~View(t)[d].present

(* What is served for an id no user owns is the replay of the active batches *)
(* over the baseline: apply's incremental snapshots and revert's recompute   *)
(* agree, for any batch reverted in any order (cli.py:1575-1667, 2008-2086). *)
LedgerExplainsServedState ==
    \A i \in Id : committed[i].source # "user" =>
        Resolved(committed, i) = Shown(Replay(i, Active))

(* What the records of a batch make of its parent row of i. *)
Explained(b, i) ==
    LET minted == Ids("mint", b.recs)
        hidden == Ids("gone", b.recs) \cup {j \in Id : b.parent[j] = NoBody}
    IN  CASE i \in minted -> MintBody
          [] i \in hidden \ minted -> NoBody
          [] OTHER -> Drifted(b.parent[i], i, b.recs)

(* A batch in the ledger recorded a result that its own records explain: its *)
(* parent rows with its deltas applied, nothing else (cli.py:1669-1696).     *)
(* One coincidence escapes the verification: a request creates the resource  *)
(* apply is about to mint, with exactly the minted body.  apply drops the    *)
(* appear, the id being user-owned, but still predicts the leaf and finds it.*)
RecordsExplainResult ==
    \A k \in DOMAIN ledger, i \in Id : LET b == ledger[k] IN
        \/ b.result[i] = Explained(b, i)
        \/ i \in Mintable /\ b.parent[i] = NoBody /\ b.result[i] = MintBody

(* A request whose If-Match named an ETag overwrites the representation that  *)
(* ETag names (resource_write.rs:58-59).  The row is locked from the upsert   *)
(* on, so what is served at the commit is what the write replaces.            *)
IfMatchIsAtomic ==
    \A t \in Client : pc[t] = "commit" /\ req[t].im.strong # {} =>
        ServedEtag(req[t].id) \in req[t].im.strong

(* An apply about to commit records no delta for a user-owned id              *)
(* (cli.py:1476-1482).                                                        *)
NoPhantomRecord ==
    \A t \in Drifter : pc[t] = "apply_commit" =>
        \A r \in plan[t].recs : View(t)[r.id].source # "user"

(* A user-owned row changes only by the request that holds its row lock, or  *)
(* by a reset: drift neither rewrites nor deletes it (cli.py:151-175, 2065). *)
UserOwnershipIsLatched ==
    [][\A i \in Id : committed[i].source = "user" /\ committed'[i] # committed[i] =>
          \/ owner[i] \in Client /\ committed'[i].source = "user"
          \/ \E t \in Drifter : pc[t] = "reset_write" /\ pc'[t] = "idle"]_vars

(* A committed row version carries a revision no earlier version of that id  *)
(* carried, across resets and reverts too: an "o-" ETag names one            *)
(* representation for ever (sql/009 trigger, cli.py:1819-1826).              *)
EtagNeverReused ==
    [][\A i \in Id : committed'[i] # committed[i] /\ committed'[i].source # "none" =>
          committed'[i].revision > lastRev[i]]_vars

(* To a reader of the table each request and each drift command is one step: *)
(* requests are compare-and-swap over user-owned rows, a DELETE takes its     *)
(* subtree, and a batch enters or leaves the ledger together with its rows    *)
(* (resource_write.rs:525-674, cli.py:1258-1407, 1752-1990).                  *)
Atomic == INSTANCE AtomicOverlay WITH
    table <- committed, stamp <- lastRev, asked <- req,
    undone <- [k \in DOMAIN ledger |-> ledger[k].reverted]

OverlayIsAtomic == Atomic!Spec

(* Every transaction ends: requests and drift commands never wait on each    *)
(* other for good, deadlocks of the cascade against apply included.          *)
EveryTransactionEnds ==
    \A t \in Tx : pc[t] # "idle" ~> pc[t] = "idle"
=============================================================================
