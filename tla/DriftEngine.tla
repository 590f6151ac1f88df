---------------------------- MODULE DriftEngine -----------------------------
(***************************************************************************)
(* The drift commands of cli.py: apply-drift, revert-drift and the baseline *)
(* reset.  Each is one READ COMMITTED transaction under DRIFT_LOCK_KEY, an  *)
(* advisory lock other than the write plane's: drift commands exclude each  *)
(* other, not the ARM requests.  The ledger (drift_batches, drift_records)  *)
(* is read and written under the lock only, so it changes at commit.        *)
(***************************************************************************)
EXTENDS OverlayStore, Sequences

CONSTANTS
    Scopes,      \* the sets of ids a --subscription / --resource-types selects
    Mintable,    \* the ids mint_appear_leaf can produce, all outside Baseline
    MintBody,    \* the body of a minted leaf
    Referenced,  \* the ids role assignments, dependencies, ... mention
    MaxOps       \* bound: drift commands started in a behaviour

ASSUME DriftAssumption ==
    /\ Scopes \subseteq SUBSET Id
    /\ Mintable \subseteq Id \ Baseline
    /\ MintBody \in Body
    /\ MaxOps \in Nat

VARIABLES
    dlock,   \* the holder of DRIFT_LOCK_KEY
    ledger,  \* the batches in seq order
    plan,    \* plan[t]: what the command running as t works with
    left,    \* left[t]: the <<kind, id>> row writes it still has to make
    ops      \* commands started so far

driftVars == <<dlock, ledger, plan, left, ops>>

(* A drift_record.  A field delta sets one field, "gone" is a disappear     *)
(* and "mint" an appear.                                                    *)
Rec == [kind : {"field", "gone", "mint"}, id : Id, field : Field, val : Val]
Served == [Id -> Body \cup {NoBody}]

(* A fingerprint is a SHA-256 of the served rows: modelled by the rows.     *)
Batch == [recs : SUBSET Rec, parent : Served, result : Served, reverted : BOOLEAN]

Plan == [scope : SUBSET Id, parent : Served, recs : SUBSET Rec,
         minted : SUBSET Id, result : Served, target : Nat]
Unserved == [i \in Id |-> NoBody]
NoPlan == [scope |-> {}, parent |-> Unserved, recs |-> {}, minted |-> {},
           result |-> Unserved, target |-> 0]

Kind == {"field", "gone", "mint", "replay", "clear"}

-----------------------------------------------------------------------------
(* The deltas of a batch on one id.  A batch holds at most one field delta  *)
(* per id here: apply writes one full-body snapshot per id in any case.     *)
Ids(kind, recs) == {r.id : r \in {q \in recs : q.kind = kind}}
Drifted(b, i, recs) ==
    [f \in Field |->
        IF \E r \in recs : r.kind = "field" /\ r.id = i /\ r.field = f
        THEN (CHOOSE r \in recs : r.kind = "field" /\ r.id = i /\ r.field = f).val
        ELSE b[f]]

(* The replay of revert_drift: per id, from the immutable baseline, through *)
(* every batch of active in seq order.  A field delta skips a missing body, *)
(* a disappear hides the body but keeps it, an appear rebuilds it.          *)
Start(i) == [present |-> IF i \in Baseline THEN "live" ELSE "absent",
             body |-> IF i \in Baseline THEN BaseBody[i] ELSE NoBody]

ReplayBatch(st, i, recs) ==
    LET drifted == IF st.body = NoBody THEN NoBody ELSE Drifted(st.body, i, recs) IN
    CASE i \in Ids("mint", recs) -> [present |-> "live", body |-> MintBody]
      [] i \in Ids("gone", recs) \ Ids("mint", recs) ->
             [present |-> "hidden", body |-> drifted]
      [] OTHER -> [st EXCEPT !.body = drifted]

Replay(i, active) ==
    LET fold[n \in 0..Len(ledger)] ==
            IF n = 0 THEN Start(i)
            ELSE IF n \in active THEN ReplayBatch(fold[n - 1], i, ledger[n].recs)
            ELSE fold[n - 1]
    IN  fold[Len(ledger)]

Active == {k \in DOMAIN ledger : ~ledger[k].reverted}

(* The body a replay result is served as. *)
Shown(st) == IF st.present = "live" THEN st.body ELSE NoBody

(* _replay_equals_baseline *)
ReplayEqualsBaseline(st, i) ==
    IF i \in Baseline THEN st.present = "live" /\ st.body = BaseBody[i]
    ELSE st.present = "absent"

-----------------------------------------------------------------------------
StartDrift(t, first) ==
    /\ pc[t] = "idle"
    /\ ops < MaxOps
    /\ dlock = NoTx
    /\ ops' = ops + 1
    /\ dlock' = t
    /\ pc' = [pc EXCEPT ![t] = first]
    /\ UNCHANGED <<storeVars, ledger, plan, left>>

LeaveDrift(t) ==
    /\ dlock' = NoTx
    /\ plan' = [plan EXCEPT ![t] = NoPlan]
    /\ left' = [left EXCEPT ![t] = {}]
    /\ pc' = [pc EXCEPT ![t] = "idle"]
    /\ UNCHANGED ops

(* drift.disappear_eligible over the rows of the scoped read. *)
Eligible(parent) ==
    {i \in Id : /\ parent[i] # NoBody
                /\ i \notin Referenced
                /\ \A j \in Below[i] : parent[j] = NoBody}

(* apply: the scoped read, then the seeded deltas and disappears over it.   *)
ApplyRead(t, S, deltas, gone) ==
    LET parent == ResolvedIn(committed, S) IN
    /\ pc[t] = "apply_read"
    /\ \A r \in deltas : r.kind = "field" /\ parent[r.id] # NoBody
    /\ \A r, q \in deltas : r.id = q.id => r = q
    /\ \A r \in gone : r.kind = "gone" /\ r.id \in Eligible(parent)
    /\ plan' = [plan EXCEPT ![t].scope = S, ![t].parent = parent,
                            ![t].recs = deltas \cup gone]
    /\ pc' = [pc EXCEPT ![t] = "apply_mint"]
    /\ UNCHANGED <<storeVars, dlock, ledger, left, ops>>

(* The ids of every overlay row join the collision set, then leaves are     *)
(* minted into the scope on ids outside it.                                 *)
ApplyMint(t, mints) ==
    LET seen == {i \in Id : plan[t].parent[i] # NoBody \/ committed[i].source # "none"} IN
    /\ pc[t] = "apply_mint"
    /\ \A r \in mints : r.kind = "mint" /\ r.id \in (Mintable \cap plan[t].scope) \ seen
    /\ plan' = [plan EXCEPT ![t].recs = @ \cup mints, ![t].minted = Ids("mint", mints)]
    /\ pc' = [pc EXCEPT ![t] = "apply_owners"]
    /\ UNCHANGED <<storeVars, dlock, ledger, left, ops>>

(* The deltas on ids whose committed row is user-owned are dropped.         *)
ApplyOwners(t) ==
    LET affected == {r.id : r \in plan[t].recs}
        owned == {i \in affected : committed[i].source = "user"}
        kept == {r \in plan[t].recs : r.id \notin owned}
    IN  /\ pc[t] = "apply_owners"
        /\ plan' = [plan EXCEPT ![t].recs = kept]
        /\ left' = [left EXCEPT ![t] = {<<r.kind, r.id>> : r \in kept}]
        /\ pc' = [pc EXCEPT ![t] = "apply_write"]
        /\ UNCHANGED <<storeVars, dlock, ledger, ops>>

(* _OVERLAY_UPSERT_SQL: a row lock without a write on a user-owned row.     *)
DriftUpsert(t, i, row) ==
    \/ View(t)[i].source = "user" /\ LockRow(t, i)
    \/ View(t)[i].source # "user" /\ WriteRow(t, i, row)

(* One upsert of apply: all field snapshots, then disappears, then appears. *)
Pass(kind) == CASE kind = "field" -> 1 [] kind = "gone" -> 2 [] OTHER -> 3
ApplyUpsert(t, kind, i) ==
    /\ pc[t] = "apply_write"
    /\ <<kind, i>> \in left[t]
    /\ \A w \in left[t] : Pass(kind) <= Pass(w[1])
    /\ DriftUpsert(t, i,
         CASE kind = "field" -> PresentRow("drift", Drifted(plan[t].parent[i], i, plan[t].recs))
           [] kind = "gone"  -> Tombstone("drift")
           [] OTHER          -> PresentRow("drift", MintBody))
    /\ left' = [left EXCEPT ![t] = @ \ {<<kind, i>>}]
    /\ UNCHANGED <<pc, dlock, ledger, plan, ops>>

(* The predicted post-apply rows.  A minted leaf is predicted even when its *)
(* delta was dropped; a user-owned id keeps what the scoped read returned.  *)
Predicted(p) ==
    [i \in Id |->
        CASE i \in p.minted -> MintBody
          [] i \notin p.minted /\ (p.parent[i] = NoBody \/ i \in Ids("gone", p.recs)) -> NoBody
          [] OTHER -> Drifted(p.parent[i], i, p.recs)]

(* Mutant: the persisted fingerprint is recorded but not compared.          *)
ApplyVerify_Trusting(t) ==
    /\ pc[t] = "apply_write"
    /\ left[t] = {}
    /\ plan' = [plan EXCEPT ![t].result = ResolvedIn(View(t), plan[t].scope)]
    /\ pc' = [pc EXCEPT ![t] = "apply_commit"]
    /\ UNCHANGED <<storeVars, dlock, ledger, left, ops>>

(* The authoritative re-read; a mismatch raises and rolls back.             *)
ApplyVerify(t) ==
    LET persisted == ResolvedIn(View(t), plan[t].scope) IN
    /\ pc[t] = "apply_write"
    /\ left[t] = {}
    /\ \/ /\ persisted = Predicted(plan[t])
          /\ plan' = [plan EXCEPT ![t].result = persisted]
          /\ pc' = [pc EXCEPT ![t] = "apply_commit"]
          /\ UNCHANGED <<storeVars, dlock, ledger, left, ops>>
       \/ /\ persisted # Predicted(plan[t])
          /\ RollbackRows(t)
          /\ LeaveDrift(t)
          /\ UNCHANGED ledger

ApplyCommit(t) ==
    /\ pc[t] = "apply_commit"
    /\ ledger' = Append(ledger, [recs |-> plan[t].recs, parent |-> plan[t].parent,
                                 result |-> plan[t].result, reverted |-> FALSE])
    /\ CommitRows(t)
    /\ LeaveDrift(t)

-----------------------------------------------------------------------------
(* revert: the target must exist and be active; its ids are recomputed.     *)
RevertRead(t, k) ==
    /\ pc[t] = "revert_read"
    /\ k \in DOMAIN ledger
    /\ ~ledger[k].reverted
    /\ plan' = [plan EXCEPT ![t].target = k]
    /\ left' = [left EXCEPT ![t] = {<<"replay", r.id>> : r \in ledger[k].recs}]
    /\ pc' = [pc EXCEPT ![t] = "revert_write"]
    /\ UNCHANGED <<storeVars, dlock, ledger, ops>>

(* A batch id that names no batch, or one already reverted: a usage error.  *)
RevertRefuse(t) ==
    /\ pc[t] = "revert_read"
    /\ RollbackRows(t)
    /\ LeaveDrift(t)
    /\ UNCHANGED ledger

(* Mutant: the DELETE without its ownership guard.                          *)
DeleteDriftRow_Unguarded(t, i) ==
    \/ View(t)[i].source = "none" /\ UNCHANGED storeVars
    \/ View(t)[i].source # "none" /\ EraseRow(t, i)

(* DELETE ... AND source <> 'user': no visible drift row, nothing to lock.  *)
DeleteDriftRow(t, i) ==
    \/ View(t)[i].source # "drift" /\ UNCHANGED storeVars
    \/ View(t)[i].source = "drift" /\ EraseRow(t, i)

(* Mutant: the replay forgets to leave the target batch out.                *)
RevertRow_KeepsTarget(t, i) ==
    LET st == Replay(i, Active) IN
    /\ pc[t] = "revert_write"
    /\ <<"replay", i>> \in left[t]
    /\ \/ ReplayEqualsBaseline(st, i) /\ DeleteDriftRow(t, i)
       \/ /\ ~ReplayEqualsBaseline(st, i)
          /\ st.present = "hidden" \/ st.body \in Body
          /\ DriftUpsert(t, i, IF st.present = "hidden" THEN Tombstone("drift")
                               ELSE PresentRow("drift", st.body))
    /\ left' = [left EXCEPT ![t] = @ \ {<<"replay", i>>}]
    /\ UNCHANGED <<pc, dlock, ledger, plan, ops>>

(* A live replay without a body would raise in _overlay_body_from_replay;   *)
(* AbortDrift is that error.                                                *)
RevertRow(t, i) ==
    LET st == Replay(i, Active \ {plan[t].target}) IN
    /\ pc[t] = "revert_write"
    /\ <<"replay", i>> \in left[t]
    /\ \/ ReplayEqualsBaseline(st, i) /\ DeleteDriftRow(t, i)
       \/ /\ ~ReplayEqualsBaseline(st, i)
          /\ st.present = "hidden" \/ st.body \in Body
          /\ DriftUpsert(t, i, IF st.present = "hidden" THEN Tombstone("drift")
                               ELSE PresentRow("drift", st.body))
    /\ left' = [left EXCEPT ![t] = @ \ {<<"replay", i>>}]
    /\ UNCHANGED <<pc, dlock, ledger, plan, ops>>

RevertCommit(t) ==
    /\ pc[t] = "revert_write"
    /\ left[t] = {}
    /\ ledger' = [ledger EXCEPT ![plan[t].target].reverted = TRUE]
    /\ CommitRows(t)
    /\ LeaveDrift(t)

-----------------------------------------------------------------------------
(* reset: DELETE FROM arm_overlay takes the rows of its snapshot one by one *)
(* and waits on a locked one; a row inserted since then survives.           *)
ResetScan(t) ==
    /\ pc[t] = "reset_scan"
    /\ left' = [left EXCEPT ![t] = {<<"clear", i>> : i \in {j \in Id : committed[j].source # "none"}}]
    /\ pc' = [pc EXCEPT ![t] = "reset_write"]
    /\ UNCHANGED <<storeVars, dlock, ledger, plan, ops>>

ResetRow(t, i) ==
    /\ pc[t] = "reset_write"
    /\ <<"clear", i>> \in left[t]
    /\ EraseRow(t, i)
    /\ left' = [left EXCEPT ![t] = @ \ {<<"clear", i>>}]
    /\ UNCHANGED <<pc, dlock, ledger, plan, ops>>

ResetCommit(t) ==
    /\ pc[t] = "reset_write"
    /\ left[t] = {}
    /\ ledger' = <<>>
    /\ CommitRows(t)
    /\ LeaveDrift(t)

(* A dry run, a deadlock victim, a statement error, a killed process.       *)
AbortDrift(t) ==
    /\ pc[t] # "idle"
    /\ RollbackRows(t)
    /\ LeaveDrift(t)
    /\ UNCHANGED ledger
=============================================================================
