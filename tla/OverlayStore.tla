---------------------------- MODULE OverlayStore ----------------------------
(***************************************************************************)
(* The ARM overlay table (sql/009), the resolved view over it (sql/010) and *)
(* the part of PostgreSQL its two families of writers rely on: READ         *)
(* COMMITTED transactions, row locks held until commit or rollback, and a   *)
(* sequence that no rollback gives back.                                    *)
(*                                                                         *)
(* An id stands for one identity class of sql/011 (arm_id_key), so raw      *)
(* casing is abstracted; a body is a function from a small set of fields.   *)
(***************************************************************************)
EXTENDS Naturals

CONSTANTS
    Id,        \* identity keys of resources
    Baseline,  \* the ids synthetic.resources holds
    Below,     \* Below[i]: the ids strictly nested under i
    Field,     \* the fields of a body that tell the properties apart
    Val,       \* their values
    BaseBody,  \* BaseBody[i]: the body of the baseline row of i
    Client,    \* ARM requests in flight, one transaction each
    Drifter,   \* apply-drift / revert-drift / reset processes
    NoBody,    \* no body: a tombstone's NULL, or "not served"
    NoTx       \* nobody

Tx == Client \cup Drifter
Body == [Field -> Val]

ASSUME StoreAssumption ==
    /\ Baseline \subseteq Id
    /\ Below \in [Id -> SUBSET Id]
    /\ \A i \in Id : i \notin Below[i]
    /\ Field # {} /\ Val # {}
    /\ BaseBody \in [Id -> Body]
    /\ NoBody \notin Body
    /\ Client \cap Drifter = {}
    /\ NoTx \notin Tx

(***************************************************************************)
(* A row of arm_overlay.  source "none" is the absence of a row; a present  *)
(* row holds a body, a tombstone holds none (the body CHECKs of sql/009).   *)
(***************************************************************************)
Row == [source : {"none", "user", "drift"}, present : BOOLEAN,
        body : Body \cup {NoBody}, revision : Nat]

NoRow == [source |-> "none", present |-> FALSE, body |-> NoBody, revision |-> 0]

PresentRow(src, b) == [source |-> src, present |-> TRUE, body |-> b, revision |-> 0]
Tombstone(src) == [source |-> src, present |-> FALSE, body |-> NoBody, revision |-> 0]

VARIABLES
    committed,  \* arm_overlay as a new statement sees it
    owner,      \* owner[i]: the transaction holding the row lock of i
    pending,    \* pending[i]: the uncommitted version its owner wrote
    seq,        \* arm_overlay_revision_seq
    pc          \* pc[t]: the statement transaction t runs next

storeVars == <<committed, owner, pending, seq>>

-----------------------------------------------------------------------------
(* What a statement of t sees: committed rows and its own writes. *)
View(t) == [i \in Id |-> IF owner[i] = t THEN pending[i] ELSE committed[i]]

(* The body arm_resolved_resources serves for i over the rows in table,     *)
(* NoBody when it serves none: any overlay row shadows the baseline.        *)
Resolved(table, i) ==
    IF table[i].source # "none" THEN table[i].body
    ELSE IF i \in Baseline THEN BaseBody[i] ELSE NoBody

ResolvedIn(table, S) ==
    [i \in Id |-> IF i \in S THEN Resolved(table, i) ELSE NoBody]

Live(table) == {i \in Id : Resolved(table, i) # NoBody}

-----------------------------------------------------------------------------
(* The row of i is locked by t or by nobody: a write by t need not wait.    *)
Free(t, i) == owner[i] \in {t, NoTx}

(* Mutant: a trigger BEFORE INSERT only; an update keeps its revision.      *)
WriteRow_InsertOnlyTrigger(t, i, row) ==
    LET old == View(t)[i].revision
        rev == IF old = 0 THEN seq + 1 ELSE old IN
    /\ Free(t, i)
    /\ owner' = [owner EXCEPT ![i] = t]
    /\ pending' = [pending EXCEPT ![i] = [row EXCEPT !.revision = rev]]
    /\ seq' = seq + 1
    /\ UNCHANGED committed

(* The revision trigger: every INSERT or UPDATE takes a fresh nextval.  The *)
(* gaps of a sequence (a conflicting upsert draws twice) are not modelled.  *)
WriteRow(t, i, row) ==
    /\ Free(t, i)
    /\ owner' = [owner EXCEPT ![i] = t]
    /\ pending' = [pending EXCEPT ![i] = [row EXCEPT !.revision = seq + 1]]
    /\ seq' = seq + 1
    /\ UNCHANGED committed

(* ON CONFLICT DO UPDATE ... WHERE false: the row is locked, not rewritten. *)
LockRow(t, i) ==
    /\ Free(t, i)
    /\ owner' = [owner EXCEPT ![i] = t]
    /\ pending' = [pending EXCEPT ![i] = View(t)[i]]
    /\ UNCHANGED <<committed, seq>>

EraseRow(t, i) ==
    /\ Free(t, i)
    /\ owner' = [owner EXCEPT ![i] = t]
    /\ pending' = [pending EXCEPT ![i] = NoRow]
    /\ UNCHANGED <<committed, seq>>

ReleaseRows(t) ==
    /\ owner' = [i \in Id |-> IF owner[i] = t THEN NoTx ELSE owner[i]]
    /\ pending' = [i \in Id |-> IF owner[i] = t THEN NoRow ELSE pending[i]]
    /\ UNCHANGED seq

CommitRows(t) == committed' = View(t) /\ ReleaseRows(t)

(* Mutant: the error path gives the connection back with its transaction.   *)
RollbackRows_LeftOpen(t) == UNCHANGED <<committed, owner, pending, seq>>

RollbackRows(t) == UNCHANGED committed /\ ReleaseRows(t)

StoreInit ==
    /\ committed = [i \in Id |-> NoRow]
    /\ owner = [i \in Id |-> NoTx]
    /\ pending = [i \in Id |-> NoRow]
    /\ seq = 0

(* The row CHECKs of sql/009: a body exactly when present.               *)
WellFormed(row) ==
    /\ row.present <=> row.body # NoBody
    /\ row.source = "none" => row = NoRow

StoreTypeOK ==
    /\ committed \in [Id -> Row]
    /\ owner \in [Id -> Tx \cup {NoTx}]
    /\ pending \in [Id -> Row]
    /\ seq \in Nat
    /\ \A i \in Id : WellFormed(committed[i]) /\ WellFormed(pending[i])
=============================================================================
