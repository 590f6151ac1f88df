----------------------- MODULE OverlayWriters_proofs ------------------------
(***************************************************************************)
(* Proofs about OverlayWriters, for every estate, any number of requests    *)
(* and of drift processes, and any bound on both.                           *)
(*                                                                         *)
(* The first half proves the types.  TypeOK needs PhaseOK beside it: PATCH  *)
(* merges into the body it read and apply drifts the body it read, so both  *)
(* must be known to be bodies when they are used.                           *)
(*                                                                         *)
(* The second half proves four properties from one invariant, IInv.  It     *)
(* says who may hold a row lock and with what in it (LockOK), that a        *)
(* request remembers its user-owned target as it is (ReadsOK), that the     *)
(* sequence is ahead of the rows (RevOK) and that the sweep of a DELETE     *)
(* covers its user-owned descendants (SweepOK).  Each step is first reduced *)
(* to what it does to the store (DriftMove, ClientMove); preservation is    *)
(* then proved per kind of move, not per action.                            *)
(***************************************************************************)
EXTENDS OverlayWriters, SequenceTheorems, TLAPS

PhaseOK ==
    /\ \A t \in Client : pc[t] # "idle" =>
          req[t] \in Request /\ (req[t].op = "PUT" => req[t].fields = Field)
    /\ \A t \in Client : pc[t] = "upsert" => req[t].fields = Field \/ cur[t].body \in Body
    /\ \A t \in Drifter : \A r \in plan[t].recs :
          r.kind = "field" => plan[t].parent[r.id] \in Body
    /\ \A t \in Drifter, i \in Id : <<"field", i>> \in left[t] =>
          pc[t] = "apply_write" /\ plan[t].parent[i] \in Body

TypeInv == TypeOK /\ PhaseOK

-----------------------------------------------------------------------------
(* The absent row is a well-formed row. *)
LEMMA NoRowType == NoRow \in Row /\ WellFormed(NoRow)
  BY DEF NoRow, Row, WellFormed

(* What a statement sees is well typed: committed rows and its own writes. *)
LEMMA ViewType ==
  ASSUME StoreTypeOK, NEW t
  PROVE  View(t) \in [Id -> Row] /\ \A i \in Id : WellFormed(View(t)[i])
  BY DEF StoreTypeOK, View

(* The resolved view serves a body or nothing. *)
LEMMA ResolvedType ==
  ASSUME NEW table \in [Id -> Row], NEW i \in Id
  PROVE  Resolved(table, i) \in Body \cup {NoBody}
  BY StoreAssumption DEF Resolved, Row

(* A scoped read of the view is a table of served bodies. *)
LEMMA ResolvedInType ==
  ASSUME NEW table \in [Id -> Row], NEW S
  PROVE  ResolvedIn(table, S) \in Served
  BY ResolvedType DEF ResolvedIn, Served

(* A present row with a body respects the CHECKs of sql/009. *)
LEMMA PresentRowType ==
  ASSUME NEW src \in {"user", "drift"}, NEW b \in Body
  PROVE  PresentRow(src, b) \in Row /\ WellFormed(PresentRow(src, b))
         /\ PresentRow(src, b).source = src /\ PresentRow(src, b).present
  BY StoreAssumption DEF PresentRow, Row, WellFormed

(* A tombstone without a body respects the CHECKs of sql/009. *)
LEMMA TombstoneType ==
  ASSUME NEW src \in {"user", "drift"}
  PROVE  Tombstone(src) \in Row /\ WellFormed(Tombstone(src))
         /\ Tombstone(src).source = src /\ ~Tombstone(src).present
  BY DEF Tombstone, Row, WellFormed

(* A row write with its trigger keeps the store well typed. *)
LEMMA WriteRowType ==
  ASSUME StoreTypeOK, NEW t \in Tx, NEW i \in Id, NEW row \in Row,
         WellFormed(row), row.source # "none", WriteRow(t, i, row)
  PROVE  StoreTypeOK'
<1> DEFINE new == [row EXCEPT !.revision = seq + 1]
<1>1. seq + 1 \in Nat
  BY DEF StoreTypeOK
<1>2. new \in Row /\ WellFormed(new)
  BY <1>1 DEF Row, WellFormed
<1>3. pending' = [pending EXCEPT ![i] = new] /\ owner' = [owner EXCEPT ![i] = t]
      /\ seq' = seq + 1 /\ committed' = committed
  BY DEF WriteRow
<1> HIDE DEF new
<1> QED
  BY <1>1, <1>2, <1>3 DEF StoreTypeOK

(* A guarded upsert that writes nothing keeps the store well typed. *)
LEMMA LockRowType ==
  ASSUME StoreTypeOK, NEW t \in Tx, NEW i \in Id, LockRow(t, i)
  PROVE  StoreTypeOK'
<1>1. View(t)[i] \in Row /\ WellFormed(View(t)[i])
  BY ViewType
<1> QED
  BY <1>1 DEF StoreTypeOK, LockRow

(* A row DELETE keeps the store well typed. *)
LEMMA EraseRowType ==
  ASSUME StoreTypeOK, NEW t \in Tx, NEW i \in Id, EraseRow(t, i)
  PROVE  StoreTypeOK'
  BY NoRowType DEF StoreTypeOK, EraseRow

(* A commit keeps the store well typed. *)
LEMMA CommitRowsType ==
  ASSUME StoreTypeOK, NEW t \in Tx, CommitRows(t)
  PROVE  StoreTypeOK'
  BY NoRowType, ViewType DEF StoreTypeOK, CommitRows, ReleaseRows

(* A rollback keeps the store well typed. *)
LEMMA RollbackRowsType ==
  ASSUME StoreTypeOK, NEW t \in Tx, RollbackRows(t)
  PROVE  StoreTypeOK'
  BY NoRowType DEF StoreTypeOK, RollbackRows, ReleaseRows

(* A step that leaves the store alone keeps it well typed. *)
LEMMA SameRowsType ==
  ASSUME StoreTypeOK, UNCHANGED storeVars
  PROVE  StoreTypeOK'
  BY DEF StoreTypeOK, storeVars, WellFormed

(* Drifting a body gives a body. *)
LEMMA DriftedType ==
  ASSUME NEW b \in Body, NEW i, NEW recs \in SUBSET Rec
  PROVE  Drifted(b, i, recs) \in Body
<1> DEFINE P(r, f) == r.kind = "field" /\ r.id = i /\ r.field = f
<1>1. ASSUME NEW f \in Field, \E r \in recs : P(r, f)
      PROVE  (CHOOSE r \in recs : P(r, f)).val \in Val
  <2>1. (CHOOSE r \in recs : P(r, f)) \in recs
    BY <1>1
  <2> QED
    BY <2>1 DEF Rec
<1>2. \A f \in Field : b[f] \in Val
  BY DEF Body
<1> QED
  BY <1>1, <1>2 DEF Drifted, Body

(* A lifecycle marker is a drift record of its kind and id. *)
LEMMA MarkerType ==
  ASSUME NEW kind \in {"gone", "mint"}, NEW i \in Id
  PROVE  Marker(kind, i) \in Rec /\ Marker(kind, i).kind = kind /\ Marker(kind, i).id = i
  BY StoreAssumption DEF Marker, Rec

-----------------------------------------------------------------------------
(* The requests. *)

(* The end of a request keeps the types. *)
LEMMA LeaveWriteType ==
  ASSUME TypeInv, NEW t \in Client, StoreTypeOK', LeaveWrite(t), UNCHANGED driftVars, Track
  PROVE  TypeInv'
<1> USE DEF TypeInv, TypeOK
<1>1. WriteTypeOK'
  BY DEF WriteTypeOK, LeaveWrite, Current, NoCurrent
<1>2. pc' \in [Tx -> ClientPC \cup DrifterPC] /\ (\A u \in Client : pc'[u] \in ClientPC)
      /\ \A u \in Drifter : pc'[u] \in DrifterPC
  BY StoreAssumption DEF LeaveWrite, ClientPC, Tx
<1>3. lastRev' \in [Id -> Nat]
  BY DEF Track, StoreTypeOK, Row
<1>4. PhaseOK'
  BY StoreAssumption DEF PhaseOK, LeaveWrite, WriteTypeOK, driftVars, Tx
<1> QED
  BY <1>1, <1>2, <1>3, <1>4 DEF driftVars

(* A request that moves on to a next statement keeps the types. *)
LEMMA StayWriteType ==
  ASSUME TypeInv, NEW t \in Client, NEW label \in ClientPC,
         pc' = [pc EXCEPT ![t] = label],
         StoreTypeOK', WriteTypeOK', UNCHANGED driftVars, Track,
         \A u \in Client \ {t} : req'[u] = req[u] /\ cur'[u] = cur[u],
         req'[t] \in Request /\ (req'[t].op = "PUT" => req'[t].fields = Field),
         label = "upsert" => req'[t].fields = Field \/ cur'[t].body \in Body
  PROVE  TypeInv'
<1> USE DEF TypeInv, TypeOK
<1>1. pc' \in [Tx -> ClientPC \cup DrifterPC] /\ (\A u \in Client : pc'[u] \in ClientPC)
      /\ \A u \in Drifter : pc'[u] \in DrifterPC
  BY StoreAssumption DEF Tx
<1>2. lastRev' \in [Id -> Nat]
  BY DEF Track, StoreTypeOK, Row
<1>3. PhaseOK'
  BY StoreAssumption DEF PhaseOK, WriteTypeOK, driftVars, Tx
<1> QED
  BY <1>1, <1>2, <1>3 DEF driftVars

(* The conditional headers a client can send are headers. *)
LEMMA HeadersType ==
  ASSUME TypeInv, NEW i \in Id, NEW h \in Headers(i)
  PROVE  h[1] \in Header /\ h[2] \in Header
<1>1. ServedEtag(i) \in Token
  BY StoreAssumption
  DEF TypeInv, TypeOK, StoreTypeOK, Row, ServedEtag, overlay_etag, baseline_etag, NoToken, Token
<1>2. NoHeader \in Header /\ AnyHeader \in Header /\ \A tok \in Token : TokenHeader(tok) \in Header
  BY DEF NoHeader, AnyHeader, TokenHeader, Header
<1>3. \/ h \in {<<NoHeader, NoHeader>>, <<AnyHeader, NoHeader>>, <<NoHeader, AnyHeader>>}
      \/ h = <<TokenHeader(ServedEtag(i)), NoHeader>>
  BY DEF Headers
<1> QED
  BY <1>1, <1>2, <1>3

(* The arrival of a request keeps the types. *)
LEMMA SubmitType ==
  ASSUME TypeInv, NEW t \in Client, ClientArrives(t), UNCHANGED driftVars, Track
  PROVE  TypeInv'
<1>0. PICK i \in Id : \E h \in Headers(i) :
          \/ \E b \in Payload : Submit(t, "PUT", i, Field, b, h)
          \/ \E b \in Payload, F \in Patches : Submit(t, "PATCH", i, F, b, h)
          \/ Submit(t, "DELETE", i, {}, BaseBody[i], h)
  BY DEF ClientArrives
<1>1. PICK h \in Headers(i), op \in {"PUT", "PATCH", "DELETE"}, F \in SUBSET Field, b \in Body :
          Submit(t, op, i, F, b, h) /\ (op = "PUT" => F = Field)
  BY <1>0, InputAssumption, StoreAssumption
<1> DEFINE r == [op |-> op, id |-> i, fields |-> F, body |-> b, im |-> h[1], inm |-> h[2]]
<1>2. r \in Request /\ (r.op = "PUT" => r.fields = Field)
  BY <1>1, HeadersType DEF Request
<1>3. req' = [req EXCEPT ![t] = r] /\ pc' = [pc EXCEPT ![t] = "queued"]
      /\ requests' = requests + 1 /\ UNCHANGED <<storeVars, wlock, cur, sweep>>
  BY <1>1 DEF Submit
<1> HIDE DEF r
<1>4. StoreTypeOK'
  BY <1>3, SameRowsType DEF TypeInv, TypeOK
<1>5. WriteTypeOK'
  BY <1>2, <1>3 DEF TypeInv, TypeOK, WriteTypeOK
<1> QED
  BY <1>2, <1>3, <1>4, <1>5, StayWriteType DEF ClientPC, TypeInv, TypeOK, WriteTypeOK

(* Taking the advisory lock keeps the types. *)
LEMMA TakeWriteLockType ==
  ASSUME TypeInv, NEW t \in Client, TakeWriteLock(t), UNCHANGED driftVars, Track
  PROVE  TypeInv'
<1>1. StoreTypeOK'
  BY SameRowsType DEF TakeWriteLock, TypeInv, TypeOK
<1>2. WriteTypeOK'
  BY DEF TakeWriteLock, TypeInv, TypeOK, WriteTypeOK
<1> QED
  BY <1>1, <1>2, StayWriteType DEF TakeWriteLock, ClientPC, TypeInv, PhaseOK

(* The outcome of read_current, refusal or pass, keeps the types. *)
LEMMA SettleType ==
  ASSUME TypeInv, NEW t \in Client, pc[t] # "idle", NEW c \in Current,
         c.kind \in {"overlay", "baseline"} => c.body \in Body,
         Settle(t, c), UNCHANGED driftVars, Track
  PROVE  TypeInv'
<1>1. req[t] \in Request /\ (req[t].op = "PUT" => req[t].fields = Field)
  BY DEF TypeInv, PhaseOK
<1>2. CASE RollbackRows(t) /\ LeaveWrite(t)
  BY <1>2, RollbackRowsType, LeaveWriteType DEF TypeInv, TypeOK, Tx
<1>3. CASE /\ req[t].op = "PATCH" => c.kind \in {"overlay", "baseline"}
           /\ cur' = [cur EXCEPT ![t] = c]
           /\ pc' = [pc EXCEPT ![t] = IF req[t].op = "DELETE" THEN "gather_view" ELSE "upsert"]
           /\ UNCHANGED <<storeVars, wlock, req, sweep, requests>>
  <2> DEFINE label == IF req[t].op = "DELETE" THEN "gather_view" ELSE "upsert"
  <2>1. label \in ClientPC /\ (label = "upsert" => req[t].op \in {"PUT", "PATCH"})
    BY <1>1 DEF ClientPC, Request
  <2>2. StoreTypeOK'
    BY <1>3, SameRowsType DEF TypeInv, TypeOK
  <2>3. WriteTypeOK' /\ cur'[t] = c
    BY <1>3 DEF TypeInv, TypeOK, WriteTypeOK
  <2>4. pc' = [pc EXCEPT ![t] = label]
    BY <1>3
  <2>5. label = "upsert" => req'[t].fields = Field \/ cur'[t].body \in Body
    BY <1>1, <1>3, <2>1, <2>3
  <2>6. \A u \in Client \ {t} : req'[u] = req[u] /\ cur'[u] = cur[u]
    BY <1>3 DEF TypeInv, TypeOK, WriteTypeOK
  <2> HIDE DEF label
  <2> QED
    BY <1>1, <1>3, <2>1, <2>2, <2>3, <2>4, <2>5, <2>6, StayWriteType
<1> QED
  BY <1>2, <1>3 DEF Settle

(* The three statements of read_current keep the types. *)
LEMMA ReadStepType ==
  ASSUME TypeInv, NEW t \in Client, ReadOverlay(t) \/ ReadView(t) \/ ReadTombstone(t),
         UNCHANGED driftVars, Track
  PROVE  TypeInv'
<1> DEFINE row == committed[req[t].id]
           b   == Resolved(committed, req[t].id)
<1>1. pc[t] # "idle" /\ req[t] \in Request /\ (req[t].op = "PUT" => req[t].fields = Field)
  BY DEF TypeInv, PhaseOK, ReadOverlay, ReadView, ReadTombstone
<1>2. row \in Row /\ WellFormed(row) /\ b \in Body \cup {NoBody}
  BY <1>1, ResolvedType DEF TypeInv, TypeOK, StoreTypeOK, Request
<1>3. ASSUME NEW label \in {"read_view", "read_tombstone"},
             pc' = [pc EXCEPT ![t] = label], UNCHANGED <<storeVars, writeVars>>
      PROVE  TypeInv'
  <2>1. StoreTypeOK' /\ WriteTypeOK'
    BY <1>3, SameRowsType DEF TypeInv, TypeOK, writeVars, WriteTypeOK
  <2> QED
    BY <1>1, <1>3, <2>1, StayWriteType DEF ClientPC, writeVars
<1>4. CASE ReadOverlay(t)
  <2>1. row.present => [kind |-> "overlay", revision |-> row.revision, body |-> row.body] \in Current
                       /\ row.body \in Body
    BY <1>2 DEF Row, WellFormed, Current
  <2> QED
    BY <1>1, <1>3, <1>4, <2>1, SettleType DEF ReadOverlay
<1>5. CASE ReadView(t)
  <2>1. b # NoBody => [kind |-> "baseline", revision |-> 0, body |-> b] \in Current /\ b \in Body
    BY <1>2 DEF Current
  <2> QED
    BY <1>1, <1>3, <1>5, <2>1, SettleType DEF ReadView
<1>6. CASE ReadTombstone(t)
  <2> DEFINE k == IF row.source # "none" /\ ~row.present THEN "tombstoned" ELSE "absent"
  <2>1. [kind |-> k, revision |-> 0, body |-> NoBody] \in Current
    BY DEF Current
  <2>2. Settle(t, [kind |-> k, revision |-> 0, body |-> NoBody])
    BY <1>6 DEF ReadTombstone
  <2> QED
    BY <1>1, <2>1, <2>2, SettleType
<1> QED
  BY <1>4, <1>5, <1>6

(* PUT and PATCH write a whole body: PATCH has read a current one. *)
LEMMA WrittenBodyType ==
  ASSUME TypeInv, NEW t \in Client, pc[t] = "upsert"
  PROVE  WrittenBody(t) \in Body
<1>1. req[t].body \in Body /\ (req[t].fields = Field \/ cur[t].body \in Body)
  BY DEF TypeInv, PhaseOK, Request
<1> QED
  BY <1>1 DEF WrittenBody, Body

(* The upsert, the gather and the cascade keep the types. *)
LEMMA WriteStepType ==
  ASSUME TypeInv, NEW t \in Client, UNCHANGED driftVars, Track,
         \/ UpsertPresent(t) \/ GatherView(t) \/ GatherOverlay(t) \/ TombstoneTarget(t)
         \/ \E d \in Id : TombstoneDescendant(t, d)
  PROVE  TypeInv'
<1>1. pc[t] # "idle" /\ req[t] \in Request /\ req[t].id \in Id
      /\ (req[t].op = "PUT" => req[t].fields = Field) /\ t \in Tx
  BY DEF TypeInv, PhaseOK, UpsertPresent, GatherView, GatherOverlay, TombstoneTarget,
         TombstoneDescendant, Request, Tx
<1>2. ASSUME NEW label \in ClientPC \ {"upsert"}, pc' = [pc EXCEPT ![t] = label],
             StoreTypeOK', UNCHANGED <<wlock, req, cur, requests>>, sweep' \in [Client -> SUBSET Id]
      PROVE  TypeInv'
  <2>1. WriteTypeOK'
    BY <1>2 DEF TypeInv, TypeOK, WriteTypeOK
  <2> QED
    BY <1>1, <1>2, <2>1, StayWriteType
<1>3. sweep \in [Client -> SUBSET Id] /\ StoreTypeOK
  BY DEF TypeInv, TypeOK, WriteTypeOK
<1>4. CASE UpsertPresent(t)
  <2>1. StoreTypeOK'
    BY <1>1, <1>3, <1>4, WrittenBodyType, PresentRowType, WriteRowType DEF UpsertPresent
  <2> QED
    BY <1>2, <1>3, <1>4, <2>1 DEF UpsertPresent, writeVars, ClientPC
<1>5. CASE GatherView(t) \/ GatherOverlay(t)
  <2>1. StoreTypeOK'
    BY <1>3, <1>5, SameRowsType DEF GatherView, GatherOverlay
  <2>2. Below[req[t].id] \subseteq Id
    BY <1>1, StoreAssumption
  <2> QED
    BY <1>2, <1>3, <1>5, <2>1, <2>2 DEF GatherView, GatherOverlay, ClientPC
<1>6. CASE TombstoneTarget(t)
  <2>1. StoreTypeOK'
    BY <1>1, <1>3, <1>6, TombstoneType, WriteRowType DEF TombstoneTarget
  <2>2. pc' = [pc EXCEPT ![t] = "commit"] \/ pc' = [pc EXCEPT ![t] = "cascade"]
    BY <1>6 DEF TombstoneTarget
  <2> QED
    BY <1>2, <1>3, <1>6, <2>1, <2>2 DEF TombstoneTarget, writeVars, ClientPC
<1>7. ASSUME NEW d \in Id, TombstoneDescendant(t, d)
      PROVE  TypeInv'
  <2>1. StoreTypeOK'
    BY <1>1, <1>3, <1>7, TombstoneType, WriteRowType DEF TombstoneDescendant
  <2>2. pc' = [pc EXCEPT ![t] = "commit"] \/ pc' = [pc EXCEPT ![t] = "cascade"]
    BY <1>7 DEF TombstoneDescendant
  <2> QED
    BY <1>2, <1>3, <1>7, <2>1, <2>2 DEF TombstoneDescendant, ClientPC
<1> QED
  BY <1>4, <1>5, <1>6, <1>7

(* Every step of a request keeps the types. *)
LEMMA ClientType ==
  ASSUME TypeInv, NEW t \in Client, ClientNext(t), Track
  PROVE  TypeInv'
<1>1. CASE CommitWrite(t) \/ AbortWrite(t)
  <2>1. StoreTypeOK'
    BY <1>1, CommitRowsType, RollbackRowsType DEF CommitWrite, AbortWrite, TypeInv, TypeOK, Tx
  <2> QED
    BY <1>1, <2>1, LeaveWriteType DEF CommitWrite, AbortWrite, ClientNext
<1> QED
  BY <1>1, SubmitType, TakeWriteLockType, ReadStepType, WriteStepType DEF ClientNext, WriteStep

-----------------------------------------------------------------------------
(* The drift commands. *)

(* The end of a drift command keeps the types. *)
LEMMA LeaveDriftType ==
  ASSUME TypeInv, NEW t \in Drifter, StoreTypeOK', ledger' \in Seq(Batch),
         LeaveDrift(t), UNCHANGED writeVars, Track
  PROVE  TypeInv'
<1> USE DEF TypeInv, TypeOK
<1>1. NoPlan \in Plan
  BY StoreAssumption DEF NoPlan, Plan, Served, Unserved
<1>2. pc' \in [Tx -> ClientPC \cup DrifterPC] /\ (\A u \in Client : pc'[u] \in ClientPC)
      /\ \A u \in Drifter : pc'[u] \in DrifterPC
  BY StoreAssumption DEF LeaveDrift, DrifterPC, Tx
<1>3. lastRev' \in [Id -> Nat]
  BY DEF Track, StoreTypeOK, Row
<1>4. plan' \in [Drifter -> Plan] /\ left' \in [Drifter -> SUBSET (Kind \X Id)]
      /\ dlock' \in Drifter \cup {NoTx} /\ ops' \in Nat
  BY <1>1 DEF LeaveDrift
<1>5. \A u \in Client : pc'[u] = pc[u] /\ req'[u] = req[u] /\ cur'[u] = cur[u]
  BY StoreAssumption DEF LeaveDrift, writeVars, Tx
<1>6. \A u \in Drifter : \/ plan'[u] = plan[u] /\ left'[u] = left[u] /\ pc'[u] = pc[u]
                         \/ plan'[u].recs = {} /\ left'[u] = {}
  BY DEF LeaveDrift, NoPlan, Tx
<1>7. PhaseOK'
  BY <1>5, <1>6 DEF PhaseOK
<1> QED
  BY <1>2, <1>3, <1>4, <1>7 DEF writeVars, WriteTypeOK

(* A drift command that moves on keeps the types. *)
LEMMA StayDriftType ==
  ASSUME TypeInv, NEW t \in Drifter, NEW label \in DrifterPC,
         pc' = [pc EXCEPT ![t] = label],
         StoreTypeOK', UNCHANGED writeVars, Track,
         dlock' \in Drifter \cup {NoTx}, ledger' = ledger, ops' \in Nat,
         plan' \in [Drifter -> Plan], left' \in [Drifter -> SUBSET (Kind \X Id)],
         \A u \in Drifter \ {t} : plan'[u] = plan[u] /\ left'[u] = left[u],
         \A r \in plan'[t].recs : r.kind = "field" => plan'[t].parent[r.id] \in Body,
         \A i \in Id : <<"field", i>> \in left'[t] =>
            label = "apply_write" /\ plan'[t].parent[i] \in Body
  PROVE  TypeInv'
<1> USE DEF TypeInv, TypeOK
<1>1. pc' \in [Tx -> ClientPC \cup DrifterPC] /\ (\A u \in Client : pc'[u] \in ClientPC)
      /\ (\A u \in Drifter : pc'[u] \in DrifterPC) /\ pc'[t] = label
      /\ \A u \in Drifter \ {t} : pc'[u] = pc[u]
  BY StoreAssumption DEF Tx
<1>2. lastRev' \in [Id -> Nat]
  BY DEF Track, StoreTypeOK, Row
<1>3. \A u \in Client : pc'[u] = pc[u] /\ req'[u] = req[u] /\ cur'[u] = cur[u]
  BY StoreAssumption DEF writeVars, Tx
<1>4. PhaseOK'
  <2>1. \A u \in Client : pc'[u] # "idle" =>
          req'[u] \in Request /\ (req'[u].op = "PUT" => req'[u].fields = Field)
    BY <1>3 DEF PhaseOK
  <2>2. \A u \in Client : pc'[u] = "upsert" => req'[u].fields = Field \/ cur'[u].body \in Body
    BY <1>3 DEF PhaseOK
  <2>3. \A u \in Drifter : \A r \in plan'[u].recs : r.kind = "field" => plan'[u].parent[r.id] \in Body
    BY DEF PhaseOK
  <2>4. \A u \in Drifter, i \in Id : <<"field", i>> \in left'[u] =>
          pc'[u] = "apply_write" /\ plan'[u].parent[i] \in Body
    BY <1>1 DEF PhaseOK
  <2> QED
    BY ONLY <2>1, <2>2, <2>3, <2>4 DEF PhaseOK
<1> QED
  BY <1>1, <1>2, <1>4 DEF writeVars, WriteTypeOK

(* What the current plan and the writes left already satisfy. *)
LEMMA PlanPhase ==
  ASSUME TypeInv, NEW t \in Drifter
  PROVE  /\ t \in Tx /\ StoreTypeOK
         /\ dlock \in Drifter \cup {NoTx} /\ ops \in Nat /\ ledger \in Seq(Batch)
         /\ plan \in [Drifter -> Plan] /\ left \in [Drifter -> SUBSET (Kind \X Id)]
         /\ \A r \in plan[t].recs : r.kind = "field" => plan[t].parent[r.id] \in Body
         /\ \A i \in Id : <<"field", i>> \in left[t] =>
               pc[t] = "apply_write" /\ plan[t].parent[i] \in Body
  BY DEF TypeInv, TypeOK, PhaseOK, Tx

(* The start of a drift command keeps the types. *)
LEMMA StartDriftType ==
  ASSUME TypeInv, NEW t \in Drifter, DriftArrives(t), UNCHANGED writeVars, Track
  PROVE  TypeInv'
<1>1. PICK first \in {"apply_read", "revert_read", "reset_scan"} : StartDrift(t, first)
  BY DEF DriftArrives
<1>2. StoreTypeOK'
  BY <1>1, PlanPhase, SameRowsType DEF StartDrift
<1>3. dlock' \in Drifter \cup {NoTx} /\ ops' \in Nat /\ UNCHANGED <<ledger, plan, left>>
      /\ pc' = [pc EXCEPT ![t] = first] /\ pc[t] = "idle"
  BY <1>1, PlanPhase DEF StartDrift
<1>4. first \in DrifterPC
  BY DEF DrifterPC
<1> QED
  BY <1>2, <1>3, <1>4, PlanPhase, StayDriftType

(* The scoped read and its deltas keep the types. *)
LEMMA ApplyReadType ==
  ASSUME TypeInv, NEW t \in Drifter, UNCHANGED writeVars, Track,
         NEW S \in Scopes, NEW D \in SUBSET FieldDeltas, NEW G \in SUBSET Id,
         ApplyRead(t, S, D, {Marker("gone", i) : i \in G})
  PROVE  TypeInv'
<1> DEFINE gone == {Marker("gone", i) : i \in G}
           parent == ResolvedIn(committed, S)
<1>1. parent \in Served
  BY PlanPhase, ResolvedInType DEF StoreTypeOK
<1>2. D \cup gone \in SUBSET Rec
  BY MarkerType DEF FieldDeltas
<1>3. \A r \in D \cup gone : r.kind = "field" => parent[r.id] \in Body
  <2>1. \A r \in gone : r.kind = "gone"
    BY MarkerType
  <2>2. \A r \in D : r.id \in Id /\ parent[r.id] # NoBody
    BY DEF ApplyRead, FieldDeltas, Rec
  <2> QED
    BY <1>1, <2>1, <2>2 DEF Served
<1>4. plan' = [plan EXCEPT ![t].scope = S, ![t].parent = parent, ![t].recs = D \cup gone]
      /\ pc' = [pc EXCEPT ![t] = "apply_mint"] /\ pc[t] = "apply_read"
      /\ UNCHANGED <<storeVars, dlock, ledger, left, ops>>
  BY DEF ApplyRead
<1>5. S \in SUBSET Id
  BY DriftAssumption
<1> HIDE DEF parent, gone
<1>6. plan' \in [Drifter -> Plan] /\ plan'[t].parent = parent /\ plan'[t].recs = D \cup gone
  <2> DEFINE new == [plan[t] EXCEPT !.scope = S, !.parent = parent, !.recs = D \cup gone]
  <2>1. plan \in [Drifter -> Plan] /\ plan[t] \in Plan
    BY PlanPhase
  <2>2. new \in Plan /\ new.parent = parent /\ new.recs = D \cup gone
    BY <1>1, <1>2, <1>5, <2>1 DEF Plan
  <2>3. plan' = [plan EXCEPT ![t] = new]
    BY <1>4
  <2> QED
    BY <2>1, <2>2, <2>3
<1>7. \A u \in Drifter \ {t} : plan'[u] = plan[u] /\ left'[u] = left[u]
  BY <1>4, PlanPhase
<1>8. StoreTypeOK'
  BY <1>4, PlanPhase, SameRowsType
<1> QED
  BY <1>3, <1>4, <1>6, <1>7, <1>8, PlanPhase, StayDriftType DEF DrifterPC

(* Minting leaves keeps the types. *)
LEMMA ApplyMintType ==
  ASSUME TypeInv, NEW t \in Drifter, UNCHANGED writeVars, Track,
         NEW M \in SUBSET Mintable, ApplyMint(t, {Marker("mint", i) : i \in M})
  PROVE  TypeInv'
<1> DEFINE mints == {Marker("mint", i) : i \in M}
<1>1. mints \in SUBSET Rec /\ \A r \in mints : r.kind = "mint"
  BY MarkerType, DriftAssumption
<1>2. Ids("mint", mints) \in SUBSET Id
  BY <1>1 DEF Ids, Rec
<1>3. plan' = [plan EXCEPT ![t].recs = @ \cup mints, ![t].minted = Ids("mint", mints)]
      /\ pc' = [pc EXCEPT ![t] = "apply_owners"] /\ pc[t] = "apply_mint"
      /\ UNCHANGED <<storeVars, dlock, ledger, left, ops>>
  BY DEF ApplyMint
<1> HIDE DEF mints
<1>4. plan' \in [Drifter -> Plan] /\ plan'[t].parent = plan[t].parent
      /\ plan'[t].recs = plan[t].recs \cup mints
      /\ \A u \in Drifter \ {t} : plan'[u] = plan[u] /\ left'[u] = left[u]
  <2> DEFINE new == [plan[t] EXCEPT !.recs = @ \cup mints, !.minted = Ids("mint", mints)]
  <2>1. plan \in [Drifter -> Plan] /\ plan[t] \in Plan
    BY PlanPhase
  <2>2. new \in Plan /\ new.parent = plan[t].parent /\ new.recs = plan[t].recs \cup mints
    BY <1>1, <1>2, <2>1 DEF Plan
  <2>3. plan' = [plan EXCEPT ![t] = new]
    BY <1>3
  <2> QED
    BY <1>3, <2>1, <2>2, <2>3
<1>5. StoreTypeOK'
  BY <1>3, PlanPhase, SameRowsType
<1>6. "apply_owners" \in DrifterPC
  BY DEF DrifterPC
<1>7. \A r \in plan'[t].recs : r.kind = "field" => plan'[t].parent[r.id] \in Body
  BY <1>1, <1>4, PlanPhase
<1> QED
  BY <1>3, <1>4, <1>5, <1>6, <1>7, PlanPhase, StayDriftType

(* Dropping the deltas of user-owned ids keeps the types. *)
LEMMA ApplyOwnersType ==
  ASSUME TypeInv, NEW t \in Drifter, UNCHANGED writeVars, Track, ApplyOwners(t)
  PROVE  TypeInv'
<1> DEFINE affected == {r.id : r \in plan[t].recs}
           owned == {i \in affected : committed[i].source = "user"}
           kept == {r \in plan[t].recs : r.id \notin owned}
           lf == {<<r.kind, r.id>> : r \in kept}
<1>1. plan' = [plan EXCEPT ![t].recs = kept] /\ left' = [left EXCEPT ![t] = lf]
      /\ pc' = [pc EXCEPT ![t] = "apply_write"]
      /\ UNCHANGED <<storeVars, dlock, ledger, ops>>
  BY DEF ApplyOwners
<1>2. kept \subseteq plan[t].recs /\ kept \in SUBSET Rec
  BY PlanPhase DEF Plan
<1>3. lf \in SUBSET (Kind \X Id)
  BY <1>2 DEF Kind, Rec
<1>4. \A i \in Id : <<"field", i>> \in lf => plan[t].parent[i] \in Body
  BY <1>2, PlanPhase
<1> HIDE DEF kept, lf
<1>5. plan' \in [Drifter -> Plan] /\ plan'[t].parent = plan[t].parent /\ plan'[t].recs = kept
      /\ \A u \in Drifter \ {t} : plan'[u] = plan[u]
  BY <1>1, <1>2, PlanPhase DEF Plan
<1>6. left' \in [Drifter -> SUBSET (Kind \X Id)] /\ left'[t] = lf
      /\ \A u \in Drifter \ {t} : left'[u] = left[u]
  BY <1>1, <1>3, PlanPhase
<1>7. StoreTypeOK' /\ "apply_write" \in DrifterPC
  BY <1>1, PlanPhase, SameRowsType DEF DrifterPC
<1>8. \A r \in plan'[t].recs : r.kind = "field" => plan'[t].parent[r.id] \in Body
  BY <1>2, <1>5, PlanPhase
<1> QED
  BY <1>1, <1>4, <1>5, <1>6, <1>7, <1>8, PlanPhase, StayDriftType

(* The ownership-guarded upsert keeps the store well typed. *)
LEMMA DriftUpsertType ==
  ASSUME StoreTypeOK, NEW t \in Drifter, NEW i \in Id, NEW row \in Row, WellFormed(row),
         row.source = "drift", DriftUpsert(t, i, row)
  PROVE  StoreTypeOK'
  BY LockRowType, WriteRowType DEF DriftUpsert, Tx

(* A row write takes one item off the list and changes nothing else here. *)
LEMMA ConsumeType ==
  ASSUME TypeInv, NEW t \in Drifter, UNCHANGED writeVars, Track, StoreTypeOK', NEW w,
         left' = [left EXCEPT ![t] = @ \ {w}], UNCHANGED <<pc, dlock, ledger, plan, ops>>
  PROVE  TypeInv'
<1>1. pc[t] \in DrifterPC /\ pc' = [pc EXCEPT ![t] = pc[t]]
  BY DEF TypeInv, TypeOK, Tx
<1>2. left' \in [Drifter -> SUBSET (Kind \X Id)] /\ left'[t] \subseteq left[t]
      /\ \A u \in Drifter \ {t} : left'[u] = left[u]
  BY PlanPhase
<1>3. plan' = plan /\ dlock' = dlock /\ ledger' = ledger /\ ops' = ops
  OBVIOUS
<1>4. \A r \in plan'[t].recs : r.kind = "field" => plan'[t].parent[r.id] \in Body
  BY <1>3, PlanPhase
<1>5. \A i \in Id : <<"field", i>> \in left'[t] =>
         pc[t] = "apply_write" /\ plan'[t].parent[i] \in Body
  BY <1>2, <1>3, PlanPhase
<1>6. dlock' \in Drifter \cup {NoTx} /\ ops' \in Nat /\ plan' \in [Drifter -> Plan]
      /\ \A u \in Drifter \ {t} : plan'[u] = plan[u] /\ left'[u] = left[u]
  BY <1>2, <1>3, PlanPhase
<1> QED
  BY <1>1, <1>2, <1>3, <1>4, <1>5, <1>6, StayDriftType

(* An upsert of apply keeps the types. *)
LEMMA ApplyUpsertType ==
  ASSUME TypeInv, NEW t \in Drifter, UNCHANGED writeVars, Track,
         NEW kind \in Kind, NEW i \in Id, ApplyUpsert(t, kind, i)
  PROVE  TypeInv'
<1> DEFINE row == CASE kind = "field" -> PresentRow("drift", Drifted(plan[t].parent[i], i, plan[t].recs))
                    [] kind = "gone"  -> Tombstone("drift")
                    [] OTHER          -> PresentRow("drift", MintBody)
<1>1. row \in Row /\ WellFormed(row) /\ row.source = "drift"
  <2>1. CASE kind = "field"
    <3>1. plan[t].parent[i] \in Body /\ plan[t].recs \in SUBSET Rec
      BY <2>1, PlanPhase DEF ApplyUpsert, Plan
    <3> QED
      BY <2>1, <3>1, DriftedType, PresentRowType
  <2>2. CASE kind = "gone"
    BY <2>2, TombstoneType
  <2>3. CASE kind # "field" /\ kind # "gone"
    BY <2>3, PresentRowType, DriftAssumption
  <2> QED
    BY <2>1, <2>2, <2>3
<1>2. DriftUpsert(t, i, row)
  BY DEF ApplyUpsert
<1> HIDE DEF row
<1>3. StoreTypeOK'
  BY <1>1, <1>2, DriftUpsertType, PlanPhase
<1> QED
  BY <1>3, ConsumeType DEF ApplyUpsert

(* The re-read, agreeing or not, keeps the types. *)
LEMMA ApplyVerifyType ==
  ASSUME TypeInv, NEW t \in Drifter, UNCHANGED writeVars, Track, ApplyVerify(t)
  PROVE  TypeInv'
<1> DEFINE persisted == ResolvedIn(View(t), plan[t].scope)
<1>1. CASE RollbackRows(t) /\ LeaveDrift(t) /\ UNCHANGED ledger
  BY <1>1, RollbackRowsType, LeaveDriftType, PlanPhase
<1>2. CASE /\ plan' = [plan EXCEPT ![t].result = persisted]
           /\ pc' = [pc EXCEPT ![t] = "apply_commit"]
           /\ UNCHANGED <<storeVars, dlock, ledger, left, ops>>
  <2>1. persisted \in Served
    BY PlanPhase, ViewType, ResolvedInType
  <2> HIDE DEF persisted
  <2>2. plan' \in [Drifter -> Plan] /\ plan'[t].parent = plan[t].parent
        /\ plan'[t].recs = plan[t].recs
        /\ \A u \in Drifter \ {t} : plan'[u] = plan[u] /\ left'[u] = left[u]
    BY <1>2, <2>1, PlanPhase DEF Plan
  <2>3. StoreTypeOK' /\ "apply_commit" \in DrifterPC
    BY <1>2, PlanPhase, SameRowsType DEF DrifterPC
  <2>4. left'[t] = {}
    BY <1>2 DEF ApplyVerify
  <2> QED
    BY <1>2, <2>2, <2>3, <2>4, PlanPhase, StayDriftType
<1> QED
  BY <1>1, <1>2 DEF ApplyVerify

(* The commit of an apply, ledger append included, keeps the types. *)
LEMMA ApplyCommitType ==
  ASSUME TypeInv, NEW t \in Drifter, UNCHANGED writeVars, Track, ApplyCommit(t)
  PROVE  TypeInv'
<1> DEFINE b == [recs |-> plan[t].recs, parent |-> plan[t].parent,
                 result |-> plan[t].result, reverted |-> FALSE]
<1>1. b \in Batch
  BY PlanPhase DEF Plan, Batch
<1>2. ledger' = Append(ledger, b)
  BY DEF ApplyCommit
<1> HIDE DEF b
<1>3. ledger' \in Seq(Batch)
  BY <1>1, <1>2, PlanPhase
<1> QED
  BY <1>3, CommitRowsType, LeaveDriftType, PlanPhase DEF ApplyCommit

(* A new list of row writes that holds no field snapshot. *)
LEMMA RefillType ==
  ASSUME TypeInv, NEW t \in Drifter, UNCHANGED <<writeVars, storeVars, dlock, ledger, ops>>, Track,
         NEW label \in DrifterPC, pc' = [pc EXCEPT ![t] = label],
         NEW k \in {"replay", "clear"}, NEW S \in SUBSET Id,
         left' = [left EXCEPT ![t] = {<<k, i>> : i \in S}],
         NEW target \in Nat, plan' = plan \/ plan' = [plan EXCEPT ![t].target = target]
  PROVE  TypeInv'
<1>1. left' \in [Drifter -> SUBSET (Kind \X Id)] /\ left'[t] = {<<k, i>> : i \in S}
      /\ \A u \in Drifter \ {t} : left'[u] = left[u]
  <2>1. {<<k, i>> : i \in S} \in SUBSET (Kind \X Id)
    BY DEF Kind
  <2> QED
    BY <2>1, PlanPhase
<1>2. plan' \in [Drifter -> Plan] /\ plan'[t].parent = plan[t].parent
      /\ plan'[t].recs = plan[t].recs /\ \A u \in Drifter \ {t} : plan'[u] = plan[u]
  <2>1. plan \in [Drifter -> Plan]
    BY PlanPhase
  <2>2. CASE plan' = plan
    BY <2>1, <2>2
  <2>3. CASE plan' = [plan EXCEPT ![t].target = target]
    <3>1. [plan[t] EXCEPT !.target = target] \in Plan
      BY <2>1 DEF Plan
    <3>2. plan' = [plan EXCEPT ![t] = [plan[t] EXCEPT !.target = target]]
      BY <2>3
    <3>3. /\ [plan[t] EXCEPT !.target = target].parent = plan[t].parent
          /\ [plan[t] EXCEPT !.target = target].recs = plan[t].recs
      BY <2>1 DEF Plan
    <3> QED
      BY <2>1, <3>1, <3>2, <3>3
  <2> QED
    BY <2>2, <2>3
<1>3. StoreTypeOK'
  BY PlanPhase, SameRowsType
<1>4. \A r \in plan'[t].recs : r.kind = "field" => plan'[t].parent[r.id] \in Body
  BY <1>2, PlanPhase
<1>5. \A i \in Id : <<"field", i>> \notin left'[t]
  BY <1>1
<1>6. dlock' \in Drifter \cup {NoTx} /\ ledger' = ledger /\ ops' \in Nat
  BY PlanPhase
<1> QED
  BY <1>1, <1>2, <1>3, <1>4, <1>5, <1>6, StayDriftType

(* Choosing the batch to revert keeps the types. *)
LEMMA RevertReadType ==
  ASSUME TypeInv, NEW t \in Drifter, UNCHANGED writeVars, Track,
         NEW k \in DOMAIN ledger, RevertRead(t, k)
  PROVE  TypeInv'
<1>1. ledger[k] \in Batch /\ k \in Nat
  BY PlanPhase
<1> DEFINE S == {r.id : r \in ledger[k].recs}
<1>2. S \in SUBSET Id
  BY <1>1 DEF Batch, Rec
<1>3. {<<"replay", r.id>> : r \in ledger[k].recs} = {<<"replay", i>> : i \in S}
  OBVIOUS
<1> HIDE DEF S
<1> QED
  BY <1>1, <1>2, <1>3, RefillType DEF RevertRead, DrifterPC

(* A row rewritten or deleted by a revert keeps the types. *)
LEMMA RevertRowType ==
  ASSUME TypeInv, NEW t \in Drifter, UNCHANGED writeVars, Track, NEW i \in Id, RevertRow(t, i)
  PROVE  TypeInv'
<1> DEFINE st == Replay(i, Active \ {plan[t].target})
           row == IF st.present = "hidden" THEN Tombstone("drift") ELSE PresentRow("drift", st.body)
<1>1. CASE DeleteDriftRow(t, i)
  BY <1>1, EraseRowType, SameRowsType, PlanPhase, ConsumeType DEF DeleteDriftRow, RevertRow
<1>2. CASE (st.present = "hidden" \/ st.body \in Body) /\ DriftUpsert(t, i, row)
  <2>1. row \in Row /\ WellFormed(row) /\ row.source = "drift"
    BY <1>2, PresentRowType, TombstoneType
  <2> HIDE DEF row
  <2>2. StoreTypeOK'
    BY <1>2, <2>1, DriftUpsertType, PlanPhase
  <2> QED
    BY <2>2, ConsumeType DEF RevertRow
<1> QED
  BY <1>1, <1>2 DEF RevertRow

(* The commit of a revert keeps the types. *)
LEMMA RevertCommitType ==
  ASSUME TypeInv, NEW t \in Drifter, UNCHANGED writeVars, Track, RevertCommit(t)
  PROVE  TypeInv'
<1> DEFINE k == plan[t].target
           b == [ledger[k] EXCEPT !.reverted = TRUE]
<1>1. ledger' = [ledger EXCEPT ![k] = b] /\ ledger \in Seq(Batch)
      /\ ledger \in [1 .. Len(ledger) -> Batch]
  BY PlanPhase, LenProperties DEF RevertCommit
<1>2. ASSUME k \in 1 .. Len(ledger)
      PROVE  ledger' \in Seq(Batch)
  <2>1. b \in Batch
    <3>1. ledger[k] \in Batch
      BY <1>1, <1>2
    <3> HIDE DEF k
    <3> QED
      BY <3>1 DEF Batch
  <2> HIDE DEF k, b
  <2> QED
    BY <1>1, <1>2, <2>1, ExceptSeq
<1>3. ASSUME k \notin 1 .. Len(ledger)
      PROVE  ledger' \in Seq(Batch)
  <2> HIDE DEF k, b
  <2>1. ledger' = ledger
    BY <1>1, <1>3
  <2> QED
    BY <1>1, <2>1
<1>4. ledger' \in Seq(Batch)
  BY <1>2, <1>3
<1> QED
  BY <1>4, CommitRowsType, LeaveDriftType, PlanPhase DEF RevertCommit

(* A reset keeps the types. *)
LEMMA ResetStepType ==
  ASSUME TypeInv, NEW t \in Drifter, UNCHANGED writeVars, Track, ResetStep(t)
  PROVE  TypeInv'
<1>1. CASE ResetScan(t)
  <2>1. left' = [left EXCEPT ![t] = {<<"clear", i>> : i \in {j \in Id : committed[j].source # "none"}}]
        /\ pc' = [pc EXCEPT ![t] = "reset_write"]
        /\ UNCHANGED <<storeVars, dlock, ledger, plan, ops>>
    BY <1>1 DEF ResetScan
  <2>2. {j \in Id : committed[j].source # "none"} \in SUBSET Id /\ "reset_write" \in DrifterPC
        /\ 0 \in Nat
    BY DEF DrifterPC
  <2> QED
    BY <2>1, <2>2, RefillType
<1>2. ASSUME NEW i \in Id, ResetRow(t, i)
      PROVE  TypeInv'
  BY <1>2, EraseRowType, PlanPhase, ConsumeType DEF ResetRow
<1>3. CASE ResetCommit(t)
  <2>1. ledger' \in Seq(Batch)
    BY <1>3 DEF ResetCommit
  <2> QED
    BY <1>3, <2>1, CommitRowsType, LeaveDriftType, PlanPhase DEF ResetCommit
<1> QED
  BY <1>1, <1>2, <1>3 DEF ResetStep

(* An aborted drift command keeps the types. *)
LEMMA AbortDriftType ==
  ASSUME TypeInv, NEW t \in Drifter, RollbackRows(t), LeaveDrift(t), UNCHANGED ledger,
         UNCHANGED writeVars, Track
  PROVE  TypeInv'
  BY RollbackRowsType, LeaveDriftType, PlanPhase

(* Every step of a drift command keeps the types. *)
LEMMA DrifterType ==
  ASSUME TypeInv, NEW t \in Drifter, DrifterNext(t), Track
  PROVE  TypeInv'
<1>1. CASE ApplyStep(t)
  BY <1>1, ApplyReadType, ApplyMintType, ApplyOwnersType, ApplyUpsertType, ApplyVerifyType,
     ApplyCommitType DEF ApplyStep, DrifterNext
<1>2. CASE RevertStep(t)
  BY <1>2, RevertReadType, RevertRowType, RevertCommitType, AbortDriftType
  DEF RevertStep, RevertRefuse, DrifterNext
<1>3. CASE AbortDrift(t)
  BY <1>3, AbortDriftType DEF AbortDrift, DrifterNext
<1> QED
  BY <1>1, <1>2, <1>3, StartDriftType, ResetStepType DEF DrifterNext, DriftStep

-----------------------------------------------------------------------------
(* The types hold initially. *)
LEMMA InitType == Init => TypeInv
<1> SUFFICES ASSUME Init PROVE TypeInv
  OBVIOUS
<1>1. StoreTypeOK
  BY NoRowType DEF Init, StoreInit, StoreTypeOK
<1>2. WriteTypeOK
  BY StoreAssumption DEF Init, WriteInit, WriteTypeOK, Current, NoCurrent
<1>3. NoPlan \in Plan
  BY StoreAssumption DEF NoPlan, Plan, Served, Unserved
<1>4. TypeOK
  BY <1>1, <1>2, <1>3 DEF Init, TypeOK, ClientPC, DrifterPC, Tx
<1>5. PhaseOK
  BY DEF Init, PhaseOK, Tx, NoPlan
<1> QED
  BY <1>4, <1>5 DEF TypeInv

(* Stuttering keeps the types. *)
LEMMA StutterType == TypeInv /\ UNCHANGED vars => TypeInv'
<1> SUFFICES ASSUME TypeInv, UNCHANGED vars PROVE TypeInv'
  OBVIOUS
<1>1. StoreTypeOK' /\ WriteTypeOK'
  BY SameRowsType DEF TypeInv, TypeOK, WriteTypeOK, vars, writeVars
<1> QED
  BY <1>1 DEF TypeInv, TypeOK, PhaseOK, vars, writeVars, driftVars

(* Every step keeps the types. *)
LEMMA NextType == TypeInv /\ [Next]_vars => TypeInv'
<1> SUFFICES ASSUME TypeInv, [Next]_vars PROVE TypeInv'
  OBVIOUS
<1>1. CASE UNCHANGED vars
  BY <1>1, StutterType
<1>2. ASSUME NEW t \in Client, ClientNext(t), Track
      PROVE  TypeInv'
  BY <1>2, ClientType
<1>3. ASSUME NEW t \in Drifter, DrifterNext(t), Track
      PROVE  TypeInv'
  BY <1>3, DrifterType
<1>4. CASE DetectDeadlock /\ Track
  BY <1>2, <1>3, <1>4 DEF DetectDeadlock, ClientNext, DrifterNext
<1> QED
  BY <1>1, <1>2, <1>3, <1>4 DEF Next

(* Every variable stays in its type, for any estate, any number of requests *)
(* and drift processes: rows keep the body CHECKs of sql/009 (a body         *)
(* exactly when present), which PUT, PATCH, the cascade, apply and revert    *)
(* each have to respect.                                                     *)
THEOREM TypeCorrect == Spec => []TypeOK
<1>1. TypeInv => TypeOK
  BY DEF TypeInv
<1> QED
  BY <1>1, InitType, NextType, PTL DEF Spec

-----------------------------------------------------------------------------
(* The inductive invariant behind the safety theorems.                      *)

ClientRowPC == {"cascade", "commit"}
DrifterRowPC == {"apply_write", "apply_commit", "revert_write", "reset_write"}

(* Locks: a request past the queue holds the write-plane lock; a row lock    *)
(* belongs to a transaction in its writing phase; a request's uncommitted    *)
(* rows are user-owned; drift keeps a user-owned row as committed, except    *)
(* that a reset erases it.                                                   *)
LockOK ==
    /\ \A t \in Client : pc[t] \notin {"idle", "queued"} => wlock = t
    /\ \A i \in Id : owner[i] \in Client =>
          pc[owner[i]] \in ClientRowPC /\ pending[i].source = "user"
    /\ \A i \in Id : owner[i] \in Drifter =>
          /\ pc[owner[i]] \in DrifterRowPC
          /\ pending[i].source = "user" => pending[i] = committed[i]
          /\ committed[i].source = "user" /\ pc[owner[i]] # "reset_write" =>
                pending[i] = committed[i]

(* Reads: what a request remembers of a user-owned target is what is there. *)
Remembers(t, row) ==
    IF row.present THEN cur[t].kind = "overlay" /\ cur[t].revision = row.revision
    ELSE cur[t].kind = "tombstoned"

Fresh(t) ==
    pc[t] # "idle" /\ committed[req[t].id].source = "user" =>
        /\ pc[t] \in {"read_view", "read_tombstone"} => ~committed[req[t].id].present
        /\ pc[t] \in {"upsert", "gather_view", "gather_overlay", "tombstone",
                      "cascade", "commit"} => Remembers(t, committed[req[t].id])

ReadsOK == \A t \in Client : Fresh(t)

(* Revisions: the sequence is ahead of every revision a row has carried, and *)
(* an uncommitted rewrite is ahead of its own row's.                         *)
RevOK ==
    /\ \A i \in Id : lastRev[i] <= seq
    /\ \A i \in Id : committed[i].source # "none" => lastRev[i] = committed[i].revision
    /\ \A i \in Id : owner[i] # NoTx /\ pending[i].source # "none" =>
          /\ pending[i].revision <= seq
          /\ pending[i] # committed[i] => pending[i].revision > lastRev[i]

(* Sweeps: from the first gather on, a live user-owned descendant as the     *)
(* request sees it is still to be swept.                                     *)
SweepPC == {"gather_view", "gather_overlay", "tombstone", "cascade"}
Swept(t) ==
    /\ pc[t] \in SweepPC => req[t].op = "DELETE"
    /\ pc[t] = "upsert" => req[t].op # "DELETE"
    /\ pc[t] = "commit" /\ req[t].op = "DELETE" => sweep[t] = {}
    /\ pc[t] \in (SweepPC \cup {"commit"}) \ {"gather_view"} /\ req[t].op = "DELETE" =>
          \A d \in Below[req[t].id] :
              View(t)[d].source = "user" /\ View(t)[d].present => d \in sweep[t]

SweepOK == \A t \in Client : Swept(t)

IInv == TypeInv /\ LockOK /\ ReadsOK /\ RevOK /\ SweepOK

-----------------------------------------------------------------------------
(* What a drift step does to the store, whichever command it belongs to.    *)

DriftWrites(u, i) ==
    \/ View(u)[i].source = "user" /\ LockRow(u, i)
    \/ /\ View(u)[i].source # "user"
       /\ \E row \in Row : row.source = "drift" /\ WriteRow(u, i, row)
    \/ EraseRow(u, i) /\ (View(u)[i].source = "drift" \/ pc[u] = "reset_write")

DriftMove(u) ==
    \/ /\ UNCHANGED storeVars
       /\ \/ pc'[u] = pc[u]
          \/ pc[u] \notin DrifterRowPC
          \/ pc[u] = "apply_write" /\ pc'[u] = "apply_commit"
    \/ pc[u] \in DrifterRowPC /\ pc' = pc /\ \E i \in Id : DriftWrites(u, i)
    \/ CommitRows(u) /\ pc'[u] = "idle"
    \/ RollbackRows(u) /\ pc'[u] = "idle"

(* Each step of an apply is one of the moves above. *)
LEMMA ApplyMoves ==
  ASSUME TypeInv, NEW u \in Drifter, ApplyStep(u)
  PROVE  DriftMove(u)
<1>0. u \in Tx /\ pc \in [Tx -> ClientPC \cup DrifterPC]
  BY PlanPhase DEF TypeInv, TypeOK
<1>1. ASSUME NEW S, NEW D, NEW G, ApplyRead(u, S, D, G)
      PROVE  DriftMove(u)
  BY <1>0, <1>1 DEF ApplyRead, DriftMove, DrifterRowPC
<1>2. ASSUME NEW M, ApplyMint(u, M)
      PROVE  DriftMove(u)
  BY <1>0, <1>2 DEF ApplyMint, DriftMove, DrifterRowPC
<1>3. CASE ApplyOwners(u)
  BY <1>0, <1>3 DEF ApplyOwners, DriftMove, DrifterRowPC
<1>4. ASSUME NEW kind \in Kind, NEW i \in Id, ApplyUpsert(u, kind, i)
      PROVE  DriftMove(u)
  <2> DEFINE row == CASE kind = "field" -> PresentRow("drift", Drifted(plan[u].parent[i], i, plan[u].recs))
                      [] kind = "gone"  -> Tombstone("drift")
                      [] OTHER          -> PresentRow("drift", MintBody)
  <2>1. row \in Row /\ row.source = "drift"
    <3>1. CASE kind = "field"
      <4>1. plan[u].parent[i] \in Body /\ plan[u].recs \in SUBSET Rec
        BY <1>4, <3>1, PlanPhase DEF ApplyUpsert, Plan
      <4> QED
        BY <3>1, <4>1, DriftedType, PresentRowType
    <3>2. CASE kind # "field"
      BY <3>2, TombstoneType, PresentRowType, DriftAssumption
    <3> QED
      BY <3>1, <3>2
  <2>2. DriftUpsert(u, i, row) /\ pc[u] = "apply_write" /\ pc' = pc
    BY <1>4 DEF ApplyUpsert
  <2> HIDE DEF row
  <2> QED
    BY <2>1, <2>2 DEF DriftUpsert, DriftWrites, DriftMove, DrifterRowPC
<1>5. CASE ApplyVerify(u)
  BY <1>0, <1>5 DEF ApplyVerify, DriftMove, LeaveDrift
<1>6. CASE ApplyCommit(u)
  BY <1>0, <1>6 DEF ApplyCommit, DriftMove, LeaveDrift
<1> QED
  BY <1>1, <1>2, <1>3, <1>4, <1>5, <1>6 DEF ApplyStep

(* Each step of a revert is one of the moves above. *)
LEMMA RevertMoves ==
  ASSUME TypeInv, NEW u \in Drifter, RevertStep(u)
  PROVE  DriftMove(u)
<1>0. u \in Tx /\ pc \in [Tx -> ClientPC \cup DrifterPC]
  BY PlanPhase DEF TypeInv, TypeOK
<1>1. CASE RevertRefuse(u)
  BY <1>0, <1>1 DEF RevertRefuse, DriftMove, LeaveDrift
<1>2. ASSUME NEW k, RevertRead(u, k)
      PROVE  DriftMove(u)
  BY <1>0, <1>2 DEF RevertRead, DriftMove, DrifterRowPC
<1>3. ASSUME NEW i \in Id, RevertRow(u, i)
      PROVE  DriftMove(u)
  <2> DEFINE st == Replay(i, Active \ {plan[u].target})
             row == IF st.present = "hidden" THEN Tombstone("drift")
                    ELSE PresentRow("drift", st.body)
  <2>1. pc[u] = "revert_write" /\ pc' = pc
    BY <1>3 DEF RevertRow
  <2>2. CASE DeleteDriftRow(u, i)
    BY <2>1, <2>2 DEF DeleteDriftRow, DriftMove, DriftWrites, DrifterRowPC
  <2>3. CASE (st.present = "hidden" \/ st.body \in Body) /\ DriftUpsert(u, i, row)
    <3>1. row \in Row /\ row.source = "drift"
      BY <2>3, TombstoneType, PresentRowType
    <3> HIDE DEF row
    <3> QED
      BY <2>1, <2>3, <3>1 DEF DriftUpsert, DriftMove, DriftWrites, DrifterRowPC
  <2> QED
    BY <1>3, <2>2, <2>3 DEF RevertRow
<1>4. CASE RevertCommit(u)
  BY <1>0, <1>4 DEF RevertCommit, DriftMove, LeaveDrift
<1> QED
  BY <1>1, <1>2, <1>3, <1>4 DEF RevertStep

(* Each step of any drift command is a move, and only its own. *)
LEMMA DrifterMoves ==
  ASSUME TypeInv, NEW u \in Drifter, DrifterNext(u)
  PROVE  /\ DriftMove(u) /\ UNCHANGED writeVars
         /\ \A v \in Tx \ {u} : pc'[v] = pc[v]
<1>0. u \in Tx /\ pc \in [Tx -> ClientPC \cup DrifterPC]
  BY PlanPhase DEF TypeInv, TypeOK
<1>1. DriftArrives(u) => DriftMove(u)
  BY <1>0 DEF DriftArrives, StartDrift, DriftMove, DrifterRowPC
<1>2. ResetStep(u) => DriftMove(u)
  <2>1. ResetScan(u) => DriftMove(u)
    BY <1>0 DEF ResetScan, DriftMove, DrifterRowPC
  <2>2. ASSUME NEW i \in Id, ResetRow(u, i)
        PROVE  DriftMove(u)
    BY <2>2 DEF ResetRow, DriftMove, DriftWrites, DrifterRowPC
  <2>3. ResetCommit(u) => DriftMove(u)
    BY <1>0 DEF ResetCommit, DriftMove, LeaveDrift
  <2> QED
    BY <2>1, <2>2, <2>3 DEF ResetStep
<1>3. AbortDrift(u) => DriftMove(u)
  BY <1>0 DEF AbortDrift, DriftMove, LeaveDrift
<1>4. DriftMove(u) /\ UNCHANGED writeVars
  BY <1>1, <1>2, <1>3, ApplyMoves, RevertMoves DEF DrifterNext, DriftStep
<1>5. pc' = pc \/ \E label : pc' = [pc EXCEPT ![u] = label]
  BY DEF DrifterNext, DriftArrives, StartDrift, DriftStep, ApplyStep, RevertStep, ResetStep,
         ApplyRead, ApplyMint, ApplyOwners, ApplyUpsert, ApplyVerify, ApplyCommit, RevertRefuse,
         RevertRead, RevertRow, RevertCommit, ResetScan, ResetRow, ResetCommit, AbortDrift,
         LeaveDrift
<1> QED
  BY <1>0, <1>4, <1>5

(* A drift step as the requests see it: it takes no row from them and leaves *)
(* every user-owned committed row as it is, or removes it (a reset).         *)
LEMMA DriftLeavesRequests ==
  ASSUME IInv, NEW u \in Drifter, DriftMove(u)
  PROVE  /\ \A i \in Id : owner[i] \in Client \/ owner'[i] \in Client =>
               owner'[i] = owner[i] /\ pending'[i] = pending[i] /\ committed'[i] = committed[i]
         /\ \A i \in Id : committed'[i].source = "user" => committed'[i] = committed[i]
<1> USE DEF TypeInv, TypeOK, StoreTypeOK
<1>1. u \notin Client /\ NoTx \notin Client /\ u # NoTx
  BY StoreAssumption DEF Tx
<1>2. CASE UNCHANGED storeVars \/ RollbackRows(u)
  BY <1>1, <1>2 DEF IInv, storeVars, RollbackRows, ReleaseRows
<1>3. CASE CommitRows(u)
  BY <1>1, <1>3 DEF IInv, LockOK, CommitRows, ReleaseRows, View
<1>4. CASE \E i \in Id : DriftWrites(u, i)
  BY <1>1, <1>4 DEF IInv, DriftWrites, LockRow, WriteRow, EraseRow, Free
<1> QED
  BY <1>2, <1>3, <1>4 DEF DriftMove

(* A drift step keeps the lock discipline. *)
LEMMA DrifterLocks ==
  ASSUME IInv, NEW u \in Drifter, DriftMove(u), UNCHANGED writeVars,
         \A v \in Tx \ {u} : pc'[v] = pc[v]
  PROVE  LockOK'
<1> USE DEF TypeInv, TypeOK, StoreTypeOK
<1>1. u \notin Client /\ NoTx \notin Client /\ NoTx \notin Drifter /\ u # NoTx /\ u \in Tx
      /\ \A t \in Client : t # u /\ t \in Tx /\ pc'[t] = pc[t]
  BY StoreAssumption DEF Tx
<1>2. \A t \in Client : pc'[t] \notin {"idle", "queued"} => wlock' = t
  BY <1>1 DEF IInv, LockOK, writeVars
<1>3. ASSUME NEW i \in Id, owner'[i] \in Client
      PROVE  pc'[owner'[i]] \in ClientRowPC /\ pending'[i].source = "user"
  BY <1>1, <1>3, DriftLeavesRequests DEF IInv, LockOK
<1>4. ASSUME NEW i \in Id, owner'[i] \in Drifter
      PROVE  /\ pc'[owner'[i]] \in DrifterRowPC
             /\ pending'[i].source = "user" => pending'[i] = committed'[i]
             /\ committed'[i].source = "user" /\ pc'[owner'[i]] # "reset_write" =>
                   pending'[i] = committed'[i]
  <2> DEFINE Kept(o, p, c, l) ==
        l \in DrifterRowPC /\ (p.source = "user" => p = c)
        /\ (c.source = "user" /\ l # "reset_write" => p = c)
  <2>1. owner[i] \in Drifter => Kept(owner[i], pending[i], committed[i], pc[owner[i]])
    BY DEF IInv, LockOK
  <2>2. CASE UNCHANGED storeVars /\ (\/ pc'[u] = pc[u]
                                     \/ pc[u] \notin DrifterRowPC
                                     \/ pc[u] = "apply_write" /\ pc'[u] = "apply_commit")
    BY <1>1, <1>4, <2>1, <2>2 DEF storeVars, Tx, DrifterRowPC
  <2>3. CASE RollbackRows(u) \/ CommitRows(u)
    <3>1. owner'[i] = owner[i] /\ owner[i] # u /\ pending'[i] = pending[i]
          /\ committed'[i] = committed[i]
      BY <1>1, <1>4, <2>3 DEF RollbackRows, CommitRows, ReleaseRows, IInv, View
    <3>2. pc'[owner[i]] = pc[owner[i]]
      BY <1>1, <1>4, <3>1 DEF Tx
    <3> QED
      BY <1>4, <2>1, <3>1, <3>2
  <2>4. ASSUME NEW j \in Id, DriftWrites(u, j), pc[u] \in DrifterRowPC, pc' = pc
        PROVE  Kept(owner'[i], pending'[i], committed'[i], pc'[owner'[i]])
    <3>1. CASE i # j
      <4>1. owner'[i] = owner[i] /\ pending'[i] = pending[i] /\ committed'[i] = committed[i]
        BY <2>4, <3>1 DEF DriftWrites, LockRow, WriteRow, EraseRow, IInv
      <4> QED
        BY <1>4, <2>1, <2>4, <4>1
    <3>2. CASE i = j
      <4>1. owner'[i] = u /\ committed'[i] = committed[i] /\ owner[i] \in {u, NoTx}
        BY <2>4, <3>2 DEF DriftWrites, LockRow, WriteRow, EraseRow, IInv, Free
      <4>2. owner[i] = NoTx => View(u)[i] = committed[i]
        BY <1>1 DEF View
      <4>3. owner[i] = u => View(u)[i] = pending[i]
        BY DEF View
      <4>4. View(u)[i].source # "user" /\ pc[u] # "reset_write" => committed[i].source # "user"
        BY <1>4, <2>1, <4>1, <4>2, <4>3
      <4>5. View(u)[i].source = "user" => View(u)[i] = committed[i]
        BY <1>4, <2>1, <4>1, <4>2, <4>3
      <4>6. CASE View(u)[i].source = "user" /\ LockRow(u, i)
        <5>1. pending'[i] = View(u)[i]
          BY <4>6 DEF LockRow, IInv
        <5> QED
          BY <2>4, <4>1, <4>5, <4>6, <5>1
      <4>7. ASSUME View(u)[i].source # "user", NEW row \in Row, row.source = "drift",
                   WriteRow(u, i, row)
            PROVE  Kept(owner'[i], pending'[i], committed'[i], pc'[owner'[i]])
        <5>1. pending'[i].source = "drift"
          BY <4>7 DEF WriteRow, IInv, Row
        <5> QED
          BY <2>4, <4>1, <4>4, <4>7, <5>1
      <4>8. CASE EraseRow(u, i) /\ (View(u)[i].source = "drift" \/ pc[u] = "reset_write")
        <5>1. pending'[i].source = "none"
          BY <4>8 DEF EraseRow, IInv, NoRow
        <5> QED
          BY <2>4, <4>1, <4>4, <4>8, <5>1
      <4> QED
        BY <2>4, <3>2, <4>6, <4>7, <4>8 DEF DriftWrites
    <3> QED
      BY <3>1, <3>2
  <2> QED
    BY <2>2, <2>3, <2>4 DEF DriftMove
<1> QED
  BY <1>2, <1>3, <1>4 DEF LockOK

(* A drift step disturbs no request's reads nor its sweep. *)
LEMMA DrifterReadsAndSweeps ==
  ASSUME IInv, NEW u \in Drifter, DriftMove(u), UNCHANGED writeVars,
         \A v \in Tx \ {u} : pc'[v] = pc[v]
  PROVE  ReadsOK' /\ SweepOK'
<1> USE DEF TypeInv, TypeOK, StoreTypeOK
<1>1. ASSUME NEW t \in Client
      PROVE  pc'[t] = pc[t] /\ req'[t] = req[t] /\ cur'[t] = cur[t] /\ sweep'[t] = sweep[t]
             /\ (pc[t] # "idle" => req[t].id \in Id)
  BY StoreAssumption DEF Tx, writeVars, IInv, PhaseOK, Request
<1>2. ReadsOK'
  <2>1. ASSUME NEW t \in Client
        PROVE  Fresh(t)'
    <3>1. CASE pc[t] = "idle"
      BY <1>1, <2>1, <3>1 DEF Fresh
    <3>2. CASE pc[t] # "idle" /\ committed'[req[t].id].source # "user"
      BY <1>1, <2>1, <3>2 DEF Fresh
    <3>3. CASE pc[t] # "idle" /\ committed'[req[t].id].source = "user"
      <4>1. committed'[req[t].id] = committed[req[t].id]
        BY ONLY <1>1, <2>1, <3>3, DriftLeavesRequests, IInv, u \in Drifter, DriftMove(u)
      <4>2. Fresh(t)
        BY <2>1 DEF IInv, ReadsOK
      <4> QED
        BY ONLY <1>1, <2>1, <4>1, <4>2 DEF Fresh, Remembers
    <3> QED
      BY <3>1, <3>2, <3>3
  <2> QED
    BY <2>1 DEF ReadsOK
<1>3. ASSUME NEW t \in Client, NEW d \in Id, View(t)'[d].source = "user"
      PROVE  View(t)'[d] = View(t)[d]
  BY <1>3, DriftLeavesRequests DEF View
<1>4. SweepOK'
  <2>1. ASSUME NEW t \in Client, pc[t] # "idle"
        PROVE  Below[req[t].id] \subseteq Id
    BY <1>1, <2>1, StoreAssumption
  <2>2. \A t \in Client : pc[t] \in SweepPC \cup {"commit"} => pc[t] # "idle"
    BY DEF SweepPC
  <2>3. ASSUME NEW t \in Client, pc[t] \in (SweepPC \cup {"commit"}) \ {"gather_view"},
               req[t].op = "DELETE", NEW d \in Below[req[t].id],
               View(t)'[d].source = "user", View(t)'[d].present
        PROVE  d \in sweep[t]
    <3>1. View(t)'[d] = View(t)[d]
      BY <1>3, <2>1, <2>2, <2>3
    <3> QED
      BY <2>3, <3>1 DEF IInv, SweepOK, Swept
  <2>4. SweepOK
    BY DEF IInv
  <2> QED
    BY ONLY <1>1, <2>3, <2>4 DEF SweepOK, Swept
<1> QED
  BY <1>2, <1>4

(* The revisions survive each way a step can use the store.                  *)
LEMMA RevisionsKept ==
  ASSUME TypeInv, RevOK, Track, NEW t \in Tx,
         \/ UNCHANGED storeVars
         \/ \E i \in Id : LockRow(t, i) \/ EraseRow(t, i)
         \/ \E i \in Id, row \in Row : WriteRow(t, i, row)
         \/ CommitRows(t)
         \/ RollbackRows(t)
  PROVE  RevOK'
<1> USE DEF TypeInv, TypeOK, StoreTypeOK
<1>1. NoTx # t
  BY StoreAssumption
<1>2. committed' = committed => lastRev' = lastRev
  <2>1. \A i \in Id : lastRev[i] = IF committed[i].source # "none"
                                   THEN committed[i].revision ELSE lastRev[i]
    BY DEF RevOK
  <2> QED
    BY <2>1 DEF Track
<1>3. CASE UNCHANGED storeVars
  BY <1>2, <1>3 DEF RevOK, storeVars
<1>4. ASSUME NEW i \in Id, LockRow(t, i)
      PROVE  RevOK'
  <2>1. /\ committed' = committed /\ seq' = seq /\ owner' = [owner EXCEPT ![i] = t]
        /\ pending' = [pending EXCEPT ![i] = View(t)[i]]
    BY <1>4 DEF LockRow
  <2>2. View(t)[i] = committed[i] \/ (owner[i] = t /\ View(t)[i] = pending[i])
    BY DEF View
  <2> QED
    BY <1>1, <1>2, <2>1, <2>2 DEF RevOK, Row
<1>5. ASSUME NEW i \in Id, EraseRow(t, i)
      PROVE  RevOK'
  BY <1>2, <1>5 DEF RevOK, EraseRow, NoRow
<1>6. ASSUME NEW i \in Id, NEW row \in Row, WriteRow(t, i, row)
      PROVE  RevOK'
  <2>1. /\ committed' = committed /\ seq' = seq + 1 /\ owner' = [owner EXCEPT ![i] = t]
        /\ pending' = [pending EXCEPT ![i] = [row EXCEPT !.revision = seq + 1]]
    BY <1>6 DEF WriteRow
  <2>2. pending'[i].revision = seq + 1 /\ \A j \in Id \ {i} : pending'[j] = pending[j]
    BY <2>1 DEF Row
  <2>3. \A j \in Id : pending[j].revision \in Nat /\ lastRev[j] \in Nat
    BY DEF Row
  <2> QED
    BY <1>2, <2>1, <2>2, <2>3 DEF RevOK
<1>7. CASE CommitRows(t)
  <2>1. seq' = seq /\ committed' = View(t)
        /\ (\A i \in Id : owner'[i] # NoTx => owner[i] # t /\ owner'[i] = owner[i]
                                              /\ pending'[i] = pending[i])
    BY <1>7 DEF CommitRows, ReleaseRows
  <2>2. ASSUME NEW i \in Id
        PROVE  /\ lastRev'[i] <= seq
               /\ committed'[i].source # "none" => lastRev'[i] = committed'[i].revision
    BY <1>1, <2>1 DEF Track, View, RevOK
  <2>3. ASSUME NEW i \in Id, owner'[i] # NoTx, pending'[i].source # "none"
        PROVE  /\ pending'[i].revision <= seq
               /\ pending'[i] # committed'[i] => pending'[i].revision > lastRev'[i]
    <3>1. committed'[i] = committed[i] /\ lastRev'[i] = lastRev[i]
      BY <2>1, <2>3 DEF Track, View, RevOK
    <3> QED
      BY <2>1, <2>3, <3>1 DEF RevOK
  <2> QED
    BY <2>1, <2>2, <2>3 DEF RevOK
<1>8. CASE RollbackRows(t)
  BY <1>2, <1>8 DEF RevOK, RollbackRows, ReleaseRows
<1> QED
  BY <1>3, <1>4, <1>5, <1>6, <1>7, <1>8

(* A drift step keeps the inductive invariant. *)
LEMMA DrifterKeeps ==
  ASSUME IInv, NEW u \in Drifter, DrifterNext(u), Track
  PROVE  IInv'
<1>1. DriftMove(u) /\ UNCHANGED writeVars /\ \A v \in Tx \ {u} : pc'[v] = pc[v]
  BY DrifterMoves DEF IInv
<1>2. RevOK'
  BY <1>1, RevisionsKept DEF IInv, DriftMove, DriftWrites, Tx
<1> QED
  BY <1>1, <1>2, DrifterType, DrifterLocks, DrifterReadsAndSweeps DEF IInv

-----------------------------------------------------------------------------
(* What a step of a request does to the locks and the store.                *)

BusyPC == ClientPC \ ({"idle", "queued"} \cup ClientRowPC)

ClientMove(t) ==
    \/ /\ pc[t] = "idle" /\ pc'[t] = "queued"
       /\ UNCHANGED <<storeVars, wlock>>
    \/ /\ pc[t] = "queued" /\ pc'[t] = "read_overlay"
       /\ wlock = NoTx /\ wlock' = t /\ UNCHANGED storeVars
    \/ /\ pc[t] \in BusyPC /\ pc'[t] \in BusyPC
       /\ UNCHANGED <<storeVars, wlock>>
    \/ /\ pc[t] \in {"upsert", "tombstone", "cascade"} /\ pc'[t] \in ClientRowPC
       /\ wlock' = wlock
       /\ \E i \in Id, row \in Row : row.source = "user" /\ WriteRow(t, i, row)
    \/ /\ \/ pc[t] = "commit" /\ CommitRows(t)
          \/ RollbackRows(t)
       /\ pc'[t] = "idle" /\ wlock' = IF wlock = t THEN NoTx ELSE wlock

Others(t) ==
    /\ \A u \in Tx \ {t} : pc'[u] = pc[u]
    /\ \A u \in Client \ {t} : req'[u] = req[u] /\ cur'[u] = cur[u] /\ sweep'[u] = sweep[u]

(* The outcome of read_current is a move of the request. *)
LEMMA SettleMoves ==
  ASSUME TypeInv, NEW t \in Client, NEW c, Settle(t, c), pc[t] \in BusyPC
  PROVE  ClientMove(t) /\ Others(t)
<1>0. t \in Tx /\ pc \in [Tx -> ClientPC \cup DrifterPC]
      /\ DOMAIN req = Client /\ DOMAIN cur = Client /\ DOMAIN sweep = Client
  BY DEF TypeInv, TypeOK, WriteTypeOK, Tx
<1>1. CASE RollbackRows(t) /\ LeaveWrite(t)
  BY <1>0, <1>1 DEF LeaveWrite, ClientMove, Others
<1>2. CASE /\ cur' = [cur EXCEPT ![t] = c]
           /\ pc' = [pc EXCEPT ![t] = IF req[t].op = "DELETE" THEN "gather_view" ELSE "upsert"]
           /\ UNCHANGED <<storeVars, wlock, req, sweep, requests>>
  <2>1. pc'[t] \in BusyPC
    BY <1>0, <1>2 DEF BusyPC, ClientPC, ClientRowPC
  <2> QED
    BY <1>0, <1>2, <2>1 DEF ClientMove, Others
<1> QED
  BY <1>1, <1>2 DEF Settle

(* Each step of a request is a move, and only its own. *)
LEMMA ClientMoves ==
  ASSUME TypeInv, NEW t \in Client, ClientNext(t)
  PROVE  ClientMove(t) /\ Others(t)
<1>0. t \in Tx /\ pc \in [Tx -> ClientPC \cup DrifterPC] /\ StoreTypeOK
      /\ DOMAIN req = Client /\ DOMAIN cur = Client /\ DOMAIN sweep = Client
  BY DEF TypeInv, TypeOK, WriteTypeOK, Tx
<1>1. ASSUME NEW op, NEW i, NEW F, NEW b, NEW h, Submit(t, op, i, F, b, h)
      PROVE  ClientMove(t) /\ Others(t)
  BY <1>0, <1>1 DEF Submit, ClientMove, Others
<1>2. ASSUME TakeWriteLock(t)
      PROVE  ClientMove(t) /\ Others(t)
  BY <1>0, <1>2 DEF TakeWriteLock, ClientMove, Others
<1>3. ASSUME ReadOverlay(t) \/ ReadView(t) \/ ReadTombstone(t)
      PROVE  ClientMove(t) /\ Others(t)
  <2>1. pc[t] \in BusyPC
    BY <1>3 DEF ReadOverlay, ReadView, ReadTombstone, BusyPC, ClientPC, ClientRowPC
  <2>2. {"read_view", "read_tombstone"} \subseteq BusyPC
    BY DEF BusyPC, ClientPC, ClientRowPC
  <2>3. ASSUME NEW label \in {"read_view", "read_tombstone"}, pc' = [pc EXCEPT ![t] = label],
               UNCHANGED <<storeVars, writeVars>>
        PROVE  ClientMove(t) /\ Others(t)
    BY <1>0, <2>1, <2>2, <2>3 DEF ClientMove, Others, writeVars
  <2> QED
    BY <1>3, <2>1, <2>3, SettleMoves DEF ReadOverlay, ReadView, ReadTombstone
<1>4. ASSUME GatherView(t) \/ GatherOverlay(t)
      PROVE  ClientMove(t) /\ Others(t)
  BY <1>0, <1>4 DEF GatherView, GatherOverlay, ClientMove, Others, BusyPC, ClientPC, ClientRowPC
<1>5. ASSUME UpsertPresent(t) \/ TombstoneTarget(t)
      PROVE  ClientMove(t) /\ Others(t)
  <2>1. req[t].id \in Id
    BY <1>5 DEF TypeInv, PhaseOK, UpsertPresent, TombstoneTarget, Request
  <2>2. \E i \in Id, row \in Row : row.source = "user" /\ WriteRow(t, i, row)
    BY <1>5, <2>1, WrittenBodyType, PresentRowType, TombstoneType
    DEF UpsertPresent, TombstoneTarget
  <2> QED
    BY <1>0, <1>5, <2>2 DEF UpsertPresent, TombstoneTarget, ClientMove, Others, ClientRowPC, writeVars
<1>6. ASSUME NEW d \in Id, TombstoneDescendant(t, d)
      PROVE  ClientMove(t) /\ Others(t)
  <2>1. \E i \in Id, row \in Row : row.source = "user" /\ WriteRow(t, i, row)
    BY <1>6, TombstoneType DEF TombstoneDescendant
  <2> QED
    BY <1>0, <1>6, <2>1 DEF TombstoneDescendant, ClientMove, Others, ClientRowPC
<1>7. ASSUME CommitWrite(t) \/ AbortWrite(t)
      PROVE  ClientMove(t) /\ Others(t)
  BY <1>0, <1>7 DEF CommitWrite, AbortWrite, LeaveWrite, ClientMove, Others
<1> QED
  BY <1>1, <1>2, <1>3, <1>4, <1>5, <1>6, <1>7 DEF ClientNext, ClientArrives, WriteStep

(* A step of a request keeps the lock discipline. *)
LEMMA ClientLocks ==
  ASSUME IInv, NEW t \in Client, ClientMove(t), Others(t)
  PROVE  LockOK'
<1> USE DEF TypeInv, TypeOK, StoreTypeOK
<1>1. t \in Tx /\ t \notin Drifter /\ t # NoTx /\ NoTx \notin Client /\ NoTx \notin Drifter
  BY StoreAssumption DEF Tx
<1>2. LockOK
  BY DEF IInv
<1>3. ASSUME NEW u \in Client, pc'[u] \notin {"idle", "queued"}
      PROVE  wlock' = u
  <2>1. u \in Tx /\ (u # t => pc'[u] = pc[u])
    BY DEF Others, Tx
  <2>2. u # t => wlock = u
    BY <1>2, <1>3, <2>1 DEF LockOK
  <2>3. u # t => wlock' = wlock
    BY <1>1, <1>2, <2>2 DEF ClientMove, LockOK, BusyPC
  <2>4. u = t => wlock' = t
    BY <1>2, <1>3 DEF ClientMove, LockOK, BusyPC
  <2> QED
    BY <2>2, <2>3, <2>4
<1>4. ASSUME UNCHANGED storeVars, pc[t] \notin ClientRowPC
      PROVE  LockOK'
  <2>1. \A i \in Id : owner[i] # t
    BY <1>2, <1>4 DEF LockOK
  <2>2. \A i \in Id : owner[i] \in Tx => pc'[owner[i]] = pc[owner[i]]
    BY <2>1 DEF Others
  <2> QED
    BY <1>2, <1>3, <1>4, <2>2 DEF LockOK, storeVars, Tx
<1>5. ASSUME NEW i \in Id, NEW row \in Row, row.source = "user", WriteRow(t, i, row),
             pc'[t] \in ClientRowPC
      PROVE  LockOK'
  <2>1. /\ owner' = [owner EXCEPT ![i] = t] /\ committed' = committed
        /\ pending' = [pending EXCEPT ![i] = [row EXCEPT !.revision = seq + 1]]
    BY <1>5 DEF WriteRow
  <2>2. owner'[i] = t /\ pending'[i].source = "user"
    BY <1>5, <2>1 DEF Row, IInv
  <2>3. \A j \in Id \ {i} : owner'[j] = owner[j] /\ pending'[j] = pending[j]
    BY <2>1 DEF IInv
  <2>4. \A u \in Tx : pc'[u] = pc[u] \/ u = t
    BY DEF Others
  <2> QED
    BY <1>1, <1>2, <1>3, <1>5, <2>1, <2>2, <2>3, <2>4 DEF LockOK, Tx
<1>6. ASSUME CommitRows(t) \/ RollbackRows(t)
      PROVE  LockOK'
  <2>1. \A i \in Id : owner'[i] # NoTx =>
           owner[i] # t /\ owner'[i] = owner[i] /\ pending'[i] = pending[i]
           /\ committed'[i] = committed[i]
    BY <1>6 DEF CommitRows, RollbackRows, ReleaseRows, View
  <2>2. \A u \in Tx : pc'[u] = pc[u] \/ u = t
    BY DEF Others
  <2> QED
    BY <1>1, <1>2, <1>3, <2>1, <2>2 DEF LockOK, Tx
<1> QED
  BY <1>4, <1>5, <1>6 DEF ClientMove, BusyPC, ClientRowPC, storeVars

(* While a request holds the write-plane lock the others do not move the     *)
(* store: they only queue up or give up.                                     *)
LEMMA LockHolderUndisturbed ==
  ASSUME IInv, NEW t \in Client, ClientMove(t), NEW u \in Client \ {t},
         pc[u] \notin {"idle", "queued"}
  PROVE  /\ committed' = committed /\ View(u)' = View(u)
         /\ \A i \in Id : owner'[i] = owner[i] /\ pending'[i] = pending[i]
<1> USE DEF TypeInv, TypeOK, StoreTypeOK
<1>1. pc[t] \in {"idle", "queued"} /\ wlock = u /\ u # NoTx
  BY StoreAssumption DEF IInv, LockOK, Tx
<1>2. \A i \in Id : owner[i] # t
  <2>1. LockOK /\ pc[t] \notin ClientRowPC
    BY <1>1 DEF IInv, ClientRowPC
  <2> QED
    BY ONLY <2>1, t \in Client DEF LockOK
<1>3. UNCHANGED storeVars \/ RollbackRows(t)
  BY <1>1 DEF ClientMove, BusyPC
<1>4. \A i \in Id : owner'[i] = owner[i] /\ pending'[i] = pending[i]
  BY <1>2, <1>3 DEF storeVars, RollbackRows, ReleaseRows, IInv
<1>5. committed' = committed
  BY <1>3 DEF storeVars, RollbackRows
<1> QED
  BY <1>4, <1>5 DEF View

(* A step of one request leaves the others and what they see as it was. *)
LEMMA OtherRequestsKeep ==
  ASSUME IInv, NEW t \in Client, ClientMove(t), Others(t), NEW u \in Client \ {t}
  PROVE  /\ pc'[u] = pc[u] /\ req'[u] = req[u] /\ cur'[u] = cur[u] /\ sweep'[u] = sweep[u]
         /\ pc[u] \notin {"idle", "queued"} =>
               /\ committed' = committed /\ View(u)' = View(u)
               /\ \A i \in Id : owner'[i] = owner[i] /\ pending'[i] = pending[i]
  BY LockHolderUndisturbed DEF Others, Tx

(* A read_current that returned the row as it is makes the request fresh. *)
LEMMA SettleKeeps ==
  ASSUME IInv, NEW t \in Client, NEW c \in Current, Settle(t, c),
         committed[req[t].id].source = "user" =>
            IF committed[req[t].id].present
            THEN c.kind = "overlay" /\ c.revision = committed[req[t].id].revision
            ELSE c.kind = "tombstoned"
  PROVE  Fresh(t)' /\ Swept(t)'
<1>0. t \in Tx /\ t \in DOMAIN pc /\ t \in DOMAIN cur
  BY DEF IInv, TypeInv, TypeOK, WriteTypeOK, Tx
<1>1. CASE LeaveWrite(t)
  BY <1>0, <1>1 DEF LeaveWrite, Fresh, Swept, SweepPC
<1>2. CASE /\ cur' = [cur EXCEPT ![t] = c]
           /\ pc' = [pc EXCEPT ![t] = IF req[t].op = "DELETE" THEN "gather_view" ELSE "upsert"]
           /\ UNCHANGED <<storeVars, wlock, req, sweep, requests>>
  BY <1>0, <1>2 DEF Fresh, Swept, SweepPC, Remembers, storeVars
<1> QED
  BY <1>1, <1>2 DEF Settle

(* A step of a request keeps its own reads fresh and its sweep complete. *)
LEMMA ClientReadsAndSweeps ==
  ASSUME IInv, NEW t \in Client, ClientNext(t)
  PROVE  Fresh(t)' /\ Swept(t)'
<1> DEFINE id  == req[t].id
           row == committed[id]
<1>0. t \in Tx /\ pc \in [Tx -> ClientPC \cup DrifterPC] /\ StoreTypeOK /\ TypeInv /\ LockOK
      /\ req \in [Client -> Request \cup {NoRequest}] /\ sweep \in [Client -> SUBSET Id]
      /\ Fresh(t) /\ Swept(t)
  BY DEF IInv, TypeInv, TypeOK, WriteTypeOK, Tx, ReadsOK, SweepOK
<1>1. pc[t] # "idle" => id \in Id /\ row \in Row /\ WellFormed(row) /\ Below[id] \in SUBSET Id
                        /\ id \notin Below[id]
  BY <1>0, StoreAssumption DEF TypeInv, PhaseOK, Request, StoreTypeOK
<1>2. ASSUME ClientArrives(t) \/ TakeWriteLock(t) \/ CommitWrite(t) \/ AbortWrite(t)
      PROVE  Fresh(t)' /\ Swept(t)'
  <2>1. pc'[t] \in {"idle", "queued", "read_overlay"}
    BY <1>0, <1>2 DEF ClientArrives, Submit, TakeWriteLock, CommitWrite, AbortWrite, LeaveWrite
  <2> QED
    BY <2>1 DEF Fresh, Swept, SweepPC
<1>3. ASSUME ReadOverlay(t)
      PROVE  Fresh(t)' /\ Swept(t)'
  <2>1. CASE row.present /\ Settle(t, [kind |-> "overlay", revision |-> row.revision, body |-> row.body])
    <3>1. [kind |-> "overlay", revision |-> row.revision, body |-> row.body] \in Current
      BY <1>1, <1>3 DEF ReadOverlay, Row, Current
    <3> QED
      BY <2>1, <3>1, SettleKeeps
  <2>2. CASE ~row.present /\ pc' = [pc EXCEPT ![t] = "read_view"] /\ UNCHANGED <<storeVars, writeVars>>
    BY <1>0, <2>2 DEF Fresh, Swept, SweepPC, storeVars, writeVars
  <2> QED
    BY <1>3, <2>1, <2>2 DEF ReadOverlay
<1>4. ASSUME ReadView(t)
      PROVE  Fresh(t)' /\ Swept(t)'
  <2> DEFINE b == Resolved(committed, id)
  <2>1. pc[t] = "read_view" /\ (row.source = "user" => ~row.present /\ b = NoBody)
    BY <1>0, <1>1, <1>4 DEF ReadView, Fresh, Resolved, WellFormed
  <2>2. CASE b # NoBody /\ Settle(t, [kind |-> "baseline", revision |-> 0, body |-> b])
    <3>1. [kind |-> "baseline", revision |-> 0, body |-> b] \in Current
      BY <1>0, <1>1, <2>1, ResolvedType DEF Current, StoreTypeOK
    <3> QED
      BY <2>1, <2>2, <3>1, SettleKeeps
  <2>3. CASE pc' = [pc EXCEPT ![t] = "read_tombstone"] /\ UNCHANGED <<storeVars, writeVars>>
    BY <1>0, <2>1, <2>3 DEF Fresh, Swept, SweepPC, storeVars, writeVars
  <2> QED
    BY <1>4, <2>2, <2>3 DEF ReadView
<1>5. ASSUME ReadTombstone(t)
      PROVE  Fresh(t)' /\ Swept(t)'
  <2> DEFINE k == IF row.source # "none" /\ ~row.present THEN "tombstoned" ELSE "absent"
  <2>1. row.source = "user" => ~row.present /\ k = "tombstoned"
    BY <1>0, <1>5 DEF ReadTombstone, Fresh
  <2>2. [kind |-> k, revision |-> 0, body |-> NoBody] \in Current
    BY DEF Current
  <2>3. Settle(t, [kind |-> k, revision |-> 0, body |-> NoBody])
    BY <1>5 DEF ReadTombstone
  <2> QED
    BY <2>1, <2>2, <2>3, SettleKeeps
<1>6. ASSUME GatherView(t)
      PROVE  Fresh(t)' /\ Swept(t)'
  <2>1. pc[t] = "gather_view" /\ pc'[t] = "gather_overlay" /\ UNCHANGED <<storeVars, req, cur>>
        /\ sweep'[t] = Below[id] \cap Live(committed)
    BY <1>0, <1>6 DEF GatherView
  <2>2. Fresh(t)'
    BY <1>0, <2>1 DEF Fresh, Remembers, storeVars
  <2>3. ASSUME NEW d \in Below[id], View(t)[d].source = "user", View(t)[d].present
        PROVE  d \in Live(committed)
    <3>1. d \in Id /\ WellFormed(committed[d])
      BY <1>0, <1>1, <2>1 DEF StoreTypeOK
    <3>2. owner[d] # t
      BY <1>0, <2>1, <3>1 DEF LockOK, ClientRowPC
    <3> QED
      BY <2>3, <3>1, <3>2 DEF View, Live, Resolved, WellFormed
  <2>4. View(t)' = View(t)
    BY <2>1 DEF View, storeVars
  <2> QED
    BY <1>0, <2>1, <2>2, <2>3, <2>4 DEF Swept, SweepPC
<1>7. ASSUME GatherOverlay(t)
      PROVE  Fresh(t)' /\ Swept(t)'
  <2>1. pc[t] = "gather_overlay" /\ pc'[t] = "tombstone" /\ UNCHANGED <<storeVars, req, cur>>
        /\ sweep[t] \subseteq sweep'[t]
    BY <1>0, <1>7 DEF GatherOverlay
  <2>2. View(t)' = View(t)
    BY <2>1 DEF View, storeVars
  <2> QED
    BY <1>0, <2>1, <2>2 DEF Fresh, Remembers, Swept, SweepPC, storeVars
<1>8. ASSUME UpsertPresent(t)
      PROVE  Fresh(t)' /\ Swept(t)'
  <2>1. pc[t] = "upsert" /\ pc'[t] = "commit" /\ UNCHANGED <<committed, req, cur>>
    BY <1>0, <1>8 DEF UpsertPresent, WriteRow, writeVars
  <2> QED
    BY <1>0, <2>1 DEF Fresh, Remembers, Swept, SweepPC
<1>9. ASSUME TombstoneTarget(t)
      PROVE  Fresh(t)' /\ Swept(t)'
  <2>1. pc[t] = "tombstone" /\ UNCHANGED <<committed, req, cur, sweep>>
        /\ pc'[t] = (IF sweep[t] = {} THEN "commit" ELSE "cascade")
        /\ WriteRow(t, id, Tombstone("user"))
    BY <1>0, <1>9 DEF TombstoneTarget, WriteRow, writeVars
  <2>2. Fresh(t)'
    BY <1>0, <2>1 DEF Fresh, Remembers
  <2>3. ASSUME NEW d \in Below[id]
        PROVE  View(t)'[d] = View(t)[d]
    BY <1>0, <1>1, <2>1, <2>3 DEF WriteRow, View, StoreTypeOK
  <2>4. \A d \in Below[id] : View(t)[d].source = "user" /\ View(t)[d].present => d \in sweep[t]
    BY <1>0, <2>1 DEF Swept, SweepPC
  <2>5. req[t].op = "DELETE"
    BY <1>0, <2>1 DEF Swept, SweepPC
  <2> QED
    BY <2>1, <2>2, <2>3, <2>4, <2>5 DEF Swept, SweepPC
<1>10. ASSUME NEW e \in Id, TombstoneDescendant(t, e)
       PROVE  Fresh(t)' /\ Swept(t)'
  <2>1. pc[t] = "cascade" /\ UNCHANGED <<committed, req, cur>>
        /\ pc'[t] = (IF sweep[t] = {e} THEN "commit" ELSE "cascade")
        /\ sweep'[t] = sweep[t] \ {e} /\ WriteRow(t, e, Tombstone("user"))
    BY <1>0, <1>10 DEF TombstoneDescendant, WriteRow
  <2>2. Fresh(t)'
    BY <1>0, <2>1 DEF Fresh, Remembers
  <2>3. View(t)'[e] = [Tombstone("user") EXCEPT !.revision = seq + 1]
    BY <1>0, <2>1 DEF WriteRow, View, StoreTypeOK
  <2>4. ~View(t)'[e].present
    BY <2>3 DEF Tombstone
  <2>5. ASSUME NEW d \in Below[id], d # e
        PROVE  View(t)'[d] = View(t)[d]
    BY <1>0, <1>1, <2>1, <2>5 DEF WriteRow, View, StoreTypeOK
  <2>6. \A d \in Below[id] : View(t)[d].source = "user" /\ View(t)[d].present => d \in sweep[t]
    BY <1>0, <2>1 DEF Swept, SweepPC
  <2>7. req[t].op = "DELETE"
    BY <1>0, <2>1 DEF Swept, SweepPC
  <2>8. \A d \in Below[id] : View(t)'[d].source = "user" /\ View(t)'[d].present => d \in sweep'[t]
    BY <2>1, <2>4, <2>5, <2>6
  <2> QED
    BY <2>1, <2>2, <2>7, <2>8 DEF Swept, SweepPC
<1> QED
  BY <1>2, <1>3, <1>4, <1>5, <1>6, <1>7, <1>8, <1>9, <1>10 DEF ClientNext, WriteStep

(* A step of a request keeps the inductive invariant. *)
LEMMA ClientKeeps ==
  ASSUME IInv, NEW t \in Client, ClientNext(t), Track
  PROVE  IInv'
<1>1. TypeInv /\ ClientMove(t) /\ Others(t)
  BY ClientMoves DEF IInv
<1>2. TypeInv' /\ LockOK'
  BY <1>1, ClientType, ClientLocks
<1>3. RevOK'
  BY <1>1, RevisionsKept DEF IInv, ClientMove, Tx, storeVars
<1>4. ASSUME NEW u \in Client \ {t}
      PROVE  Fresh(u)' /\ Swept(u)'
  <2>1. Fresh(u) /\ Swept(u)
    BY DEF IInv, ReadsOK, SweepOK
  <2>2. CASE pc[u] \in {"idle", "queued"}
    BY <1>1, <2>2, OtherRequestsKeep DEF Fresh, Swept, SweepPC
  <2>3. CASE pc[u] \notin {"idle", "queued"}
    <3>1. /\ pc'[u] = pc[u] /\ req'[u] = req[u] /\ cur'[u] = cur[u] /\ sweep'[u] = sweep[u]
          /\ committed' = committed /\ View(u)' = View(u)
      BY <1>1, <2>3, OtherRequestsKeep
    <3> QED
      BY <2>1, <3>1 DEF Fresh, Swept, Remembers
  <2> QED
    BY <2>2, <2>3
<1>5. \A u \in Client : Fresh(u)' /\ Swept(u)'
  BY <1>4, ClientReadsAndSweeps
<1>6. ReadsOK'
  BY <1>5 DEF ReadsOK
<1>7. SweepOK'
  BY <1>5 DEF SweepOK
<1> QED
  BY <1>2, <1>3, <1>6, <1>7 DEF IInv

-----------------------------------------------------------------------------
(* The inductive invariant holds initially. *)
LEMMA InitInv == Init => IInv
<1> SUFFICES ASSUME Init PROVE IInv
  OBVIOUS
<1>1. TypeInv
  BY InitType
<1>2. \A t \in Tx : pc[t] = "idle"
  BY DEF Init
<1>3. LockOK
  BY <1>2, StoreAssumption DEF LockOK, Init, StoreInit, Tx
<1>4. RevOK
  BY DEF RevOK, Init, StoreInit, NoRow
<1>5. ReadsOK /\ SweepOK
  BY <1>2 DEF ReadsOK, Fresh, SweepOK, Swept, SweepPC, Tx
<1> QED
  BY <1>1, <1>3, <1>4, <1>5 DEF IInv

(* The inductive invariant is inductive. *)
LEMMA NextInv == IInv /\ [Next]_vars => IInv'
<1> SUFFICES ASSUME IInv, [Next]_vars PROVE IInv'
  OBVIOUS
<1>1. CASE UNCHANGED vars
  <2>1. TypeInv'
    BY <1>1, StutterType DEF IInv
  <2>2. UNCHANGED <<committed, owner, pending, seq, pc, wlock, req, cur, sweep, lastRev>>
    BY <1>1 DEF vars, storeVars, writeVars
  <2>3. LockOK' /\ RevOK'
    BY <2>2 DEF IInv, LockOK, RevOK
  <2>4. ReadsOK' /\ SweepOK'
    BY <2>2 DEF IInv, ReadsOK, Fresh, Remembers, SweepOK, Swept, View
  <2> QED
    BY <2>1, <2>3, <2>4 DEF IInv
<1>2. ASSUME NEW t \in Client, ClientNext(t), Track
      PROVE  IInv'
  BY <1>2, ClientKeeps
<1>3. ASSUME NEW t \in Drifter, DrifterNext(t), Track
      PROVE  IInv'
  BY <1>3, DrifterKeeps
<1>4. CASE DetectDeadlock /\ Track
  BY <1>2, <1>3, <1>4 DEF DetectDeadlock, ClientNext, DrifterNext
<1> QED
  BY <1>1, <1>2, <1>3, <1>4 DEF Next

(* The inductive invariant holds in every state. *)
LEMMA Invariant == Spec => []IInv
  BY InitInv, NextInv, PTL DEF Spec

(* No PUT, PATCH or DELETE of an estate of any size overwrites a user-owned  *)
(* row other than the one it read, whatever the number of requests and of    *)
(* drift processes: the advisory lock keeps requests apart (LockOK), and     *)
(* drift leaves user-owned rows as committed (resource_write.rs:54-66).      *)
THEOREM UserUpdatesNotLost == Spec => []NoLostUserUpdate
<1>1. IInv => NoLostUserUpdate
  BY DEF IInv, ReadsOK, Fresh, Remembers, NoLostUserUpdate
<1> QED
  BY <1>1, Invariant, PTL

(* A DELETE reaches its commit with no user-owned resource live below its    *)
(* target, for any hierarchy Below (resource_write.rs:627-674).              *)
THEOREM CascadeComplete == Spec => []CascadeSweepsUserRows
<1>1. IInv => CascadeSweepsUserRows
  BY DEF IInv, SweepOK, Swept, SweepPC, CascadeSweepsUserRows
<1> QED
  BY <1>1, Invariant, PTL

(* A committed row changes only at the commit of the transaction that holds  *)
(* its row lock, which puts its pending version in place.                    *)
LEMMA ChangeIsCommit ==
  ASSUME IInv, [Next]_vars, NEW i \in Id, committed'[i] # committed[i]
  PROVE  /\ owner[i] \in Tx /\ committed'[i] = pending[i]
         /\ owner[i] \in Drifter => pc'[owner[i]] = "idle"
<1>1. ASSUME NEW t \in Tx, CommitRows(t)
      PROVE  owner[i] = t /\ committed'[i] = pending[i]
  BY <1>1 DEF CommitRows, View
<1>2. ASSUME NEW t \in Client, ClientNext(t)
      PROVE  owner[i] = t /\ committed'[i] = pending[i]
  BY <1>1, <1>2, ClientMoves
  DEF ClientMove, storeVars, WriteRow, RollbackRows, IInv, Tx
<1>3. ASSUME NEW t \in Drifter, DrifterNext(t)
      PROVE  owner[i] = t /\ committed'[i] = pending[i] /\ pc'[t] = "idle"
  BY <1>1, <1>3, DrifterMoves
  DEF DriftMove, DriftWrites, storeVars, LockRow, WriteRow, EraseRow, RollbackRows, IInv, Tx
<1>4. DetectDeadlock => committed' = committed
  BY DEF DetectDeadlock, AbortWrite, AbortDrift, RollbackRows
<1> QED
  BY <1>2, <1>3, <1>4, StoreAssumption DEF Next, vars, storeVars, Tx

(* Drift never rewrites nor deletes a user-owned row, a reset aside: the     *)
(* upsert's ownership guard and the DELETE's suffice under READ COMMITTED,   *)
(* even when the row became user-owned after the command's own read          *)
(* (cli.py:151-175, 2065).                                                   *)
THEOREM UserOwnershipLatched == Spec => UserOwnershipIsLatched
<1>1. ASSUME IInv, [Next]_vars, NEW i \in Id, committed[i].source = "user",
             committed'[i] # committed[i]
      PROVE  \/ owner[i] \in Client /\ committed'[i].source = "user"
             \/ \E t \in Drifter : pc[t] = "reset_write" /\ pc'[t] = "idle"
  <2>1. /\ owner[i] \in Tx /\ committed'[i] = pending[i]
        /\ owner[i] \in Drifter => pc'[owner[i]] = "idle"
    BY <1>1, ChangeIsCommit
  <2>2. CASE owner[i] \in Client
    BY <1>1, <2>1, <2>2 DEF IInv, LockOK
  <2>3. CASE owner[i] \in Drifter
    BY <1>1, <2>1, <2>3 DEF IInv, LockOK
  <2> QED
    BY <2>1, <2>2, <2>3 DEF Tx
<1>2. IInv /\ [Next]_vars =>
        [\A i \in Id : committed[i].source = "user" /\ committed'[i] # committed[i] =>
            \/ owner[i] \in Client /\ committed'[i].source = "user"
            \/ \E t \in Drifter : pc[t] = "reset_write" /\ pc'[t] = "idle"]_vars
  BY <1>1
<1> QED
  BY <1>2, Invariant, PTL DEF Spec, UserOwnershipIsLatched

(* An "o-" ETag names one representation of a resource for ever: revisions   *)
(* of a row only grow, across aborted writes, reverts and resets, because    *)
(* every write draws from the one sequence (sql/009, cli.py:1819-1826).      *)
THEOREM EtagsUnique == Spec => EtagNeverReused
<1>1. ASSUME IInv, [Next]_vars, NEW i \in Id, committed'[i] # committed[i],
             committed'[i].source # "none"
      PROVE  committed'[i].revision > lastRev[i]
  <2>1. owner[i] \in Tx /\ committed'[i] = pending[i]
    BY <1>1, ChangeIsCommit
  <2>2. owner[i] # NoTx
    BY <2>1, StoreAssumption
  <2> QED
    BY <1>1, <2>1, <2>2 DEF IInv, RevOK
<1>2. IInv /\ [Next]_vars =>
        [\A i \in Id : committed'[i] # committed[i] /\ committed'[i].source # "none" =>
            committed'[i].revision > lastRev[i]]_vars
  BY <1>1
<1> QED
  BY <1>2, Invariant, PTL DEF Spec, EtagNeverReused
=============================================================================
