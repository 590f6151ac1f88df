------------------------- MODULE DriftLedger_proofs -------------------------
(***************************************************************************)
(* Proofs about the ledger of the drift commands: what is served is what    *)
(* its active batches explain, for any estate, any requests beside them and *)
(* any order of applies, reverts and resets.                                *)
(*                                                                         *)
(* The last part proves that OverlayWriters implements AtomicOverlay.  Its  *)
(* invariant RefineInv follows each request from the decision taken on what *)
(* it read (Decided) to the rows it holds at its commit (Intends); the      *)
(* commits are then the steps of AtomicOverlay and everything before them   *)
(* is invisible to a reader of the table.                                   *)
(***************************************************************************)
EXTENDS OverlayWriters_proofs, InductionLemmas

(* A state of the replay of one id: what is live has a body, what is absent  *)
(* has none.                                                                 *)
ReplayState ==
    {st \in [present : {"live", "hidden", "absent"}, body : Body \cup {NoBody}] :
        /\ st.present = "live" => st.body \in Body
        /\ st.present = "absent" => st.body = NoBody}

(* Batch k of the ledger L, taken if it is in A, and the states passed       *)
(* through up to batch n.                                                    *)
Take(i, L, A, k, st) == IF k \in A THEN ReplayBatch(st, i, L[k].recs) ELSE st
IsReplay(f, i, L, A, n) ==
    f = [k \in 0..n |-> IF k = 0 THEN Start(i) ELSE Take(i, L, A, k, f[k - 1])]
ReplayOf(i, L, A) == (CHOOSE f : IsReplay(f, i, L, A, Len(L)))[Len(L)]

(* Batch by batch, up to the n-th, two replays do the same. *)
SameTakes(i, L, A, M, B, n) ==
    \A k \in 1..n, st \in ReplayState : Take(i, L, A, k, st) = Take(i, M, B, k, st)

RecIds(recs) == {r.id : r \in recs}

-----------------------------------------------------------------------------
(* The replay starts in a state, and a batch leads to a state. *)
LEMMA StartState ==
  ASSUME NEW i \in Id
  PROVE  Start(i) \in ReplayState
  BY StoreAssumption DEF Start, ReplayState

LEMMA BatchState ==
  ASSUME NEW i \in Id, NEW st \in ReplayState, NEW recs \in SUBSET Rec
  PROVE  ReplayBatch(st, i, recs) \in ReplayState
<1> DEFINE drifted == IF st.body = NoBody THEN NoBody ELSE Drifted(st.body, i, recs)
<1>1. /\ drifted \in Body \cup {NoBody} /\ (st.body \in Body => drifted \in Body)
      /\ st.body = NoBody => drifted = NoBody
  <2>1. st.body \in Body \cup {NoBody} /\ NoBody \notin Body
    BY StoreAssumption DEF ReplayState
  <2>2. CASE st.body \in Body
    <3>1. drifted = Drifted(st.body, i, recs)
      BY <2>1, <2>2
    <3> QED
      BY <2>2, <3>1, DriftedType
  <2>3. CASE st.body = NoBody
    BY <2>1, <2>3
  <2> HIDE DEF drifted
  <2> QED
    BY <2>1, <2>2, <2>3
<1>2. CASE i \in Ids("mint", recs)
  <2>1. ReplayBatch(st, i, recs) = [present |-> "live", body |-> MintBody]
    BY <1>2 DEF ReplayBatch
  <2>2. MintBody \in Body
    BY DriftAssumption
  <2> QED
    BY <2>1, <2>2 DEF ReplayState
<1>3. CASE i \notin Ids("mint", recs) /\ i \in Ids("gone", recs)
  <2>1. ReplayBatch(st, i, recs) = [present |-> "hidden", body |-> drifted]
    BY <1>3 DEF ReplayBatch
  <2> HIDE DEF drifted
  <2> QED
    BY <1>1, <2>1 DEF ReplayState
<1>4. CASE i \notin Ids("mint", recs) /\ i \notin Ids("gone", recs)
  <2>1. ReplayBatch(st, i, recs) = [st EXCEPT !.body = drifted]
    BY <1>4 DEF ReplayBatch
  <2> HIDE DEF drifted
  <2> QED
    BY <1>1, <2>1 DEF ReplayState
<1> QED
  BY <1>2, <1>3, <1>4

(* A batch that does not mention an id does nothing to it. *)
LEMMA BatchElsewhere ==
  ASSUME NEW i \in Id, NEW st \in ReplayState, NEW recs, i \notin RecIds(recs)
  PROVE  ReplayBatch(st, i, recs) = st
<1>1. i \notin Ids("mint", recs) /\ i \notin Ids("gone", recs) /\ \A r \in recs : r.id # i
  BY DEF Ids, RecIds
<1>2. ASSUME NEW b \in Body
      PROVE  Drifted(b, i, recs) = b
  BY <1>1 DEF Drifted, Body
<1>3. (IF st.body = NoBody THEN NoBody ELSE Drifted(st.body, i, recs)) = st.body
  BY <1>2 DEF ReplayState
<1>4. ReplayBatch(st, i, recs) = [st EXCEPT !.body = st.body]
  BY <1>1, <1>3 DEF ReplayBatch
<1> QED
  BY <1>4 DEF ReplayState

-----------------------------------------------------------------------------
(* The recursion of Replay has a solution, of every length. *)
LEMMA ReplayExists ==
  ASSUME NEW i, NEW L, NEW A
  PROVE  \A n \in Nat : \E f : IsReplay(f, i, L, A, n)
<1> DEFINE S == {n \in Nat : \E f : IsReplay(f, i, L, A, n)}
<1>1. 0 \in S
  <2> DEFINE f == [k \in 0..0 |-> Start(i)]
  <2>1. IsReplay(f, i, L, A, 0)
    BY DEF IsReplay
  <2> QED
    BY <2>1
<1>2. ASSUME NEW n \in Nat, n \in S
      PROVE  n + 1 \in S
  <2>1. PICK f : IsReplay(f, i, L, A, n)
    BY <1>2
  <2> DEFINE g == [k \in 0..(n + 1) |-> IF k = n + 1 THEN Take(i, L, A, n + 1, f[n]) ELSE f[k]]
  <2>2. ASSUME NEW k \in 0..(n + 1)
        PROVE  g[k] = IF k = 0 THEN Start(i) ELSE Take(i, L, A, k, g[k - 1])
    <3>1. CASE k = n + 1
      <4>1. k - 1 = n /\ n \in 0..(n + 1) /\ n # n + 1 /\ k # 0
        BY <3>1
      <4>2. g[k - 1] = f[n] /\ g[k] = Take(i, L, A, n + 1, f[n])
        BY <3>1, <4>1
      <4> QED
        BY <3>1, <4>1, <4>2
    <3>2. CASE k # n + 1
      <4>1. k \in 0..n /\ (k # 0 => k - 1 \in 0..n)
        BY <3>2
      <4>2. g[k] = f[k] /\ (k # 0 => g[k - 1] = f[k - 1])
        BY <4>1
      <4>3. f[k] = IF k = 0 THEN Start(i) ELSE Take(i, L, A, k, f[k - 1])
        BY <2>1, <4>1 DEF IsReplay
      <4> QED
        BY <4>2, <4>3
    <3> QED
      BY <3>1, <3>2
  <2>3. IsReplay(g, i, L, A, n + 1)
    <3>1. g = [k \in 0..(n + 1) |-> g[k]]
      OBVIOUS
    <3> HIDE DEF g
    <3> QED
      BY <2>2, <3>1 DEF IsReplay
  <2> QED
    BY <2>3
<1> HIDE DEF S
<1>3. Nat \subseteq S
  BY <1>1, <1>2, NatSetInduction
<1> QED
  BY <1>3 DEF S

(* Replay is the end of such a solution. *)
LEMMA ReplayUnfolds ==
  ASSUME NEW i, NEW A, ledger \in Seq(Batch)
  PROVE  Replay(i, A) = ReplayOf(i, ledger, A)
  BY DEF Replay, ReplayOf, IsReplay, Take

(* A solution picked for the end of the ledger. *)
LEMMA ReplaySolution ==
  ASSUME NEW i, NEW L, NEW A, Len(L) \in Nat
  PROVE  \E f : IsReplay(f, i, L, A, Len(L)) /\ ReplayOf(i, L, A) = f[Len(L)]
<1> DEFINE f == CHOOSE f : IsReplay(f, i, L, A, Len(L))
<1>1. \E g : IsReplay(g, i, L, A, Len(L))
  BY ReplayExists
<1>2. IsReplay(f, i, L, A, Len(L))
  BY <1>1
<1>3. ReplayOf(i, L, A) = f[Len(L)]
  BY DEF ReplayOf
<1> QED
  BY <1>2, <1>3

(* Two replays agree as long as their batches do the same. *)
LEMMA ReplaysAgree ==
  ASSUME NEW i \in Id, NEW L \in Seq(Batch), NEW M \in Seq(Batch), NEW A, NEW B,
         NEW l \in Nat, l <= Len(L), NEW m \in Nat, m <= Len(M),
         NEW f, IsReplay(f, i, L, A, l), NEW g, IsReplay(g, i, M, B, m),
         NEW n \in Nat, n <= l, n <= m, SameTakes(i, L, A, M, B, n)
  PROVE  f[n] = g[n] /\ f[n] \in ReplayState
<1> DEFINE S == {k \in Nat : k <= n => f[k] = g[k] /\ f[k] \in ReplayState}
<1>1. 0 \in S
  <2>1. f[0] = Start(i) /\ g[0] = Start(i)
    BY DEF IsReplay
  <2> QED
    BY <2>1, StartState
<1>2. ASSUME NEW k \in Nat, k \in S
      PROVE  k + 1 \in S
  <2> SUFFICES ASSUME k + 1 <= n
               PROVE  f[k + 1] = g[k + 1] /\ f[k + 1] \in ReplayState
    OBVIOUS
  <2>1. f[k] = g[k] /\ f[k] \in ReplayState
    BY <1>2
  <2>2. f[k + 1] = Take(i, L, A, k + 1, f[k]) /\ g[k + 1] = Take(i, M, B, k + 1, g[k])
    BY DEF IsReplay
  <2>3. k + 1 \in 1..n /\ k + 1 \in 1..Len(L)
    <3>1. Len(L) \in Nat
      OBVIOUS
    <3>2. k + 1 <= n /\ n <= Len(L) /\ 1 <= k + 1 /\ k + 1 \in Nat
      BY <3>1
    <3> QED
      BY <3>1, <3>2
  <2>4. Take(i, L, A, k + 1, f[k]) \in ReplayState
    <3>1. L[k + 1] \in Batch
      BY <2>3
    <3>2. L[k + 1].recs \in SUBSET Rec
      BY <3>1 DEF Batch
    <3> QED
      BY <2>1, <3>2, BatchState DEF Take
  <2> QED
    BY <2>1, <2>2, <2>3, <2>4 DEF SameTakes
<1> HIDE DEF S
<1>3. Nat \subseteq S
  BY <1>1, <1>2, NatSetInduction
<1> QED
  BY <1>3 DEF S

(* Ledgers of one length whose batches do the same replay to the same state. *)
LEMMA ReplayCongruent ==
  ASSUME NEW i \in Id, NEW L \in Seq(Batch), NEW M \in Seq(Batch), NEW A, NEW B,
         Len(L) = Len(M), SameTakes(i, L, A, M, B, Len(L))
  PROVE  ReplayOf(i, L, A) = ReplayOf(i, M, B) /\ ReplayOf(i, L, A) \in ReplayState
<1>1. Len(L) \in Nat /\ Len(M) \in Nat
  OBVIOUS
<1>2. PICK f : IsReplay(f, i, L, A, Len(L)) /\ ReplayOf(i, L, A) = f[Len(L)]
  BY <1>1, ReplaySolution
<1>3. PICK g : IsReplay(g, i, M, B, Len(M)) /\ ReplayOf(i, M, B) = g[Len(M)]
  BY <1>1, ReplaySolution
<1>4. f[Len(L)] = g[Len(L)] /\ f[Len(L)] \in ReplayState
  <2>1. Len(L) <= Len(L) /\ Len(L) <= Len(M) /\ Len(M) <= Len(M)
    BY <1>1
  <2> QED
    BY <1>1, <1>2, <1>3, <2>1, ReplaysAgree
<1> QED
  BY <1>2, <1>3, <1>4

(* The replay of a ledger is a state. *)
LEMMA ReplayIsState ==
  ASSUME NEW i \in Id, NEW L \in Seq(Batch), NEW A
  PROVE  ReplayOf(i, L, A) \in ReplayState
<1>1. SameTakes(i, L, A, L, A, Len(L))
  BY DEF SameTakes
<1> QED
  BY <1>1, ReplayCongruent

(* An empty ledger replays to the start. *)
LEMMA ReplayEmpty ==
  ASSUME NEW i
  PROVE  ReplayOf(i, <<>>, {}) = Start(i)
<1>1. PICK f : IsReplay(f, i, <<>>, {}, 0) /\ ReplayOf(i, <<>>, {}) = f[0]
  BY ReplaySolution
<1> QED
  BY <1>1 DEF IsReplay

(* A batch more is replayed last. *)
LEMMA ReplayAppend ==
  ASSUME NEW i \in Id, NEW L \in Seq(Batch), NEW b \in Batch, NEW A \in SUBSET (1..Len(L))
  PROVE  ReplayOf(i, Append(L, b), A \cup {Len(L) + 1})
           = ReplayBatch(ReplayOf(i, L, A), i, b.recs)
<1> DEFINE M == Append(L, b)
           B == A \cup {Len(L) + 1}
           n == Len(L)
<1>1. n \in Nat /\ M \in Seq(Batch) /\ Len(M) = n + 1 /\ M[n + 1] = b
      /\ \A k \in 1..n : M[k] = L[k]
  OBVIOUS
<1> HIDE DEF M, n
<1>2. PICK f : IsReplay(f, i, L, A, n) /\ ReplayOf(i, L, A) = f[n]
  BY <1>1, ReplaySolution DEF n
<1>3. PICK g : IsReplay(g, i, M, B, n + 1) /\ ReplayOf(i, M, B) = g[n + 1]
  BY <1>1, ReplaySolution
<1>4. g[n + 1] = ReplayBatch(g[n], i, b.recs)
  <2>1. g[n + 1] = Take(i, M, B, n + 1, g[n])
    <3>1. n + 1 \in 0..(n + 1) /\ n + 1 # 0 /\ (n + 1) - 1 = n
      BY <1>1
    <3> QED
      BY <1>3, <3>1 DEF IsReplay
  <2>2. n + 1 \in B
    BY DEF n
  <2> QED
    BY <1>1, <2>1, <2>2 DEF Take
<1>5. SameTakes(i, L, A, M, B, n)
  <2>1. \A k \in 1..n : k \in A <=> k \in B
    BY <1>1 DEF n
  <2> QED
    BY <1>1, <2>1 DEF SameTakes, Take
<1>6. f[n] = g[n]
  <2>1. n <= n /\ n <= n + 1 /\ n <= Len(L) /\ n + 1 <= Len(M) /\ n + 1 \in Nat
    BY <1>1 DEF n
  <2> HIDE DEF B
  <2> QED
    BY <1>1, <1>2, <1>3, <1>5, <2>1, ReplaysAgree
<1> QED
  BY <1>2, <1>3, <1>4, <1>6 DEF M, n

(* Marking a batch changes no replay of given batches. *)
LEMMA ReplayMarked ==
  ASSUME NEW i \in Id, NEW L \in Seq(Batch), NEW k \in 1..Len(L), NEW A
  PROVE  ReplayOf(i, [L EXCEPT ![k].reverted = TRUE], A) = ReplayOf(i, L, A)
<1> DEFINE b == [L[k] EXCEPT !.reverted = TRUE]
           M == [L EXCEPT ![k] = b]
<1>1. L[k] \in Batch /\ L \in [1..Len(L) -> Batch] /\ Len(L) \in Nat
  BY LenProperties
<1>2. b \in Batch /\ b.recs = L[k].recs
  BY <1>1 DEF Batch
<1> HIDE DEF b
<1>3. M \in Seq(Batch) /\ Len(M) = Len(L)
  BY <1>1, <1>2, ExceptSeq
<1>4. \A j \in 1..Len(L) : M[j].recs = L[j].recs
  BY <1>1, <1>2
<1> HIDE DEF M
<1>5. SameTakes(i, M, A, L, A, Len(M))
  BY <1>3, <1>4 DEF SameTakes, Take
<1>6. ReplayOf(i, M, A) = ReplayOf(i, L, A)
  BY <1>3, <1>5, ReplayCongruent
<1> QED
  BY <1>6 DEF M, b

(* Leaving out a batch that does not mention the id changes nothing for it. *)
LEMMA ReplayElsewhere ==
  ASSUME NEW i \in Id, NEW L \in Seq(Batch), NEW k \in 1..Len(L), NEW A,
         i \notin RecIds(L[k].recs)
  PROVE  ReplayOf(i, L, A \ {k}) = ReplayOf(i, L, A)
<1>1. ASSUME NEW j \in 1..Len(L), NEW st \in ReplayState
      PROVE  Take(i, L, A \ {k}, j, st) = Take(i, L, A, j, st)
  BY <1>1, BatchElsewhere DEF Take
<1>2. SameTakes(i, L, A \ {k}, L, A, Len(L))
  BY <1>1 DEF SameTakes
<1> QED
  BY <1>2, ReplayCongruent

-----------------------------------------------------------------------------
(* What a drift command knows while it runs.                                 *)

UserOwned(i) == committed[i].source = "user"
Applying == {"apply_mint", "apply_owners", "apply_write", "apply_commit"}
ActiveIn(L) == {k \in DOMAIN L : ~L[k].reverted}

(* One drift command runs at a time. *)
OneCommand == \A t \in Drifter : pc[t] # "idle" => dlock = t

(* The parent rows of apply are still what is served, to the rows users took  *)
(* since then; nothing is minted before apply_mint.                           *)
ScanOK(t) ==
    /\ pc[t] \in {"idle", "apply_read", "apply_mint"} => plan[t].minted = {}
    /\ pc[t] \in Applying => \A i \in Id :
          /\ i \notin plan[t].scope => plan[t].parent[i] = NoBody
          /\ i \in plan[t].scope /\ ~UserOwned(i) =>
                plan[t].parent[i] = Resolved(committed, i)

(* A record is about a row of the scope, or mints a leaf that is new there;  *)
(* only a leaf a user took loses its record.                                 *)
RecsOK(t) == pc[t] \in Applying =>
    /\ \A r \in plan[t].recs : IF r.kind = "mint" THEN r.id \in plan[t].minted
                               ELSE plan[t].parent[r.id] # NoBody
    /\ \A i \in plan[t].minted :
          /\ i \in Mintable \cap plan[t].scope /\ plan[t].parent[i] = NoBody
          /\ i \in Ids("mint", plan[t].recs) \/ UserOwned(i)

(* apply writes no row that no record is about. *)
WritesOK(t) == pc[t] \in {"apply_write", "apply_commit"} =>
    /\ \A w \in left[t] : w[2] \in RecIds(plan[t].recs)
    /\ \A i \in Id : owner[i] = t => i \in RecIds(plan[t].recs)

(* What apply verified still holds where no user took the row since then. *)
VerifiedOK(t) == pc[t] = "apply_commit" =>
    /\ plan[t].result = Predicted(plan[t])
    /\ \A i \in plan[t].scope : ~UserOwned(i) =>
          Resolved(View(t), i) = Predicted(plan[t])[i]

(* revert has brought each id of the batch it is done with to the replay of  *)
(* the other batches.                                                        *)
RevertOK(t) == pc[t] = "revert_write" =>
    LET k == plan[t].target
        ids == RecIds(ledger[k].recs)
    IN  /\ k \in ActiveIn(ledger)
        /\ \A w \in left[t] : w[1] = "replay" /\ w[2] \in ids
        /\ \A i \in Id : owner[i] = t => i \in ids
        /\ \A i \in ids : ~UserOwned(i) /\ <<"replay", i>> \notin left[t] =>
              Resolved(View(t), i) = Shown(ReplayOf(i, ledger, ActiveIn(ledger) \ {k}))

(* reset has still to clear a drift row, or has cleared it. *)
ResetOK(t) == pc[t] = "reset_write" => \A i \in Id :
    /\ owner[i] = t => pending[i].source = "none"
    /\ committed[i].source = "drift" => <<"clear", i>> \in left[t] \/ owner[i] = t

StageOK(t) == ScanOK(t) /\ RecsOK(t) /\ WritesOK(t) /\ VerifiedOK(t) /\ RevertOK(t) /\ ResetOK(t)

(* The two properties, over the replay that the lemmas above are about. *)
Explains(L, table) == \A i \in Id : table[i].source # "user" =>
    Resolved(table, i) = Shown(ReplayOf(i, L, ActiveIn(L)))
Recorded(b) == \A i \in Id :
    \/ b.result[i] = Explained(b, i)
    \/ i \in Mintable /\ b.parent[i] = NoBody /\ b.result[i] = MintBody

LInv ==
    /\ IInv
    /\ OneCommand
    /\ \A t \in Drifter : StageOK(t)
    /\ Explains(ledger, committed)
    /\ \A k \in DOMAIN ledger : Recorded(ledger[k])

-----------------------------------------------------------------------------
(* Who takes a step.                                                         *)

(* While a drift command takes a step every other one is idle. *)
LEMMA OthersIdle ==
  ASSUME LInv, NEW u \in Drifter, DrifterNext(u), NEW t \in Drifter \ {u}
  PROVE  /\ pc[t] = "idle" /\ pc'[t] = "idle"
         /\ plan'[t] = plan[t] /\ left'[t] = left[t]
<1>1. pc[t] # "idle" => dlock = t
  BY DEF LInv, OneCommand
<1>2. pc[u] # "idle" => dlock = u
  BY DEF LInv, OneCommand
<1>3. t # NoTx /\ t \in Tx
  BY StoreAssumption DEF Tx
<1>4. CASE pc[u] = "idle"
  <2>1. DriftArrives(u)
    BY <1>4 DEF DrifterNext, DriftStep, ApplyStep, RevertStep, ResetStep,
         ApplyRead, ApplyMint, ApplyOwners, ApplyUpsert, ApplyVerify, ApplyCommit, RevertRefuse,
         RevertRead, RevertRow, RevertCommit, ResetScan, ResetRow, ResetCommit, AbortDrift
  <2> QED
    BY <1>1, <1>3, <2>1 DEF DriftArrives, StartDrift
<1>5. pc[t] = "idle"
  BY <1>1, <1>2, <1>4
<1>6. pc'[t] = pc[t]
  BY <1>3, DrifterMoves DEF LInv, IInv
<1>7. DOMAIN plan = Drifter /\ DOMAIN left = Drifter
  BY DEF LInv, IInv, TypeInv, TypeOK
<1>8. plan'[t] = plan[t] /\ left'[t] = left[t]
  BY <1>7 DEF DrifterNext, DriftArrives, StartDrift, DriftStep, ApplyStep, RevertStep, ResetStep,
         ApplyRead, ApplyMint, ApplyOwners, ApplyUpsert, ApplyVerify, ApplyCommit, RevertRefuse,
         RevertRead, RevertRow, RevertCommit, ResetScan, ResetRow, ResetCommit, AbortDrift,
         LeaveDrift
<1> QED
  BY <1>5, <1>6, <1>8

(* The lock of the drift commands keeps them apart. *)
LEMMA OneCommandKept ==
  ASSUME LInv, NEW u \in Drifter, DrifterNext(u)
  PROVE  OneCommand'
<1>1. \A t \in Drifter \ {u} : pc'[t] = "idle"
  BY OthersIdle
<1>2. pc[u] # "idle" => dlock = u
  BY DEF LInv, OneCommand
<1>3. u \in Tx /\ pc \in [Tx -> ClientPC \cup DrifterPC]
  BY PlanPhase DEF LInv, IInv, TypeInv, TypeOK
<1>4. pc'[u] # "idle" => dlock' = u
  BY <1>2, <1>3
     DEF DrifterNext, DriftArrives, StartDrift, DriftStep, ApplyStep, RevertStep, ResetStep,
         ApplyRead, ApplyMint, ApplyOwners, ApplyUpsert, ApplyVerify, ApplyCommit, RevertRefuse,
         RevertRead, RevertRow, RevertCommit, ResetScan, ResetRow, ResetCommit, AbortDrift,
         LeaveDrift
<1> QED
  BY <1>1, <1>4 DEF OneCommand

(* A request commits user-owned rows only. *)
LEMMA RequestCommits ==
  ASSUME IInv, NEW u \in Client, ClientNext(u), NEW i \in Id, committed'[i] # committed[i]
  PROVE  committed'[i].source = "user"
<1>1. ClientMove(u)
  BY ClientMoves DEF IInv
<1>2. CommitRows(u)
  BY <1>1 DEF ClientMove, storeVars, WriteRow, RollbackRows
<1>3. owner[i] = u /\ committed'[i] = pending[i]
  BY <1>2 DEF CommitRows, View
<1> QED
  BY <1>3 DEF IInv, LockOK

(* A request changes what is served only to a row of its own, which is a      *)
(* user's, and touches no row a drift command has locked.                     *)
LEMMA RequestEffect ==
  ASSUME IInv, NEW u \in Client, ClientNext(u), NEW t \in Drifter, NEW i \in Id
  PROVE  /\ committed'[i] # committed[i] => committed'[i].source = "user"
         /\ owner'[i] = t <=> owner[i] = t
         /\ owner[i] = t => pending'[i] = pending[i] /\ committed'[i] = committed[i]
         /\ UserOwned(i) => UserOwned(i)'
<1> USE DEF TypeInv, TypeOK, StoreTypeOK
<1>1. u # t /\ u # NoTx /\ t # NoTx /\ u \in Tx
  BY StoreAssumption DEF Tx
<1>2. ClientMove(u)
  BY ClientMoves DEF IInv
<1>3. CASE UNCHANGED storeVars
  BY <1>3 DEF storeVars, UserOwned
<1>4. ASSUME NEW j \in Id, NEW row \in Row, WriteRow(u, j, row)
      PROVE  /\ committed' = committed
             /\ owner'[i] = t <=> owner[i] = t
             /\ owner[i] = t => pending'[i] = pending[i]
  BY <1>1, <1>4 DEF WriteRow, Free, IInv
<1>5. CASE CommitRows(u)
  <2>1. committed'[i] = IF owner[i] = u THEN pending[i] ELSE committed[i]
    BY <1>5 DEF CommitRows, View
  <2>2. owner[i] = u => pending[i].source = "user"
    BY DEF IInv, LockOK
  <2>3. /\ owner'[i] = IF owner[i] = u THEN NoTx ELSE owner[i]
        /\ pending'[i] = IF owner[i] = u THEN NoRow ELSE pending[i]
    BY <1>5 DEF CommitRows, ReleaseRows
  <2> QED
    BY <1>1, <2>1, <2>2, <2>3 DEF UserOwned
<1>6. CASE RollbackRows(u)
  BY <1>1, <1>6 DEF RollbackRows, ReleaseRows, UserOwned
<1> QED
  BY <1>2, <1>3, <1>4, <1>5, <1>6 DEF ClientMove, storeVars, UserOwned
(* A step that leaves a drift command, the ledger and the rows it has locked *)
(* alone and changes other rows only to user-owned ones disturbs nothing of  *)
(* what the command knows.                                                   *)
LEMMA StageUndisturbed ==
  ASSUME IInv, NEW t \in Drifter, StageOK(t),
         pc'[t] = pc[t], plan'[t] = plan[t], left'[t] = left[t], ledger' = ledger,
         \A i \in Id : /\ committed'[i] # committed[i] => committed'[i].source = "user"
                       /\ owner'[i] = t <=> owner[i] = t
                       /\ owner[i] = t => pending'[i] = pending[i] /\ committed'[i] = committed[i]
                       /\ UserOwned(i) => UserOwned(i)'
  PROVE  StageOK(t)'
<1>1. \A i \in Id : ~UserOwned(i)' => committed'[i] = committed[i] /\ ~UserOwned(i)
  BY DEF UserOwned
<1>2. \A i \in Id : ~UserOwned(i)' => View(t)'[i] = View(t)[i]
  BY <1>1 DEF View
<1>3. \A i \in Id : ~UserOwned(i)' =>
         /\ Resolved(committed, i)' = Resolved(committed, i)
         /\ Resolved(View(t), i)' = Resolved(View(t), i)
  BY <1>1, <1>2 DEF Resolved
<1>4. plan[t].scope \subseteq Id
  BY PlanPhase DEF IInv, Plan
<1>5. ScanOK(t)'
  BY <1>1, <1>3 DEF StageOK, ScanOK
<1>6. RecsOK(t)'
  <2>1. plan[t].minted \subseteq Id
    BY PlanPhase DEF IInv, Plan
  <2> QED
    BY <2>1 DEF StageOK, RecsOK
<1>7. WritesOK(t)'
  BY DEF StageOK, WritesOK
<1>8. VerifiedOK(t)'
  BY <1>1, <1>3, <1>4 DEF StageOK, VerifiedOK
<1>9. RevertOK(t)'
  <2> SUFFICES ASSUME pc[t] = "revert_write"
               PROVE  RevertOK(t)'
    BY DEF RevertOK
  <2> DEFINE k == plan[t].target
             ids == RecIds(ledger[k].recs)
  <2>1. /\ k \in ActiveIn(ledger)
        /\ \A w \in left[t] : w[1] = "replay" /\ w[2] \in ids
        /\ \A i \in Id : owner[i] = t => i \in ids
        /\ \A i \in ids : ~UserOwned(i) /\ <<"replay", i>> \notin left[t] =>
              Resolved(View(t), i) = Shown(ReplayOf(i, ledger, ActiveIn(ledger) \ {k}))
    BY DEF StageOK, RevertOK
  <2>2. ids \subseteq Id
    <3>1. ledger[k] \in Batch
      BY <2>1, PlanPhase DEF IInv, ActiveIn
    <3> QED
      BY <3>1 DEF Batch, Rec, RecIds
  <2>3. \A i \in ids : ~UserOwned(i)' /\ <<"replay", i>> \notin left'[t] =>
              Resolved(View(t), i)' = Shown(ReplayOf(i, ledger', ActiveIn(ledger') \ {k}))
    <3> HIDE DEF k, ids
    <3> QED
      BY <1>1, <1>3, <2>1, <2>2
  <2> QED
    BY <2>1, <2>3 DEF RevertOK
<1>10. ResetOK(t)'
  <2> SUFFICES ASSUME pc[t] = "reset_write", NEW i \in Id
               PROVE  /\ owner'[i] = t => pending'[i].source = "none"
                      /\ committed'[i].source = "drift" =>
                            <<"clear", i>> \in left'[t] \/ owner'[i] = t
    BY DEF ResetOK
  <2>1. /\ owner[i] = t => pending[i].source = "none"
        /\ committed[i].source = "drift" => <<"clear", i>> \in left[t] \/ owner[i] = t
    BY DEF StageOK, ResetOK
  <2> QED
    BY <2>1
<1> QED
  BY <1>5, <1>6, <1>7, <1>8, <1>9, <1>10 DEF StageOK

(* A step that changes committed rows only to user-owned ones keeps the       *)
(* ledger's account of what is served.                                        *)
LEMMA ExplainsUndisturbed ==
  ASSUME Explains(ledger, committed), ledger' = ledger,
         \A i \in Id : committed'[i] # committed[i] => committed'[i].source = "user"
  PROVE  Explains(ledger, committed)'
  BY DEF Explains, Resolved

(* A step of a request keeps the account. *)
LEMMA RequestKeepsAccount ==
  ASSUME LInv, NEW u \in Client, ClientNext(u), Track
  PROVE  LInv'
<1>1. IInv'
  BY ClientKeeps DEF LInv
<1>2. UNCHANGED driftVars
  BY DEF ClientNext
<1>3. \A t \in Drifter : pc'[t] = pc[t]
  <2>1. Others(u)
    BY ClientMoves DEF LInv, IInv
  <2> QED
    BY <2>1, StoreAssumption DEF Others, Tx
<1>4. OneCommand'
  BY <1>2, <1>3 DEF LInv, OneCommand, driftVars
<1>5. ASSUME NEW t \in Drifter
      PROVE  StageOK(t)'
  BY <1>2, <1>3, RequestEffect, StageUndisturbed DEF LInv, driftVars
<1>6. Explains(ledger, committed)'
  BY <1>2, RequestCommits, ExplainsUndisturbed DEF LInv, driftVars
<1>7. \A k \in DOMAIN ledger' : Recorded(ledger'[k])
  BY <1>2 DEF LInv, driftVars
<1> QED
  BY <1>1, <1>4, <1>5, <1>6, <1>7 DEF LInv

-----------------------------------------------------------------------------
(* The steps of a drift command that commit nothing.                         *)

(* Where it is idle or waits to read, a command knows nothing yet. *)
LEMMA StageFresh ==
  ASSUME NEW t \in Drifter, pc[t] \in {"idle", "apply_read", "revert_read", "reset_scan"},
         pc[t] \in {"idle", "apply_read"} => plan[t].minted = {}
  PROVE  StageOK(t)
  BY DEF StageOK, ScanOK, RecsOK, WritesOK, VerifiedOK, RevertOK, ResetOK, Applying

(* A command that ends has forgotten its plan. *)
LEMMA StageLeft ==
  ASSUME IInv, NEW t \in Drifter, LeaveDrift(t)
  PROVE  StageOK(t)'
<1>1. pc'[t] = "idle" /\ plan'[t].minted = {}
  BY PlanPhase DEF IInv, TypeInv, TypeOK, LeaveDrift, NoPlan
<1> QED
  BY <1>1 DEF StageOK, ScanOK, RecsOK, WritesOK, VerifiedOK, RevertOK, ResetOK, Applying

(* A command in its reading phase has locked no row. *)
LEMMA NoRowYet ==
  ASSUME IInv, NEW t \in Drifter, pc[t] \notin DrifterRowPC, NEW i \in Id
  PROVE  owner[i] # t
  BY DEF IInv, LockOK

(* The scoped read of apply, its field deltas and its disappears. *)
LEMMA ApplyReadStage ==
  ASSUME LInv, NEW t \in Drifter, NEW S \in Scopes,
         NEW D \in SUBSET FieldDeltas, NEW G \in SUBSET Id,
         ApplyRead(t, S, D, {Marker("gone", i) : i \in G})
  PROVE  StageOK(t)'
<1> DEFINE parent == ResolvedIn(committed, S)
           gone == {Marker("gone", i) : i \in G}
<1>1. /\ pc[t] = "apply_read"
      /\ \A r \in D : r.kind = "field" /\ parent[r.id] # NoBody
      /\ \A r \in gone : r.kind = "gone" /\ r.id \in Eligible(parent)
  BY DEF ApplyRead
<1>2. /\ plan'[t].scope = S /\ plan'[t].parent = parent /\ plan'[t].recs = D \cup gone
      /\ plan'[t].minted = plan[t].minted
      /\ pc'[t] = "apply_mint" /\ committed' = committed
  BY PlanPhase DEF LInv, IInv, TypeInv, TypeOK, ApplyRead, storeVars, Plan
<1>3. plan[t].minted = {}
  BY <1>1 DEF LInv, StageOK, ScanOK
<1>4. \A i \in Id : parent[i] = IF i \in S THEN Resolved(committed, i) ELSE NoBody
  BY DEF ResolvedIn
<1>5. \A r \in D \cup gone : r.kind # "mint" /\ parent[r.id] # NoBody
  BY <1>1 DEF Eligible
<1> HIDE DEF parent, gone
<1>6. ScanOK(t)'
  BY <1>2, <1>3, <1>4 DEF ScanOK, Resolved
<1>7. RecsOK(t)'
  BY <1>2, <1>3, <1>5 DEF RecsOK
<1> QED
  BY <1>2, <1>6, <1>7 DEF StageOK, WritesOK, VerifiedOK, RevertOK, ResetOK

(* The leaves minted into the scope are new there. *)
LEMMA ApplyMintStage ==
  ASSUME LInv, NEW t \in Drifter, NEW mints, ApplyMint(t, mints)
  PROVE  StageOK(t)'
<1> DEFINE p == plan[t]
<1>1. /\ pc[t] = "apply_mint" /\ pc'[t] = "apply_owners" /\ committed' = committed
      /\ \A r \in mints : /\ r.kind = "mint" /\ r.id \in Mintable \cap p.scope
                          /\ r.id \in Id => p.parent[r.id] = NoBody
      /\ plan'[t].recs = p.recs \cup mints /\ plan'[t].minted = Ids("mint", mints)
      /\ plan'[t].scope = p.scope /\ plan'[t].parent = p.parent
  BY PlanPhase DEF LInv, IInv, TypeInv, TypeOK, ApplyMint, storeVars, Plan
<1>2. p.minted = {} /\ RecsOK(t) /\ ScanOK(t)
  BY <1>1 DEF LInv, StageOK, ScanOK
<1>3. \A r \in p.recs : r.kind # "mint" /\ p.parent[r.id] # NoBody
  BY <1>1, <1>2 DEF RecsOK, Applying
<1>4. \A r \in mints : r.id \in Ids("mint", mints)
  BY <1>1 DEF Ids
<1>5. ASSUME NEW i \in Ids("mint", mints)
      PROVE  i \in Mintable \cap p.scope /\ p.parent[i] = NoBody /\ i \in Ids("mint", p.recs \cup mints)
  <2>1. PICK r \in mints : r.id = i /\ r.kind = "mint"
    BY DEF Ids
  <2>2. p.scope \subseteq Id
    BY PlanPhase DEF LInv, IInv, Plan
  <2> QED
    BY <1>1, <2>1, <2>2 DEF Ids
<1> HIDE DEF p
<1>6. ScanOK(t)'
  BY <1>1, <1>2 DEF ScanOK, Applying, Resolved, UserOwned, p
<1>7. RecsOK(t)'
  BY <1>1, <1>3, <1>4, <1>5 DEF RecsOK
<1> QED
  BY <1>1, <1>6, <1>7 DEF StageOK, WritesOK, VerifiedOK, RevertOK, ResetOK

(* The records on ids that are user-owned by now are dropped. *)
LEMMA ApplyOwnersStage ==
  ASSUME LInv, NEW t \in Drifter, ApplyOwners(t)
  PROVE  StageOK(t)'
<1> DEFINE p == plan[t]
           owned == {i \in {r.id : r \in p.recs} : committed[i].source = "user"}
           kept == {r \in p.recs : r.id \notin owned}
<1>1. /\ pc[t] = "apply_owners" /\ pc'[t] = "apply_write"
      /\ UNCHANGED <<committed, owner, pending>>
      /\ plan'[t].recs = kept /\ plan'[t].minted = p.minted
      /\ plan'[t].scope = p.scope /\ plan'[t].parent = p.parent
      /\ left'[t] = {<<r.kind, r.id>> : r \in kept}
  BY PlanPhase DEF LInv, IInv, TypeInv, TypeOK, ApplyOwners, storeVars, Plan
<1>2. RecsOK(t) /\ ScanOK(t)
  BY DEF LInv, StageOK
<1>3. \A r \in p.recs : IF r.kind = "mint" THEN r.id \in p.minted ELSE p.parent[r.id] # NoBody
  BY <1>1, <1>2 DEF RecsOK, Applying
<1>4. ASSUME NEW i \in p.minted
      PROVE  /\ i \in Mintable \cap p.scope /\ p.parent[i] = NoBody
             /\ i \in Ids("mint", kept) \/ UserOwned(i)
  <2>1. /\ i \in Mintable \cap p.scope /\ p.parent[i] = NoBody
        /\ i \in Ids("mint", p.recs) \/ UserOwned(i)
    BY <1>1, <1>2 DEF RecsOK, Applying
  <2>2. CASE i \in Ids("mint", p.recs) /\ ~UserOwned(i)
    <3>1. PICK r \in p.recs : r.id = i /\ r.kind = "mint"
      BY <2>2 DEF Ids
    <3>2. r \in kept
      BY <2>2, <3>1 DEF UserOwned
    <3> QED
      BY <2>1, <3>1, <3>2 DEF Ids
  <2> QED
    BY <2>1, <2>2
<1>5. \A i \in Id : owner'[i] # t
  BY <1>1, NoRowYet DEF LInv, DrifterRowPC
<1>6. kept \subseteq p.recs
  OBVIOUS
<1> HIDE DEF p, kept
<1>7. ScanOK(t)'
  BY <1>1, <1>2 DEF ScanOK, Applying, Resolved, UserOwned, p
<1>8. RecsOK(t)'
  BY <1>1, <1>3, <1>4, <1>6 DEF RecsOK, UserOwned
<1>9. WritesOK(t)'
  BY <1>1, <1>5 DEF WritesOK, RecIds
<1> QED
  BY <1>1, <1>7, <1>8, <1>9 DEF StageOK, VerifiedOK, RevertOK, ResetOK

(* A row write of a drift command: what the command sees of the row, and     *)
(* that it sees the others as before.                                        *)
LEMMA UpsertSeen ==
  ASSUME IInv, NEW t \in Drifter, pc[t] # "reset_write", NEW i \in Id, NEW row \in Row,
         row.source = "drift", DriftUpsert(t, i, row)
  PROVE  /\ committed' = committed
         /\ owner'[i] = t /\ \A j \in Id \ {i} : owner'[j] = owner[j] /\ pending'[j] = pending[j]
         /\ ~UserOwned(i) => Resolved(View(t)', i) = row.body
<1> USE DEF TypeInv, TypeOK, StoreTypeOK, IInv
<1>1. /\ committed' = committed /\ owner' = [owner EXCEPT ![i] = t]
      /\ \E new \in Row : pending' = [pending EXCEPT ![i] = new]
  <2>1. View(t)[i] \in Row
    BY ViewType
  <2>2. seq + 1 \in Nat
    OBVIOUS
  <2>3. [row EXCEPT !.revision = seq + 1] \in Row
    BY ONLY <2>2, row \in Row DEF Row
  <2> QED
    BY <2>1, <2>3 DEF DriftUpsert, LockRow, WriteRow
<1>2. ASSUME ~UserOwned(i)
      PROVE  Resolved(View(t)', i) = row.body
  <2>1. View(t)[i].source # "user"
    BY <1>2 DEF View, LockOK, UserOwned
  <2>2. WriteRow(t, i, row)
    BY <2>1 DEF DriftUpsert
  <2>3. View(t)'[i] = [row EXCEPT !.revision = seq + 1]
    BY <2>2 DEF WriteRow, View
  <2>4. View(t)'[i].source = "drift" /\ View(t)'[i].body = row.body
    BY <2>3 DEF Row
  <2> QED
    BY <2>4 DEF Resolved
<1> QED
  BY <1>1, <1>2

(* One upsert of apply. *)
LEMMA ApplyUpsertStage ==
  ASSUME LInv, NEW t \in Drifter, NEW kind \in Kind, NEW i \in Id, ApplyUpsert(t, kind, i)
  PROVE  StageOK(t)'
<1> DEFINE row == CASE kind = "field" -> PresentRow("drift", Drifted(plan[t].parent[i], i, plan[t].recs))
                    [] kind = "gone"  -> Tombstone("drift")
                    [] OTHER          -> PresentRow("drift", MintBody)
<1>1. /\ pc[t] = "apply_write" /\ pc' = pc /\ plan' = plan
      /\ <<kind, i>> \in left[t] /\ left'[t] = left[t] \ {<<kind, i>>}
      /\ DriftUpsert(t, i, row)
  BY PlanPhase DEF LInv, IInv, ApplyUpsert
<1>2. row \in Row /\ row.source = "drift"
  <2>1. CASE kind = "field"
    <3>1. plan[t].parent[i] \in Body /\ plan[t].recs \in SUBSET Rec
      BY <1>1, <2>1, PlanPhase DEF LInv, IInv, Plan
    <3> QED
      BY <2>1, <3>1, DriftedType, PresentRowType
  <2>2. CASE kind # "field"
    BY <2>2, TombstoneType, PresentRowType, DriftAssumption
  <2> QED
    BY <2>1, <2>2
<1> HIDE DEF row
<1>3. /\ committed' = committed
      /\ \A j \in Id \ {i} : owner'[j] = owner[j]
  BY <1>1, <1>2, UpsertSeen DEF LInv
<1>4. WritesOK(t) /\ ScanOK(t) /\ RecsOK(t)
  BY DEF LInv, StageOK
<1>5. i \in RecIds(plan[t].recs)
  BY <1>1, <1>4 DEF WritesOK
<1>6. WritesOK(t)'
  BY <1>1, <1>3, <1>4, <1>5 DEF WritesOK
<1>7. ScanOK(t)' /\ RecsOK(t)'
  BY <1>1, <1>3, <1>4 DEF ScanOK, RecsOK, Resolved, UserOwned
<1> QED
  BY <1>1, <1>6, <1>7 DEF StageOK, VerifiedOK, RevertOK, ResetOK

(* The authoritative re-read of apply. *)
LEMMA ApplyVerifyStage ==
  ASSUME LInv, NEW t \in Drifter, ApplyVerify(t)
  PROVE  StageOK(t)'
<1> DEFINE p == plan[t]
           persisted == ResolvedIn(View(t), p.scope)
<1>1. CASE /\ persisted = Predicted(p)
           /\ plan' = [plan EXCEPT ![t].result = persisted]
           /\ pc' = [pc EXCEPT ![t] = "apply_commit"]
           /\ UNCHANGED <<storeVars, dlock, ledger, left, ops>>
  <2>1. /\ pc[t] = "apply_write" /\ pc'[t] = "apply_commit"
        /\ UNCHANGED <<committed, owner, pending, left>>
        /\ plan'[t] = [p EXCEPT !.result = persisted] /\ p \in Plan
    BY <1>1, PlanPhase DEF LInv, IInv, TypeInv, TypeOK, ApplyVerify, storeVars
  <2>2. /\ plan'[t].recs = p.recs /\ plan'[t].minted = p.minted
        /\ plan'[t].scope = p.scope /\ plan'[t].parent = p.parent
        /\ plan'[t].result = persisted
    BY <2>1 DEF Plan
  <2>3. WritesOK(t) /\ ScanOK(t) /\ RecsOK(t)
    BY DEF LInv, StageOK
  <2>4. Predicted(plan'[t]) = Predicted(p)
    BY <2>2 DEF Predicted
  <2>5. \A i \in p.scope : Resolved(View(t), i)' = Predicted(p)[i]
    <3>1. p.scope \subseteq Id
      BY <2>1 DEF Plan
    <3>2. View(t)' = View(t)
      BY <2>1 DEF View
    <3>3. \A i \in p.scope : persisted[i] = Resolved(View(t), i)
      BY <3>1 DEF ResolvedIn
    <3> QED
      BY <1>1, <3>2, <3>3 DEF Resolved
  <2> HIDE DEF p, persisted
  <2>6. VerifiedOK(t)'
    BY <1>1, <2>2, <2>4, <2>5 DEF VerifiedOK
  <2>7. WritesOK(t)' /\ ScanOK(t)' /\ RecsOK(t)'
    BY <2>1, <2>2, <2>3 DEF WritesOK, ScanOK, RecsOK, Applying, UserOwned, Resolved, p
  <2> QED
    BY <2>1, <2>6, <2>7 DEF StageOK, RevertOK, ResetOK
<1>2. CASE LeaveDrift(t)
  BY <1>2, StageLeft DEF LInv
<1> QED
  BY <1>1, <1>2 DEF ApplyVerify

(* The target of a revert and its ids. *)
LEMMA RevertReadStage ==
  ASSUME LInv, NEW t \in Drifter, NEW k, RevertRead(t, k)
  PROVE  StageOK(t)'
<1>1. /\ pc[t] = "revert_read" /\ pc'[t] = "revert_write" /\ UNCHANGED <<storeVars, ledger>>
      /\ plan'[t].target = k /\ left'[t] = {<<"replay", r.id>> : r \in ledger[k].recs}
      /\ k \in ActiveIn(ledger)
  BY PlanPhase DEF LInv, IInv, TypeInv, TypeOK, RevertRead, Plan, ActiveIn
<1>2. \A i \in Id : owner'[i] # t
  BY <1>1, NoRowYet DEF LInv, DrifterRowPC, storeVars
<1>3. \A i \in RecIds(ledger[k].recs) : <<"replay", i>> \in left'[t]
  BY <1>1 DEF RecIds
<1>4. \A w \in left'[t] : w[1] = "replay" /\ w[2] \in RecIds(ledger[k].recs)
  BY <1>1 DEF RecIds
<1>5. RevertOK(t)'
  BY <1>1, <1>2, <1>3, <1>4 DEF RevertOK
<1> QED
  BY <1>1, <1>5 DEF StageOK, ScanOK, RecsOK, WritesOK, VerifiedOK, ResetOK, Applying

(* The rows reset will clear. *)
LEMMA ResetScanStage ==
  ASSUME LInv, NEW t \in Drifter, ResetScan(t)
  PROVE  StageOK(t)'
<1>1. /\ pc[t] = "reset_scan" /\ pc'[t] = "reset_write" /\ UNCHANGED <<committed, owner, pending>>
      /\ left'[t] = {<<"clear", i>> : i \in {j \in Id : committed[j].source # "none"}}
  BY PlanPhase DEF LInv, IInv, TypeInv, TypeOK, ResetScan, storeVars
<1>2. \A i \in Id : owner'[i] # t
  BY <1>1, NoRowYet DEF LInv, DrifterRowPC
<1>3. ResetOK(t)'
  BY <1>1, <1>2 DEF ResetOK
<1> QED
  BY <1>1, <1>3 DEF StageOK, ScanOK, RecsOK, WritesOK, VerifiedOK, RevertOK, Applying

(* One row cleared by reset. *)
LEMMA ResetRowStage ==
  ASSUME LInv, NEW t \in Drifter, NEW i \in Id, ResetRow(t, i)
  PROVE  StageOK(t)'
<1>1. /\ pc[t] = "reset_write" /\ pc' = pc /\ plan' = plan /\ committed' = committed
      /\ left'[t] = left[t] \ {<<"clear", i>>}
      /\ owner' = [owner EXCEPT ![i] = t] /\ pending' = [pending EXCEPT ![i] = NoRow]
      /\ DOMAIN owner = Id /\ DOMAIN pending = Id
  BY PlanPhase DEF LInv, IInv, ResetRow, EraseRow, StoreTypeOK
<1>2. ResetOK(t)
  BY DEF LInv, StageOK
<1>3. ResetOK(t)'
  BY <1>1, <1>2 DEF ResetOK, NoRow
<1> QED
  BY <1>1, <1>3 DEF StageOK, ScanOK, RecsOK, WritesOK, VerifiedOK, RevertOK, Applying

(* What the command sees of a row it deletes, or has no drift row to delete, *)
(* is the baseline.                                                          *)
LEMMA DeleteSeen ==
  ASSUME IInv, NEW t \in Drifter, pc[t] # "reset_write", NEW i \in Id, DeleteDriftRow(t, i)
  PROVE  /\ committed' = committed
         /\ \A j \in Id \ {i} : owner'[j] = owner[j] /\ pending'[j] = pending[j]
         /\ ~UserOwned(i) => Resolved(View(t)', i) = Shown(Start(i))
<1> USE DEF TypeInv, TypeOK, StoreTypeOK, IInv
<1>1. /\ committed' = committed
      /\ \A j \in Id \ {i} : owner'[j] = owner[j] /\ pending'[j] = pending[j]
  BY DEF DeleteDriftRow, storeVars, EraseRow
<1>2. ASSUME ~UserOwned(i)
      PROVE  View(t)'[i].source = "none"
  <2>1. View(t)[i].source # "user"
    BY <1>2 DEF View, LockOK, UserOwned
  <2>2. View(t)[i] \in Row
    BY ViewType
  <2>3. CASE EraseRow(t, i)
    BY <2>3 DEF EraseRow, View, NoRow
  <2>4. CASE View(t)[i].source # "drift" /\ UNCHANGED storeVars
    <3>1. View(t)' = View(t)
      BY <2>4 DEF View, storeVars
    <3>2. View(t)[i].source = "none"
      BY <2>1, <2>2, <2>4 DEF Row
    <3> QED
      BY <3>1, <3>2
  <2> QED
    BY <2>3, <2>4 DEF DeleteDriftRow
<1>3. ASSUME View(t)'[i].source = "none"
      PROVE  Resolved(View(t)', i) = Shown(Start(i))
  BY <1>3 DEF Resolved, Shown, Start
<1> QED
  BY <1>1, <1>2, <1>3

(* The replay in the module of the engine is the replay of the lemmas. *)
LEMMA ReplayOfActive ==
  ASSUME ledger \in Seq(Batch), NEW i, NEW k
  PROVE  Replay(i, Active \ {k}) = ReplayOf(i, ledger, ActiveIn(ledger) \ {k})
<1>1. Active = ActiveIn(ledger)
  BY DEF Active, ActiveIn
<1> QED
  BY <1>1, ReplayUnfolds

(* One row of a revert. *)
LEMMA RevertRowStage ==
  ASSUME LInv, NEW t \in Drifter, NEW i \in Id, RevertRow(t, i)
  PROVE  StageOK(t)'
<1> DEFINE k == plan[t].target
           ids == RecIds(ledger[k].recs)
           Target(j) == ReplayOf(j, ledger, ActiveIn(ledger) \ {k})
           st == Target(i)
           row == IF st.present = "hidden" THEN Tombstone("drift") ELSE PresentRow("drift", st.body)
<1>1. ledger \in Seq(Batch) /\ IInv
  BY PlanPhase DEF LInv, IInv
<1>2. /\ pc[t] = "revert_write" /\ pc' = pc /\ plan' = plan /\ ledger' = ledger
      /\ <<"replay", i>> \in left[t] /\ left'[t] = left[t] \ {<<"replay", i>>}
      /\ \/ ReplayEqualsBaseline(st, i) /\ DeleteDriftRow(t, i)
         \/ /\ ~ReplayEqualsBaseline(st, i)
            /\ st.present = "hidden" \/ st.body \in Body
            /\ DriftUpsert(t, i, row)
  BY <1>1, ReplayOfActive, PlanPhase DEF LInv, IInv, RevertRow
<1>3. /\ k \in ActiveIn(ledger)
      /\ \A w \in left[t] : w[1] = "replay" /\ w[2] \in ids
      /\ \A j \in Id : owner[j] = t => j \in ids
      /\ \A j \in ids : ~UserOwned(j) /\ <<"replay", j>> \notin left[t] =>
            Resolved(View(t), j) = Shown(Target(j))
  BY <1>2 DEF LInv, StageOK, RevertOK
<1>4. st \in ReplayState
  BY <1>1, ReplayIsState
<1>5. ids \subseteq Id
  <2>1. ledger[k] \in Batch
    BY <1>1, <1>3 DEF ActiveIn
  <2> QED
    BY <2>1 DEF Batch, Rec, RecIds
<1> HIDE DEF k, ids, Target
<1>6. /\ committed' = committed
      /\ \A j \in Id \ {i} : owner'[j] = owner[j] /\ pending'[j] = pending[j]
      /\ ~UserOwned(i) => Resolved(View(t)', i) = Shown(st)
  <2>1. CASE ReplayEqualsBaseline(st, i) /\ DeleteDriftRow(t, i)
    <3>1. /\ committed' = committed
          /\ \A j \in Id \ {i} : owner'[j] = owner[j] /\ pending'[j] = pending[j]
          /\ ~UserOwned(i) => Resolved(View(t)', i) = Shown(Start(i))
      BY <1>1, <1>2, <2>1, DeleteSeen
    <3>2. Shown(st) = Shown(Start(i))
      BY <2>1 DEF ReplayEqualsBaseline, Shown, Start
    <3> QED
      BY <3>1, <3>2
  <2>2. CASE /\ ~ReplayEqualsBaseline(st, i)
             /\ st.present = "hidden" \/ st.body \in Body
             /\ DriftUpsert(t, i, row)
    <3>1. row \in Row /\ row.source = "drift" /\ row.body = Shown(st)
      <4>1. CASE st.present = "hidden"
        BY <4>1, TombstoneType DEF Tombstone, Shown
      <4>2. CASE st.present # "hidden"
        <5>1. st.present = "live" /\ st.body \in Body
          BY <1>4, <2>2, <4>2, StoreAssumption DEF ReplayState
        <5> QED
          BY <5>1, PresentRowType DEF PresentRow, Shown
      <4> QED
        BY <4>1, <4>2
    <3> HIDE DEF row, st
    <3> QED
      BY <1>1, <1>2, <2>2, <3>1, UpsertSeen
  <2> QED
    BY <1>2, <2>1, <2>2
<1>7. i \in ids
  BY <1>2, <1>3
<1>8. ASSUME NEW j \in ids, ~UserOwned(j), <<"replay", j>> \notin left'[t]
      PROVE  Resolved(View(t)', j) = Shown(Target(j))
  <2>1. CASE j = i
    BY <1>6, <1>8, <2>1
  <2>2. CASE j # i
    <3>1. View(t)'[j] = View(t)[j]
      BY <1>5, <1>6, <2>2 DEF View
    <3>2. <<"replay", j>> \notin left[t]
      BY <1>2, <1>8, <2>2
    <3> QED
      BY <1>3, <1>8, <3>1, <3>2 DEF Resolved
  <2> QED
    BY <2>1, <2>2
<1>9. RevertOK(t)'
  <2>1. \A j \in ids : ~UserOwned(j)' /\ <<"replay", j>> \notin left'[t] =>
            Resolved(View(t), j)' = Shown(Target(j))
    BY <1>6, <1>8 DEF UserOwned, Resolved
  <2>2. \A j \in Id : owner'[j] = t => j \in ids
    BY <1>3, <1>6, <1>7
  <2>3. \A w \in left'[t] : w[1] = "replay" /\ w[2] \in ids
    BY <1>2, <1>3
  <2> QED
    BY <1>2, <1>3, <2>1, <2>2, <2>3 DEF RevertOK, k, ids, Target
<1> QED
  BY <1>2, <1>9 DEF StageOK, ScanOK, RecsOK, WritesOK, VerifiedOK, ResetOK, Applying

-----------------------------------------------------------------------------
(* The steps of a drift command that commit.                                 *)

(* What a command commits: its pending rows over the committed ones. *)
LEMMA CommitSeen ==
  ASSUME IInv, NEW t \in Drifter, CommitRows(t), NEW i \in Id
  PROVE  /\ committed'[i] = View(t)[i]
         /\ owner[i] # t => committed'[i] = committed[i]
         /\ pc[t] # "reset_write" /\ committed'[i].source # "user" => ~UserOwned(i)
  BY DEF CommitRows, View, IInv, LockOK, UserOwned

(* A batch more: what it makes of the served rows is what apply verified. *)
LEMMA ApplyCommitAccount ==
  ASSUME LInv, NEW t \in Drifter, ApplyCommit(t)
  PROVE  /\ Explains(ledger, committed)'
         /\ \A k \in DOMAIN ledger' : Recorded(ledger'[k])
<1> DEFINE p == plan[t]
           b == [recs |-> p.recs, parent |-> p.parent, result |-> p.result, reverted |-> FALSE]
           n == Len(ledger)
           A == ActiveIn(ledger)
<1>1. /\ IInv /\ ledger \in Seq(Batch) /\ n \in Nat /\ p \in Plan
      /\ pc[t] = "apply_commit" /\ ledger' = Append(ledger, b) /\ CommitRows(t)
  BY PlanPhase DEF LInv, IInv, ApplyCommit
<1>2. /\ p.recs \in SUBSET Rec /\ p.scope \subseteq Id /\ p.minted \subseteq Id
      /\ p.parent \in Served /\ p.result \in Served
  BY <1>1 DEF Plan
<1>3. b \in Batch /\ b.recs = p.recs /\ b.parent = p.parent /\ b.result = p.result /\ ~b.reverted
  BY <1>2 DEF Batch
<1>4. ScanOK(t) /\ RecsOK(t) /\ WritesOK(t) /\ VerifiedOK(t)
  BY DEF LInv, StageOK
<1>5. /\ \A r \in p.recs : IF r.kind = "mint" THEN r.id \in p.minted ELSE p.parent[r.id] # NoBody
      /\ \A i \in p.minted : /\ i \in Mintable \cap p.scope /\ p.parent[i] = NoBody
                             /\ i \in Ids("mint", p.recs) \/ UserOwned(i)
  BY <1>1, <1>4 DEF RecsOK, Applying
<1>6. /\ \A i \in Id \ p.scope : p.parent[i] = NoBody
      /\ \A i \in p.scope : ~UserOwned(i) =>
            p.parent[i] = Resolved(committed, i) /\ Resolved(View(t), i) = Predicted(p)[i]
      /\ \A i \in Id : owner[i] = t => i \in RecIds(p.recs)
      /\ p.result = Predicted(p)
  BY <1>1, <1>2, <1>4 DEF ScanOK, Applying, VerifiedOK, WritesOK
<1>7. ASSUME NEW i \in Id
      PROVE  /\ i \in Ids("mint", p.recs) => i \in p.minted
             /\ i \in Ids("gone", p.recs) => p.parent[i] # NoBody
             /\ i \notin p.minted /\ p.parent[i] = NoBody => i \notin RecIds(p.recs)
  BY <1>5 DEF Ids, RecIds
<1>8. /\ DOMAIN ledger = 1..n /\ DOMAIN ledger' = 1..(n + 1)
       /\ ledger'[n + 1] = b /\ \A k \in 1..n : ledger'[k] = ledger[k]
  BY <1>1, <1>3
<1>9. ActiveIn(ledger') = A \cup {n + 1} /\ A \in SUBSET (1..n)
  <2> HIDE DEF b, n
  <2> QED
    BY <1>1, <1>3, <1>8 DEF ActiveIn
<1> HIDE DEF p, b, n, A
<1>10. ASSUME NEW i \in Id, committed'[i].source # "user"
      PROVE  Resolved(committed', i) = Shown(ReplayOf(i, ledger', ActiveIn(ledger')))
  <2> DEFINE st == ReplayOf(i, ledger, A)
  <2>1. st \in ReplayState
    BY <1>1, ReplayIsState
  <2>2. ReplayOf(i, ledger', ActiveIn(ledger')) = ReplayBatch(st, i, p.recs)
    BY <1>1, <1>3, <1>9, ReplayAppend DEF n
  <2>3. /\ ~UserOwned(i) /\ committed'[i] = View(t)[i]
        /\ owner[i] # t => committed'[i] = committed[i]
    BY <1>1, <1>10, CommitSeen
  <2>4. Resolved(committed, i) = Shown(st)
    BY <2>3 DEF LInv, Explains, UserOwned, A
  <2> HIDE DEF st
  <2>5. CASE i \notin p.scope
    <3>1. i \notin RecIds(p.recs)
      BY <1>5, <1>6, <1>7, <2>5
    <3>2. Resolved(committed', i) = Resolved(committed, i)
      BY <1>6, <2>3, <3>1 DEF Resolved
    <3> QED
      BY <2>1, <2>2, <2>4, <3>1, <3>2, BatchElsewhere
  <2>6. CASE i \in p.scope
    <3>1. Resolved(committed', i) = Predicted(p)[i] /\ p.parent[i] = Shown(st)
      BY <1>6, <2>3, <2>4, <2>6 DEF Resolved
    <3>2. Shown(ReplayBatch(st, i, p.recs)) = Predicted(p)[i]
      <4>1. CASE i \in p.minted
        <5>1. i \in Ids("mint", p.recs)
          BY <1>5, <2>3, <4>1
        <5>2. ReplayBatch(st, i, p.recs) = [present |-> "live", body |-> MintBody]
          BY <5>1 DEF ReplayBatch
        <5>3. Predicted(p)[i] = MintBody
          BY <4>1 DEF Predicted
        <5> QED
          BY <5>2, <5>3 DEF Shown
      <4>2. CASE i \notin p.minted /\ p.parent[i] = NoBody
        <5>1. ReplayBatch(st, i, p.recs) = st
          BY <1>7, <2>1, <4>2, BatchElsewhere
        <5>2. Predicted(p)[i] = NoBody
          BY <4>2 DEF Predicted
        <5> QED
          BY <3>1, <4>2, <5>1, <5>2
      <4>3. CASE i \notin p.minted /\ p.parent[i] # NoBody
        <5>1. i \notin Ids("mint", p.recs)
          BY <1>7, <4>3
        <5>2. st.present = "live" /\ st.body = p.parent[i] /\ st.body # NoBody
          BY <3>1, <4>3 DEF Shown
        <5>3. CASE i \in Ids("gone", p.recs)
          <6>1. ReplayBatch(st, i, p.recs).present = "hidden"
            BY <5>1, <5>3 DEF ReplayBatch
          <6>2. Predicted(p)[i] = NoBody
            BY <4>3, <5>3 DEF Predicted
          <6> QED
            BY <6>1, <6>2 DEF Shown
        <5>4. CASE i \notin Ids("gone", p.recs)
          <6>1. ReplayBatch(st, i, p.recs) = [st EXCEPT !.body = Drifted(st.body, i, p.recs)]
            BY <5>1, <5>2, <5>4 DEF ReplayBatch
          <6>2. Predicted(p)[i] = Drifted(p.parent[i], i, p.recs)
            BY <4>3, <5>4 DEF Predicted
          <6> QED
            BY <2>1, <5>2, <6>1, <6>2 DEF Shown, ReplayState
        <5> QED
          BY <5>3, <5>4
      <4> QED
        BY <4>1, <4>2, <4>3
    <3> QED
      BY <2>2, <3>1, <3>2
  <2> QED
    BY <2>5, <2>6
<1>11. Recorded(b)
  <2> SUFFICES ASSUME NEW i \in Id
               PROVE  \/ b.result[i] = Explained(b, i)
                      \/ i \in Mintable /\ b.parent[i] = NoBody /\ b.result[i] = MintBody
    BY DEF Recorded
  <2>1. b.result[i] = Predicted(p)[i]
    BY <1>3, <1>6
  <2>2. CASE i \in p.minted
    BY <1>3, <1>5, <2>1, <2>2 DEF Predicted
  <2>3. CASE i \notin p.minted /\ (i \in Ids("gone", p.recs) \/ p.parent[i] = NoBody)
    <3>1. Predicted(p)[i] = NoBody
      BY <2>3 DEF Predicted
    <3>2. Explained(b, i) = NoBody
      BY <1>3, <1>7, <2>3 DEF Explained
    <3> QED
      BY <2>1, <3>1, <3>2
  <2>4. CASE i \notin p.minted /\ i \notin Ids("gone", p.recs) /\ p.parent[i] # NoBody
    <3>1. Predicted(p)[i] = Drifted(p.parent[i], i, p.recs)
      BY <2>4 DEF Predicted
    <3>2. Explained(b, i) = Drifted(p.parent[i], i, p.recs)
      BY <1>3, <1>7, <2>4 DEF Explained
    <3> QED
      BY <2>1, <3>1, <3>2
  <2> QED
    BY <2>2, <2>3, <2>4
<1>12. \A k \in DOMAIN ledger' : Recorded(ledger'[k])
  <2>1. ASSUME NEW k \in 1..(n + 1)
        PROVE  ledger'[k] = b \/ (k \in DOMAIN ledger /\ ledger'[k] = ledger[k])
    <3>1. n \in Nat
      BY <1>1
    <3>2. k = n + 1 \/ k \in 1..n
      BY <3>1
    <3>3. CASE k = n + 1
      BY <1>8, <3>3
    <3>4. CASE k \in 1..n
      <4>1. k \in DOMAIN ledger /\ ledger'[k] = ledger[k]
        BY <1>8, <3>4
      <4> QED
        BY <4>1
    <3> QED
      BY <3>2, <3>3, <3>4
  <2> QED
    BY <1>8, <1>11, <2>1 DEF LInv
<1>13. Explains(ledger, committed)'
  BY <1>10 DEF Explains, Resolved
<1> QED
  BY <1>12, <1>13

(* A batch less: its ids are where the other batches leave them. *)
LEMMA RevertCommitAccount ==
  ASSUME LInv, NEW t \in Drifter, RevertCommit(t)
  PROVE  /\ Explains(ledger, committed)'
         /\ \A k \in DOMAIN ledger' : Recorded(ledger'[k])
<1> DEFINE k == plan[t].target
           ids == RecIds(ledger[k].recs)
           A == ActiveIn(ledger)
<1>1. /\ IInv /\ ledger \in Seq(Batch) /\ pc[t] = "revert_write" /\ left[t] = {}
      /\ ledger' = [ledger EXCEPT ![k].reverted = TRUE] /\ CommitRows(t)
  BY PlanPhase DEF LInv, IInv, RevertCommit
<1>2. /\ k \in A
      /\ \A i \in Id : owner[i] = t => i \in ids
      /\ \A i \in ids : ~UserOwned(i) =>
            Resolved(View(t), i) = Shown(ReplayOf(i, ledger, A \ {k}))
  BY <1>1 DEF LInv, StageOK, RevertOK
<1>3. k \in 1..Len(ledger) /\ DOMAIN ledger = 1..Len(ledger) /\ ledger[k] \in Batch
  BY <1>1, <1>2 DEF ActiveIn
<1>4. /\ DOMAIN ledger' = DOMAIN ledger
      /\ \A j \in DOMAIN ledger : j # k => ledger'[j] = ledger[j]
      /\ ledger'[k] = [ledger[k] EXCEPT !.reverted = TRUE]
  BY <1>1, <1>3
<1>5. ledger'[k].reverted
  BY <1>3, <1>4 DEF Batch
<1>6. ActiveIn(ledger') = A \ {k}
  <2> HIDE DEF k
  <2> QED
    BY <1>4, <1>5 DEF ActiveIn
<1>7. /\ ledger'[k].recs = ledger[k].recs /\ ledger'[k].parent = ledger[k].parent
      /\ ledger'[k].result = ledger[k].result
  BY <1>3, <1>4 DEF Batch
<1> HIDE DEF k, ids, A
<1>8. ASSUME NEW i \in Id, committed'[i].source # "user"
      PROVE  Resolved(committed', i) = Shown(ReplayOf(i, ledger', ActiveIn(ledger')))
  <2>1. ReplayOf(i, ledger', ActiveIn(ledger')) = ReplayOf(i, ledger, A \ {k})
    <3>1. ReplayOf(i, [ledger EXCEPT ![k].reverted = TRUE], A \ {k}) = ReplayOf(i, ledger, A \ {k})
      BY <1>1, <1>3, ReplayMarked
    <3> QED
      BY <1>1, <1>6, <3>1
  <2>2. /\ ~UserOwned(i) /\ committed'[i] = View(t)[i]
        /\ owner[i] # t => committed'[i] = committed[i]
    BY <1>1, <1>8, CommitSeen
  <2>3. CASE i \in ids
    BY <1>2, <2>1, <2>2, <2>3 DEF Resolved
  <2>4. CASE i \notin ids
    <3>1. ReplayOf(i, ledger, A \ {k}) = ReplayOf(i, ledger, A)
      BY <1>1, <1>3, <2>4, ReplayElsewhere DEF ids
    <3>2. Resolved(committed', i) = Resolved(committed, i)
      BY <1>2, <2>2, <2>4 DEF Resolved
    <3>3. Resolved(committed, i) = Shown(ReplayOf(i, ledger, A))
      BY <2>2 DEF LInv, Explains, UserOwned, A
    <3> QED
      BY <2>1, <3>1, <3>2, <3>3
  <2> QED
    BY <2>3, <2>4
<1>9. ASSUME NEW j \in DOMAIN ledger'
      PROVE  Recorded(ledger'[j])
  <2>1. Recorded(ledger[j])
    BY <1>4 DEF LInv
  <2>2. CASE j = k
    <3>1. \A i \in Id : Explained(ledger'[k], i) = Explained(ledger[k], i)
      BY <1>7 DEF Explained
    <3> QED
      BY <1>7, <2>1, <2>2, <3>1 DEF Recorded
  <2>3. CASE j # k
    BY <1>4, <2>1, <2>3
  <2> QED
    BY <2>2, <2>3
<1>10. Explains(ledger, committed)'
  BY <1>8 DEF Explains, Resolved
<1> QED
  BY <1>9, <1>10

(* No batch: no drift row is left, so what no user owns is the baseline. *)
LEMMA ResetCommitAccount ==
  ASSUME LInv, NEW t \in Drifter, ResetCommit(t)
  PROVE  /\ Explains(ledger, committed)'
         /\ \A k \in DOMAIN ledger' : Recorded(ledger'[k])
<1>1. /\ IInv /\ pc[t] = "reset_write" /\ left[t] = {}
      /\ ledger' = <<>> /\ CommitRows(t)
  BY DEF LInv, ResetCommit
<1>2. ActiveIn(<<>>) = {} /\ DOMAIN <<>> = {}
  BY DEF ActiveIn
<1>3. ASSUME NEW i \in Id, committed'[i].source # "user"
      PROVE  Resolved(committed', i) = Shown(ReplayOf(i, ledger', ActiveIn(ledger')))
  <2>1. committed'[i] \in Row
    <3>1. committed'[i] = View(t)[i] /\ View(t)[i] \in Row
      BY <1>1, CommitSeen, ViewType DEF IInv, TypeInv, TypeOK
    <3> QED
      BY <3>1
  <2>2. committed'[i].source # "drift"
    BY <1>1 DEF CommitRows, View, LInv, StageOK, ResetOK
  <2>3. committed'[i].source = "none"
    BY <1>3, <2>1, <2>2 DEF Row
  <2>4. ReplayOf(i, ledger', ActiveIn(ledger')) = Start(i)
    BY <1>1, <1>2, ReplayEmpty
  <2> QED
    BY <2>3, <2>4 DEF Resolved, Shown, Start
<1>4. Explains(ledger, committed)'
  BY <1>3 DEF Explains, Resolved
<1> QED
  BY <1>1, <1>2, <1>4

-----------------------------------------------------------------------------
(* Every step of a drift command keeps what it knows and the account. *)
LEMMA DriftKeepsAccount ==
  ASSUME LInv, NEW u \in Drifter, DrifterNext(u), Track
  PROVE  LInv'
<1>1. IInv' /\ OneCommand'
  BY DrifterKeeps, OneCommandKept DEF LInv
<1>2. ASSUME NEW t \in Drifter \ {u}
      PROVE  StageOK(t)'
  <2>1. pc'[t] = "idle" /\ plan'[t] = plan[t] /\ pc[t] = "idle"
    BY OthersIdle
  <2>2. plan[t].minted = {}
    BY <2>1 DEF LInv, StageOK, ScanOK
  <2> QED
    BY <2>1, <2>2 DEF StageOK, ScanOK, RecsOK, WritesOK, VerifiedOK, RevertOK, ResetOK, Applying
<1>3. ASSUME StageOK(u)', committed' = committed, ledger' = ledger
      PROVE  LInv'
  BY <1>1, <1>2, <1>3 DEF LInv, Explains, Resolved
<1>4. ASSUME LeaveDrift(u), Explains(ledger, committed)',
             \A k \in DOMAIN ledger' : Recorded(ledger'[k])
      PROVE  LInv'
  <2>1. StageOK(u)'
    BY <1>4, StageLeft DEF LInv
  <2> QED
    BY <1>1, <1>2, <1>4, <2>1 DEF LInv
<1>5. CASE DriftArrives(u)
  <2>1. PICK first \in {"apply_read", "revert_read", "reset_scan"} : StartDrift(u, first)
    BY <1>5 DEF DriftArrives
  <2>2. /\ pc[u] = "idle" /\ pc'[u] = first /\ plan' = plan
        /\ committed' = committed /\ ledger' = ledger
    BY <2>1, PlanPhase DEF LInv, IInv, TypeInv, TypeOK, StartDrift, storeVars
  <2>3. plan[u].minted = {}
    BY <2>2 DEF LInv, StageOK, ScanOK
  <2>4. StageOK(u)'
    BY <2>2, <2>3 DEF StageOK, ScanOK, RecsOK, WritesOK, VerifiedOK, RevertOK, ResetOK, Applying
  <2> QED
    BY <1>3, <2>2, <2>4
<1>6. CASE AbortDrift(u) \/ RevertRefuse(u)
  <2>1. LeaveDrift(u) /\ committed' = committed /\ ledger' = ledger
    BY <1>6 DEF AbortDrift, RevertRefuse, RollbackRows
  <2>2. StageOK(u)'
    BY <2>1, StageLeft DEF LInv
  <2> QED
    BY <1>3, <2>1, <2>2
<1>7. CASE ApplyStep(u)
  <2>1. ASSUME NEW S \in Scopes, NEW D \in SUBSET FieldDeltas, NEW G \in SUBSET Id,
               ApplyRead(u, S, D, {Marker("gone", i) : i \in G})
        PROVE  LInv'
    BY <1>3, <2>1, ApplyReadStage DEF ApplyRead, storeVars
  <2>2. ASSUME NEW mints, ApplyMint(u, mints)
        PROVE  LInv'
    BY <1>3, <2>2, ApplyMintStage DEF ApplyMint, storeVars
  <2>3. CASE ApplyOwners(u)
    BY <1>3, <2>3, ApplyOwnersStage DEF ApplyOwners, storeVars
  <2>4. ASSUME NEW kind \in Kind, NEW i \in Id, ApplyUpsert(u, kind, i)
        PROVE  LInv'
    BY <1>3, <2>4, ApplyUpsertStage DEF ApplyUpsert, DriftUpsert, LockRow, WriteRow
  <2>5. CASE ApplyVerify(u)
    BY <1>3, <2>5, ApplyVerifyStage DEF ApplyVerify, storeVars, RollbackRows
  <2>6. CASE ApplyCommit(u)
    BY <1>4, <2>6, ApplyCommitAccount DEF ApplyCommit
  <2> QED
    BY <1>7, <2>1, <2>2, <2>3, <2>4, <2>5, <2>6 DEF ApplyStep
<1>8. CASE RevertStep(u)
  <2>1. ASSUME NEW k, RevertRead(u, k)
        PROVE  LInv'
    BY <1>3, <2>1, RevertReadStage DEF RevertRead, storeVars
  <2>2. ASSUME NEW i \in Id, RevertRow(u, i)
        PROVE  LInv'
    BY <1>3, <2>2, RevertRowStage
       DEF RevertRow, DeleteDriftRow, DriftUpsert, EraseRow, LockRow, WriteRow, storeVars
  <2>3. CASE RevertCommit(u)
    BY <1>4, <2>3, RevertCommitAccount DEF RevertCommit
  <2> QED
    BY <1>6, <1>8, <2>1, <2>2, <2>3 DEF RevertStep
<1>9. CASE ResetStep(u)
  <2>1. CASE ResetScan(u)
    BY <1>3, <2>1, ResetScanStage DEF ResetScan, storeVars
  <2>2. ASSUME NEW i \in Id, ResetRow(u, i)
        PROVE  LInv'
    BY <1>3, <2>2, ResetRowStage DEF ResetRow, EraseRow
  <2>3. CASE ResetCommit(u)
    BY <1>4, <2>3, ResetCommitAccount DEF ResetCommit
  <2> QED
    BY <1>9, <2>1, <2>2, <2>3 DEF ResetStep
<1> QED
  BY <1>5, <1>6, <1>7, <1>8, <1>9 DEF DrifterNext, DriftStep

(* The account holds at the start: nothing is overlaid and no batch is made. *)
LEMMA InitAccount == Init => LInv
<1> SUFFICES ASSUME Init PROVE LInv
  OBVIOUS
<1>1. IInv
  BY InitInv
<1>2. /\ \A t \in Drifter : pc[t] = "idle" /\ plan[t].minted = {}
      /\ \A i \in Id : committed[i].source = "none"
      /\ ledger = <<>>
  BY DEF Init, StoreInit, NoRow, NoPlan, Tx
<1>3. OneCommand
  BY <1>2 DEF OneCommand
<1>4. \A t \in Drifter : StageOK(t)
  BY <1>2, StageFresh
<1>5. ActiveIn(<<>>) = {} /\ DOMAIN <<>> = {}
  BY DEF ActiveIn
<1>6. Explains(ledger, committed)
  <2> SUFFICES ASSUME NEW i \in Id
               PROVE  Resolved(committed, i) = Shown(ReplayOf(i, ledger, ActiveIn(ledger)))
    BY DEF Explains
  <2>1. ReplayOf(i, ledger, ActiveIn(ledger)) = Start(i)
    BY <1>2, <1>5, ReplayEmpty
  <2> QED
    BY <1>2, <2>1 DEF Resolved, Shown, Start
<1> QED
  BY <1>1, <1>2, <1>3, <1>4, <1>5, <1>6 DEF LInv

(* The account is kept by every step. *)
LEMMA NextAccount == LInv /\ [Next]_vars => LInv'
<1> SUFFICES ASSUME LInv, [Next]_vars PROVE LInv'
  OBVIOUS
<1>1. CASE UNCHANGED vars
  <2>1. IInv'
    BY <1>1, NextInv DEF LInv
  <2>2. UNCHANGED <<committed, owner, pending, seq, pc, dlock, ledger, plan, left>>
    BY <1>1 DEF vars, storeVars, driftVars
  <2>3. \A t \in Drifter : StageOK(t)'
    BY <2>2, StageUndisturbed DEF LInv, UserOwned
  <2>4. OneCommand' /\ Explains(ledger, committed)'
    BY <2>2 DEF LInv, OneCommand, Explains, Resolved
  <2> QED
    BY <2>1, <2>2, <2>3, <2>4 DEF LInv
<1>2. ASSUME NEW t \in Client, ClientNext(t), Track
      PROVE  LInv'
  BY <1>2, RequestKeepsAccount
<1>3. ASSUME NEW t \in Drifter, DrifterNext(t), Track
      PROVE  LInv'
  BY <1>3, DriftKeepsAccount
<1>4. CASE DetectDeadlock /\ Track
  BY <1>2, <1>3, <1>4 DEF DetectDeadlock, ClientNext, DrifterNext
<1> QED
  BY <1>1, <1>2, <1>3, <1>4 DEF Next

(* The account holds in every state. *)
LEMMA AccountHolds == Spec => []LInv
  BY InitAccount, NextAccount, PTL DEF Spec

(* What is served for an id no user owns is the replay of the active batches *)
(* over the baseline, for any estate and any sequence of applies, reverts in *)
(* any order and resets, any ARM requests beside them: the rows apply        *)
(* verified and those revert recomputed agree with one deterministic replay  *)
(* (cli.py:1575-1696, 1986-2086).                                            *)
THEOREM LedgerExplains == Spec => []LedgerExplainsServedState
<1>1. LInv => LedgerExplainsServedState
  <2> SUFFICES ASSUME LInv, NEW i \in Id, committed[i].source # "user"
               PROVE  Resolved(committed, i) = Shown(Replay(i, Active))
    BY DEF LedgerExplainsServedState
  <2>1. ledger \in Seq(Batch)
    BY DEF LInv, IInv, TypeInv, TypeOK
  <2>2. Active = ActiveIn(ledger)
    BY DEF Active, ActiveIn
  <2>3. Replay(i, Active) = ReplayOf(i, ledger, ActiveIn(ledger))
    BY <2>1, <2>2, ReplayUnfolds
  <2> QED
    BY <2>3 DEF LInv, Explains
<1> QED
  BY <1>1, AccountHolds, PTL

(* Every batch of the ledger recorded what its own records make of its       *)
(* parent rows, an unrecorded minted leaf aside that a request created with  *)
(* the minted body first (cli.py:1669-1696).                                 *)
THEOREM RecordsExplain == Spec => []RecordsExplainResult
<1>1. LInv => RecordsExplainResult
  BY DEF LInv, Recorded, RecordsExplainResult
<1> QED
  BY <1>1, AccountHolds, PTL
-----------------------------------------------------------------------------
(* The refinement.  What a request and a drift command carry from their      *)
(* first statement to their commit, beyond what IInv and LInv say.           *)

DecidedPC == {"upsert", "gather_view", "gather_overlay", "tombstone", "cascade", "commit"}

(* The outcome of read_current was a pass, and the body it returned is still *)
(* that of a user-owned target.                                              *)
Decided(t) ==
    LET row == committed[req[t].id] IN
    /\ pc[t] = "idle" => req[t] = NoRequest
    /\ pc[t] \in DecidedPC =>
        /\ EvaluatePrecondition(req[t].im, req[t].inm, current_etag(cur[t]))
        /\ req[t].op = "PATCH" => cur[t].kind \in {"overlay", "baseline"}
        /\ row.source = "user" /\ row.present => cur[t].body = row.body

(* A request locks nothing but its target and what is below it, and its      *)
(* uncommitted rows are new and what it was asked for.                       *)
Intends(t) ==
    LET i == req[t].id IN
    /\ pc[t] \in {"gather_overlay", "tombstone", "cascade"} => sweep[t] \subseteq Below[i]
    /\ pc[t] = "commit" /\ req[t].op # "DELETE" =>
        /\ \A j \in Id : owner[j] = t <=> j = i
        /\ pending[i].present /\ pending[i].body = WrittenBody(t)
    /\ pc[t] \in ClientRowPC => \A j \in Id : owner[j] = t => pending[j] # committed[j]
    /\ pc[t] \in ClientRowPC /\ req[t].op = "DELETE" =>
        /\ owner[i] = t
        /\ \A j \in Id : owner[j] = t => j \in {i} \cup Below[i] /\ ~pending[j].present

(* apply removes no row. *)
Adds(t) == pc[t] \in {"apply_write", "apply_commit"} =>
    \A i \in Id : owner[i] = t => pending[i].source # "none"

RefineInv ==
    /\ LInv
    /\ \A t \in Client : Decided(t) /\ Intends(t)
    /\ \A t \in Drifter : Adds(t)

(* A pass of read_current is a decision that holds. *)
LEMMA SettleDecides ==
  ASSUME IInv, NEW t \in Client, NEW c \in Current, Settle(t, c),
         LET row == committed[req[t].id]
         IN  row.source = "user" /\ row.present => c.body = row.body
  PROVE  Decided(t)' /\ Intends(t)'
<1>0. t \in Tx /\ t \in DOMAIN pc /\ t \in DOMAIN cur /\ t \in DOMAIN req
  BY DEF IInv, TypeInv, TypeOK, WriteTypeOK, Tx
<1>1. CASE LeaveWrite(t)
  BY <1>0, <1>1 DEF LeaveWrite, Decided, Intends, DecidedPC, ClientRowPC
<1>2. CASE /\ EvaluatePrecondition(req[t].im, req[t].inm, current_etag(c))
           /\ req[t].op = "PATCH" => c.kind \in {"overlay", "baseline"}
           /\ cur' = [cur EXCEPT ![t] = c]
           /\ pc' = [pc EXCEPT ![t] = IF req[t].op = "DELETE" THEN "gather_view" ELSE "upsert"]
           /\ UNCHANGED <<storeVars, wlock, req, sweep, requests>>
  <2>1. /\ cur'[t] = c /\ req' = req /\ committed' = committed
        /\ pc'[t] \in {"gather_view", "upsert"}
    BY <1>0, <1>2 DEF storeVars
  <2> QED
    BY <1>2, <2>1 DEF Decided, Intends, ClientRowPC
<1> QED
  BY <1>1, <1>2 DEF Settle

(* A row about to be committed differs from the one it replaces. *)
LEMMA WriteIsNew ==
  ASSUME IInv, NEW t \in Tx, NEW j \in Id, NEW row \in Row, row.source = "user",
         WriteRow(t, j, row)
  PROVE  pending'[j] # committed'[j]
<1> USE DEF IInv, TypeInv, TypeOK, StoreTypeOK
<1>1. pending'[j].source = "user" /\ pending'[j].revision = seq + 1 /\ committed' = committed
  BY DEF WriteRow, Row
<1>2. committed[j].source = "user" => committed[j].revision <= seq
  BY DEF RevOK
<1> QED
  BY <1>1, <1>2 DEF Row

(* A request's own step keeps what it carries. *)
LEMMA OwnStepCarries ==
  ASSUME IInv, NEW t \in Client, Decided(t), Intends(t), ClientNext(t)
  PROVE  Decided(t)' /\ Intends(t)'
<1> DEFINE id  == req[t].id
           row == committed[id]
<1>0. /\ t \in Tx /\ t # NoTx /\ pc \in [Tx -> ClientPC \cup DrifterPC] /\ StoreTypeOK /\ LockOK
      /\ req \in [Client -> Request \cup {NoRequest}] /\ sweep \in [Client -> SUBSET Id]
      /\ Fresh(t) /\ Swept(t)
  BY StoreAssumption DEF IInv, TypeInv, TypeOK, WriteTypeOK, Tx, ReadsOK, SweepOK
<1>1. pc[t] # "idle" => id \in Id /\ row \in Row /\ WellFormed(row)
  BY <1>0 DEF IInv, TypeInv, PhaseOK, Request, StoreTypeOK
<1>2. ASSUME ClientArrives(t) \/ TakeWriteLock(t)
      PROVE  Decided(t)' /\ Intends(t)'
  <2>1. pc'[t] \in {"queued", "read_overlay"}
    BY <1>0, <1>2 DEF ClientArrives, Submit, TakeWriteLock
  <2> QED
    BY <2>1 DEF Decided, DecidedPC, Intends, ClientRowPC
<1>3. ASSUME CommitWrite(t) \/ AbortWrite(t)
      PROVE  Decided(t)' /\ Intends(t)'
  <2>1. pc'[t] = "idle" /\ req'[t] = NoRequest
    BY <1>0, <1>3 DEF CommitWrite, AbortWrite, LeaveWrite
  <2> QED
    BY <2>1 DEF Decided, DecidedPC, Intends, ClientRowPC
<1>4. ASSUME NEW label \in {"read_view", "read_tombstone"}, pc' = [pc EXCEPT ![t] = label]
      PROVE  Decided(t)' /\ Intends(t)'
  <2>1. pc'[t] = label
    BY <1>0, <1>4
  <2> QED
    BY <2>1 DEF Decided, DecidedPC, Intends, ClientRowPC
<1>5. ASSUME ReadOverlay(t)
      PROVE  Decided(t)' /\ Intends(t)'
  <2>1. CASE row.present /\ Settle(t, [kind |-> "overlay", revision |-> row.revision, body |-> row.body])
    <3>1. [kind |-> "overlay", revision |-> row.revision, body |-> row.body] \in Current
      BY <1>1, <1>5 DEF ReadOverlay, Row, Current
    <3> QED
      BY <2>1, <3>1, SettleDecides
  <2> QED
    BY <1>4, <1>5, <2>1 DEF ReadOverlay
<1>6. ASSUME ReadView(t)
      PROVE  Decided(t)' /\ Intends(t)'
  <2> DEFINE b == Resolved(committed, id)
  <2>1. pc[t] = "read_view" /\ (row.source = "user" => ~row.present)
    BY <1>0, <1>6 DEF ReadView, Fresh
  <2>2. CASE Settle(t, [kind |-> "baseline", revision |-> 0, body |-> b])
    <3>1. [kind |-> "baseline", revision |-> 0, body |-> b] \in Current
      BY <1>0, <1>1, <2>1, ResolvedType DEF Current, StoreTypeOK
    <3> QED
      BY <2>1, <2>2, <3>1, SettleDecides
  <2> QED
    BY <1>4, <1>6, <2>2 DEF ReadView
<1>7. ASSUME ReadTombstone(t)
      PROVE  Decided(t)' /\ Intends(t)'
  <2> DEFINE k == IF row.source # "none" /\ ~row.present THEN "tombstoned" ELSE "absent"
  <2>1. row.source = "user" => ~row.present
    BY <1>0, <1>7 DEF ReadTombstone, Fresh
  <2>2. [kind |-> k, revision |-> 0, body |-> NoBody] \in Current
    BY DEF Current
  <2>3. Settle(t, [kind |-> k, revision |-> 0, body |-> NoBody])
    BY <1>7 DEF ReadTombstone
  <2> QED
    BY <2>1, <2>2, <2>3, SettleDecides
<1>8. ASSUME GatherView(t) \/ GatherOverlay(t)
      PROVE  Decided(t)' /\ Intends(t)'
  <2>1. /\ pc[t] \in {"gather_view", "gather_overlay"}
        /\ pc'[t] \in {"gather_overlay", "tombstone"} /\ UNCHANGED <<storeVars, req, cur>>
        /\ sweep'[t] \subseteq Below[id]
    BY <1>0, <1>8 DEF GatherView, GatherOverlay, Intends
  <2>2. committed' = committed
    BY <2>1 DEF storeVars
  <2> QED
    BY <2>1, <2>2 DEF Decided, DecidedPC, Intends, ClientRowPC
<1>9. ASSUME UpsertPresent(t)
      PROVE  Decided(t)' /\ Intends(t)'
  <2>1. /\ pc[t] = "upsert" /\ pc'[t] = "commit" /\ UNCHANGED <<committed, req, cur>>
        /\ WriteRow(t, id, PresentRow("user", WrittenBody(t)))
    BY <1>0, <1>9 DEF UpsertPresent, WriteRow, writeVars
  <2>2. req[t].op # "DELETE" /\ \A j \in Id : owner[j] # t
    BY <1>0, <2>1 DEF Swept, LockOK, ClientRowPC
  <2>3. /\ owner' = [owner EXCEPT ![id] = t]
        /\ pending'[id] = [PresentRow("user", WrittenBody(t)) EXCEPT !.revision = seq + 1]
    BY <1>0, <1>1, <2>1 DEF WriteRow, StoreTypeOK
  <2>4. pending'[id].present /\ pending'[id].body = WrittenBody(t)
    BY <2>3 DEF PresentRow
  <2>5. \A j \in Id : owner'[j] = t <=> j = id
    BY <1>0, <1>1, <2>1, <2>2, <2>3 DEF StoreTypeOK
  <2>6. WrittenBody(t)' = WrittenBody(t)
    BY <2>1 DEF WrittenBody
  <2>7. pending'[id] # committed'[id]
    BY <1>0, <1>1, <2>1, WriteIsNew, PresentRowType, WrittenBodyType DEF IInv
  <2> QED
    BY <2>1, <2>2, <2>4, <2>5, <2>6, <2>7 DEF Decided, DecidedPC, Intends
<1>10. ASSUME NEW j \in Id, WriteRow(t, j, Tombstone("user")), UNCHANGED <<req, cur>>,
              pc[t] \in {"tombstone", "cascade"}, pc'[t] \in ClientRowPC,
              sweep'[t] \subseteq Below[id],
              IF pc[t] = "tombstone" THEN j = id ELSE j \in Below[id]
       PROVE  Decided(t)' /\ Intends(t)'
  <2>1. req[t].op = "DELETE" /\ committed' = committed
    BY <1>0, <1>10 DEF Swept, SweepPC, WriteRow
  <2>2. /\ owner' = [owner EXCEPT ![j] = t]
        /\ pending' = [pending EXCEPT ![j] = [Tombstone("user") EXCEPT !.revision = seq + 1]]
    BY <1>10 DEF WriteRow
  <2>3. ~pending'[j].present /\ owner'[j] = t
    BY <1>0, <2>2 DEF Tombstone, StoreTypeOK
  <2>4. \A k \in Id \ {j} : owner'[k] = owner[k] /\ pending'[k] = pending[k]
    BY <1>0, <2>2 DEF StoreTypeOK
  <2>5. pc[t] = "tombstone" => \A k \in Id : owner[k] # t
    BY <1>0 DEF LockOK, ClientRowPC
  <2>6. pc[t] = "cascade" =>
           owner[id] = t /\ \A k \in Id : owner[k] = t => k \in {id} \cup Below[id] /\ ~pending[k].present
    BY <2>1 DEF Intends, ClientRowPC
  <2>7. id \in Id
    BY <1>1, <1>10
  <2>8. /\ owner'[id] = t
        /\ \A k \in Id : owner'[k] = t => k \in {id} \cup Below[id] /\ ~pending'[k].present
    BY <1>10, <2>3, <2>4, <2>5, <2>6, <2>7
  <2>9. \A k \in Id : owner'[k] = t => pending'[k] # committed'[k]
    <3>1. pending'[j] # committed'[j]
      BY <1>0, <1>10, WriteIsNew, TombstoneType
    <3>2. pc[t] = "cascade" => \A k \in Id : owner[k] = t => pending[k] # committed[k]
      BY DEF Intends, ClientRowPC
    <3> QED
      BY <1>10, <2>1, <2>4, <2>5, <3>1, <3>2
  <2> QED
    BY <1>10, <2>1, <2>8, <2>9 DEF Decided, DecidedPC, Intends, ClientRowPC
<1>11. ASSUME TombstoneTarget(t)
       PROVE  Decided(t)' /\ Intends(t)'
  <2>1. /\ pc[t] = "tombstone" /\ UNCHANGED <<req, cur, sweep>> /\ pc'[t] \in ClientRowPC
        /\ WriteRow(t, id, Tombstone("user"))
    BY <1>0, <1>11 DEF TombstoneTarget, writeVars, ClientRowPC
  <2> QED
    BY <1>1, <1>10, <2>1 DEF Intends
<1>12. ASSUME NEW d \in Id, TombstoneDescendant(t, d)
       PROVE  Decided(t)' /\ Intends(t)'
  <2>1. /\ pc[t] = "cascade" /\ UNCHANGED <<req, cur>> /\ pc'[t] \in ClientRowPC
        /\ d \in sweep[t] /\ sweep'[t] = sweep[t] \ {d} /\ WriteRow(t, d, Tombstone("user"))
    BY <1>0, <1>12 DEF TombstoneDescendant, ClientRowPC
  <2> QED
    BY <1>10, <2>1 DEF Intends
<1> QED
  BY <1>2, <1>3, <1>5, <1>6, <1>7, <1>8, <1>9, <1>11, <1>12 DEF ClientNext, WriteStep

(* Steps of the other requests leave what a request carries alone. *)
LEMMA OtherStepCarries ==
  ASSUME IInv, NEW t \in Client, ClientNext(t), NEW u \in Client \ {t}, Decided(u), Intends(u)
  PROVE  Decided(u)' /\ Intends(u)'
<1>1. ClientMove(t) /\ Others(t)
  BY ClientMoves DEF IInv
<1>2. pc'[u] = pc[u] /\ req'[u] = req[u] /\ cur'[u] = cur[u] /\ sweep'[u] = sweep[u]
  BY <1>1, OtherRequestsKeep
<1>3. CASE pc[u] \in {"idle", "queued"}
  BY <1>2, <1>3 DEF Decided, Intends, DecidedPC, ClientRowPC
<1>4. CASE pc[u] \notin {"idle", "queued"}
  <2>1. committed' = committed /\ \A i \in Id : owner'[i] = owner[i] /\ pending'[i] = pending[i]
    BY <1>1, <1>4, OtherRequestsKeep
  <2>2. req[u].id \in Id
    BY <1>4 DEF IInv, TypeInv, PhaseOK, Request
  <2>3. WrittenBody(u)' = WrittenBody(u)
    BY <1>2 DEF WrittenBody
  <2> QED
    BY <1>2, <2>1, <2>2, <2>3 DEF Decided, Intends
<1> QED
  BY <1>3, <1>4

(* A drift step leaves what a request carries alone. *)
LEMMA DriftStepCarries ==
  ASSUME IInv, NEW u \in Drifter, DrifterNext(u), NEW t \in Client, Decided(t), Intends(t)
  PROVE  Decided(t)' /\ Intends(t)'
<1>1. DriftMove(u) /\ UNCHANGED writeVars /\ \A v \in Tx \ {u} : pc'[v] = pc[v]
  BY DrifterMoves DEF IInv
<1>2. pc'[t] = pc[t] /\ req' = req /\ cur' = cur /\ sweep' = sweep
  BY <1>1, StoreAssumption DEF writeVars, Tx
<1>3. /\ \A i \in Id : owner[i] = t \/ owner'[i] = t =>
            owner'[i] = owner[i] /\ pending'[i] = pending[i] /\ committed'[i] = committed[i]
      /\ \A i \in Id : committed'[i].source = "user" => committed'[i] = committed[i]
  BY <1>1, DriftLeavesRequests
<1>4. pc[t] # "idle" => req[t].id \in Id
  BY DEF IInv, TypeInv, PhaseOK, Request
<1>5. WrittenBody(t)' = WrittenBody(t)
  BY <1>2 DEF WrittenBody
<1>6. Decided(t)'
  BY <1>2, <1>3, <1>4 DEF Decided, DecidedPC
<1>7. Intends(t)'
  <2>1. pc[t] = "commit" /\ req[t].op # "DELETE" => \A j \in Id : owner'[j] = t <=> j = req[t].id
    BY <1>3 DEF Intends
  <2> QED
    BY <1>2, <1>3, <1>4, <1>5, <2>1 DEF Intends, ClientRowPC
<1> QED
  BY <1>6, <1>7

(* An apply locks rows only to rewrite them, or to leave them to their user. *)
LEMMA AddsKept ==
  ASSUME LInv, NEW u \in Drifter, DrifterNext(u), Adds(u)
  PROVE  Adds(u)'
<1>0. /\ u \in Tx /\ u # NoTx /\ pc \in [Tx -> ClientPC \cup DrifterPC] /\ StoreTypeOK /\ LockOK
  BY PlanPhase, StoreAssumption DEF LInv, IInv, TypeInv, TypeOK
<1>1. CASE pc'[u] \notin {"apply_write", "apply_commit"}
  BY <1>1 DEF Adds
<1>2. CASE ApplyOwners(u)
  <2>1. UNCHANGED storeVars /\ \A i \in Id : owner[i] # u
    BY <1>0, <1>2 DEF ApplyOwners, LockOK, DrifterRowPC
  <2> QED
    BY <2>1 DEF Adds, storeVars
<1>3. ASSUME NEW kind \in Kind, NEW i \in Id, ApplyUpsert(u, kind, i)
      PROVE  Adds(u)'
  <2> DEFINE row == CASE kind = "field" -> PresentRow("drift", Drifted(plan[u].parent[i], i, plan[u].recs))
                      [] kind = "gone"  -> Tombstone("drift")
                      [] OTHER          -> PresentRow("drift", MintBody)
  <2>1. pc[u] = "apply_write" /\ DriftUpsert(u, i, row) /\ row.source = "drift"
    BY <1>3 DEF ApplyUpsert, PresentRow, Tombstone
  <2> HIDE DEF row
  <2>2. pending'[i].source # "none"
    <3>1. CASE View(u)[i].source = "user" /\ LockRow(u, i)
      <4>1. pending'[i] = View(u)[i]
        BY <1>0, <3>1 DEF LockRow, StoreTypeOK
      <4> QED
        BY <3>1, <4>1
    <3>2. CASE WriteRow(u, i, row)
      <4>1. pending'[i] = [row EXCEPT !.revision = seq + 1]
        BY <1>0, <3>2 DEF WriteRow, StoreTypeOK
      <4> QED
        BY <2>1, <4>1
    <3> QED
      BY <2>1, <3>1, <3>2 DEF DriftUpsert
  <2>3. \A j \in Id \ {i} : owner'[j] = owner[j] /\ pending'[j] = pending[j]
    BY <1>0, <2>1 DEF DriftUpsert, LockRow, WriteRow, StoreTypeOK
  <2> QED
    BY <2>1, <2>2, <2>3 DEF Adds
<1>4. CASE ApplyVerify(u) /\ UNCHANGED storeVars
  BY <1>4 DEF Adds, ApplyVerify, storeVars
<1>5. ASSUME pc'[u] \in {"apply_write", "apply_commit"}
      PROVE  \/ ApplyOwners(u)
             \/ ApplyVerify(u) /\ UNCHANGED storeVars
             \/ \E kind \in Kind, i \in Id : ApplyUpsert(u, kind, i)
  <2>1. ~DriftArrives(u) /\ ~AbortDrift(u) /\ ~ResetStep(u)
    BY <1>0, <1>5 DEF DriftArrives, StartDrift, AbortDrift, LeaveDrift, ResetStep, ResetScan,
                      ResetRow, ResetCommit
  <2>2. ~RevertStep(u)
    BY <1>0, <1>5 DEF LeaveDrift, RevertStep, RevertRefuse, RevertRead, RevertRow, RevertCommit
  <2>3. ApplyStep(u)
    BY <2>1, <2>2 DEF DrifterNext, DriftStep
  <2>4. \A S, D, G : ~ApplyRead(u, S, D, G)
    BY <1>0, <1>5 DEF ApplyRead
  <2>5. \A M : ~ApplyMint(u, M)
    BY <1>0, <1>5 DEF ApplyMint
  <2>6. ~ApplyCommit(u)
    BY <1>0, <1>5 DEF ApplyCommit, LeaveDrift
  <2>7. ApplyVerify(u) => UNCHANGED storeVars
    BY <1>0, <1>5 DEF ApplyVerify, LeaveDrift
  <2> QED
    BY <2>3, <2>4, <2>5, <2>6, <2>7 DEF ApplyStep
<1> QED
  BY <1>1, <1>2, <1>3, <1>4, <1>5

(* What the commits rest on holds in every state. *)
LEMMA RefineInitial == Init => RefineInv
<1> SUFFICES ASSUME Init PROVE RefineInv
  OBVIOUS
<1>1. LInv
  BY InitAccount
<1>2. \A t \in Tx : pc[t] = "idle"
  BY DEF Init
<1>3. \A t \in Client : Decided(t) /\ Intends(t)
  BY <1>2 DEF Init, WriteInit, Decided, DecidedPC, Intends, ClientRowPC, Tx
<1> QED
  BY <1>1, <1>2, <1>3 DEF RefineInv, Adds, Tx

LEMMA RefineInductive == RefineInv /\ [Next]_vars => RefineInv'
<1> SUFFICES ASSUME RefineInv, [Next]_vars PROVE RefineInv'
  OBVIOUS
<1>1. LInv' /\ LInv /\ IInv
  BY NextAccount DEF RefineInv, LInv
<1>2. CASE UNCHANGED vars
  <2>1. UNCHANGED <<committed, owner, pending, pc, req, cur, sweep>>
    BY <1>2 DEF vars, storeVars, writeVars
  <2> QED
    BY <1>1, <2>1 DEF RefineInv, Decided, Intends, WrittenBody, Adds
<1>3. ASSUME NEW t \in Client, ClientNext(t)
      PROVE  RefineInv'
  <2>1. \A u \in Client : Decided(u)' /\ Intends(u)'
    BY <1>1, <1>3, OwnStepCarries, OtherStepCarries DEF RefineInv
  <2>2. ASSUME NEW u \in Drifter
        PROVE  Adds(u)'
    <3>1. pc'[u] = pc[u]
      BY <1>1, <1>3, ClientMoves, StoreAssumption DEF IInv, Others, Tx
    <3>2. \A i \in Id : owner'[i] = u => owner[i] = u /\ pending'[i] = pending[i]
      BY <1>1, <1>3, RequestEffect
    <3> QED
      BY <3>1, <3>2 DEF RefineInv, Adds
  <2> QED
    BY <1>1, <2>1, <2>2 DEF RefineInv
<1>4. ASSUME NEW u \in Drifter, DrifterNext(u)
      PROVE  RefineInv'
  <2>1. \A t \in Client : Decided(t)' /\ Intends(t)'
    BY <1>1, <1>4, DriftStepCarries DEF RefineInv
  <2>2. \A t \in Drifter \ {u} : pc'[t] = "idle"
    BY <1>1, <1>4, OthersIdle
  <2>3. Adds(u)'
    BY <1>1, <1>4, AddsKept DEF RefineInv
  <2> QED
    BY <1>1, <2>1, <2>2, <2>3 DEF RefineInv, Adds
<1>5. CASE DetectDeadlock
  BY <1>3, <1>4, <1>5 DEF DetectDeadlock, ClientNext, DrifterNext
<1> QED
  BY <1>2, <1>3, <1>4, <1>5 DEF Next

(* Every changed row carries a revision its id never had. *)
LEMMA StepRestamps ==
  ASSUME IInv, IInv', Next
  PROVE  Atomic!Restamp
<1>1. ASSUME NEW i \in Id, committed'[i] # committed[i], committed'[i] # NoRow
      PROVE  committed'[i].revision > lastRev[i]
  <2>1. WellFormed(committed'[i])
    BY DEF IInv, TypeInv, TypeOK, StoreTypeOK
  <2>2. committed'[i].source # "none"
    BY <1>1, <2>1 DEF WellFormed
  <2>3. owner[i] # NoTx /\ committed'[i] = pending[i]
    BY <1>1, ChangeIsCommit, StoreAssumption
  <2> QED
    BY <1>1, <2>2, <2>3 DEF IInv, RevOK
<1>2. Track
  BY DEF Next
<1> QED
  BY <1>1, <1>2 DEF Track, Atomic!Restamp, Atomic!Changed

(* A step that leaves the table alone leaves its stamps alone. *)
LEMMA SameStamps ==
  ASSUME IInv, Track, committed' = committed
  PROVE  lastRev' = lastRev
<1>1. \A i \in Id : lastRev[i] = IF committed[i].source # "none"
                                 THEN committed[i].revision ELSE lastRev[i]
  BY DEF IInv, RevOK
<1>2. lastRev = [i \in Id |-> lastRev[i]]
  BY DEF IInv, TypeInv, TypeOK
<1> QED
  BY <1>1, <1>2 DEF Track

(* At its commit a request over a user-owned row is permitted by that row. *)
LEMMA CommitPermitted ==
  ASSUME IInv, NEW t \in Client, pc[t] = "commit", Decided(t)
  PROVE  Atomic!Permitted(req[t], committed[req[t].id])
<1> DEFINE r   == req[t]
           row == committed[r.id]
<1>1. EvaluatePrecondition(r.im, r.inm, current_etag(cur[t]))
      /\ (r.op = "PATCH" => cur[t].kind \in {"overlay", "baseline"})
  BY DEF Decided, DecidedPC
<1>2. row.source = "user" => Remembers(t, row)
  BY DEF IInv, ReadsOK, Fresh
<1>3. CASE row.source = "user" /\ row.present
  <2>1. current_etag(cur[t]) = overlay_etag(row.revision)
    BY <1>2, <1>3 DEF Remembers, current_etag
  <2>2. overlay_etag(row.revision) # NoToken
    BY DEF overlay_etag, NoToken
  <2> QED
    BY <1>1, <1>3, <2>1, <2>2
    DEF EvaluatePrecondition, overlay_etag, Atomic!Permitted, Atomic!Named
<1>4. CASE row.source = "user" /\ ~row.present
  <2>1. cur[t].kind = "tombstoned" /\ current_etag(cur[t]) = NoToken
    BY <1>2, <1>4 DEF Remembers, current_etag
  <2> QED
    BY <1>1, <1>4, <2>1 DEF EvaluatePrecondition, Atomic!Permitted, Atomic!Named
<1> QED
  BY <1>3, <1>4 DEF Atomic!Permitted

(* The commit of a request is its one step. *)
LEMMA CommitIsAtomic ==
  ASSUME RefineInv, IInv', Next, NEW t \in Client, CommitWrite(t), UNCHANGED driftVars
  PROVE  Atomic!PutOrPatch(t) \/ Atomic!Delete(t)
<1> DEFINE r   == req[t]
           row == committed[r.id]
<1>0. /\ IInv /\ LockOK /\ StoreTypeOK /\ Decided(t) /\ Intends(t) /\ Swept(t) /\ pc[t] = "commit"
      /\ r \in Request /\ (r.op = "PUT" => r.fields = Field)
      /\ r.id \in Id /\ Below[r.id] \subseteq Id
  <2>1. pc[t] = "commit" /\ IInv
    BY DEF CommitWrite, RefineInv, LInv
  <2> QED
    BY <2>1, StoreAssumption
    DEF RefineInv, IInv, SweepOK, TypeInv, TypeOK, PhaseOK, Request
<1>1. /\ \A i \in Id : committed'[i] = IF owner[i] = t THEN pending[i] ELSE committed[i]
      /\ req' = [req EXCEPT ![t] = NoRequest]
      /\ UNCHANGED ledger
  BY DEF CommitWrite, CommitRows, View, LeaveWrite, driftVars
<1>2. Atomic!Restamp /\ Atomic!Permitted(r, row) /\ Atomic!Answer(t)
  BY <1>0, <1>1, StepRestamps, CommitPermitted DEF Atomic!Answer
<1>3. \A i \in Id : owner[i] = t =>
         /\ pending[i] \in Row /\ WellFormed(pending[i]) /\ pending[i].source = "user"
         /\ pending[i] # committed[i]
  BY <1>0 DEF LockOK, StoreTypeOK, Intends, ClientRowPC
<1>4. Atomic!Changed = {i \in Id : owner[i] = t}
  BY <1>1, <1>3 DEF Atomic!Changed
<1>5. CASE r.op # "DELETE"
  <2>1. /\ Atomic!Changed = {r.id} /\ owner[r.id] = t
        /\ pending[r.id].present /\ pending[r.id].body = WrittenBody(t)
    BY <1>0, <1>4, <1>5 DEF Intends
  <2>2. WrittenBody(t) \in Body
    BY <1>0, <1>3, <2>1 DEF Row, WellFormed
  <2>3. ASSUME NEW f \in Field, f \notin r.fields, row.source = "user"
        PROVE  WrittenBody(t)[f] = row.body[f]
    <3>1. r.op = "PATCH"
      BY <1>0, <1>5, <2>3 DEF Request
    <3>2. row.present
      BY <1>2, <2>3, <3>1 DEF Atomic!Permitted
    <3>3. cur[t].body = row.body
      BY <1>0, <2>3, <3>2 DEF Decided, DecidedPC
    <3> QED
      BY <2>3, <3>3 DEF WrittenBody
  <2>4. \A f \in r.fields : f \in Field => WrittenBody(t)[f] = r.body[f]
    BY DEF WrittenBody
  <2>5. WrittenBody(t) \in Atomic!Stored(r, row)
    BY <2>2, <2>3, <2>4 DEF Atomic!Stored
  <2>6. /\ committed'[r.id].source = "user" /\ committed'[r.id].present
        /\ committed'[r.id].body \in Atomic!Stored(r, row)
    BY <1>0, <1>1, <1>3, <2>1, <2>5
  <2>7. r.op \in {"PUT", "PATCH"}
    BY <1>0, <1>5 DEF Request
  <2> QED
    BY <1>1, <1>2, <2>1, <2>6, <2>7 DEF Atomic!PutOrPatch
<1>6. CASE r.op = "DELETE"
  <2>1. /\ owner[r.id] = t
        /\ \A i \in Id : owner[i] = t => i \in {r.id} \cup Below[r.id] /\ ~pending[i].present
    BY <1>0, <1>6 DEF Intends, ClientRowPC
  <2>2. \A i \in Atomic!Changed : committed'[i].source = "user" /\ ~committed'[i].present
    BY <1>1, <1>3, <1>4, <2>1
  <2>3. ASSUME NEW d \in Below[r.id], committed[d].source = "user"
        PROVE  ~committed'[d].present
    <3>1. View(t)[d].source = "user" => ~View(t)[d].present
      BY <1>0, <1>6, <2>3 DEF Swept, SweepPC
    <3>2. View(t)[d] = committed'[d]
      BY <1>0, <1>1, <2>3 DEF View
    <3>3. committed'[d].source = "user"
      BY <1>0, <1>1, <1>3, <2>3
    <3> QED
      BY <3>1, <3>2, <3>3
  <2> QED
    BY <1>0, <1>1, <1>2, <1>4, <1>6, <2>1, <2>2, <2>3 DEF Atomic!Delete, Atomic!UserOwned
<1> QED
  BY <1>5, <1>6

(* Every other step of a request is its arrival, its refusal, or nothing to  *)
(* a reader of the table.                                                    *)
LEMMA RequestStepAtomic ==
  ASSUME RefineInv, IInv', Next, NEW t \in Client, ClientNext(t), Track
  PROVE  [Atomic!Next]_(Atomic!vars)
<1>0. IInv /\ t \in Tx /\ UNCHANGED driftVars /\ req \in [Client -> Request \cup {NoRequest}]
  BY DEF RefineInv, LInv, ClientNext, IInv, TypeInv, TypeOK, WriteTypeOK, Tx
<1>1. CASE ClientArrives(t)
  <2>1. PICK r : req' = [req EXCEPT ![t] = r] /\ committed' = committed /\ pc[t] = "idle"
                 /\ pc'[t] = "queued"
    BY <1>0, <1>1 DEF ClientArrives, Submit, storeVars, IInv, TypeInv, TypeOK
  <2>2. req[t] = NoRequest /\ req'[t] \in Request /\ req' = [req EXCEPT ![t] = req'[t]]
    BY <1>0, <2>1 DEF RefineInv, Decided, IInv, TypeInv, PhaseOK
  <2>3. Atomic!Ask(t)
    BY <1>0, <2>1, <2>2, SameStamps DEF Atomic!Ask, driftVars
  <2> QED
    BY <2>3 DEF Atomic!Next
<1>2. ASSUME RollbackRows(t), LeaveWrite(t), pc[t] # "idle"
      PROVE  [Atomic!Next]_(Atomic!vars)
  <2>1. committed' = committed /\ lastRev' = lastRev
    BY <1>0, <1>2, SameStamps DEF RollbackRows
  <2>2. req[t] # NoRequest
    BY <1>0, <1>2 DEF IInv, TypeInv, PhaseOK, Request, NoRequest
  <2>3. Atomic!Refuse(t)
    BY <1>0, <1>2, <2>1, <2>2 DEF LeaveWrite, Atomic!Refuse, Atomic!Answer, driftVars
  <2> QED
    BY <2>3 DEF Atomic!Next
<1>3. ASSUME committed' = committed, req' = req
      PROVE  [Atomic!Next]_(Atomic!vars)
  BY <1>0, <1>3, SameStamps DEF Atomic!vars, driftVars
<1>4. ASSUME NEW c, Settle(t, c), pc[t] # "idle"
      PROVE  [Atomic!Next]_(Atomic!vars)
  BY <1>2, <1>3, <1>4 DEF Settle, storeVars
<1>5. CASE CommitWrite(t)
  BY <1>0, <1>5, CommitIsAtomic DEF Atomic!Next
<1>6. CASE AbortWrite(t)
  BY <1>2, <1>6 DEF AbortWrite
<1>7. CASE ReadOverlay(t) \/ ReadView(t) \/ ReadTombstone(t)
  BY <1>3, <1>4, <1>7 DEF ReadOverlay, ReadView, ReadTombstone, storeVars, writeVars
<1>8. CASE \/ TakeWriteLock(t) \/ GatherView(t) \/ GatherOverlay(t) \/ UpsertPresent(t)
           \/ TombstoneTarget(t) \/ \E d \in Id : TombstoneDescendant(t, d)
  BY <1>3, <1>8 DEF TakeWriteLock, GatherView, GatherOverlay, UpsertPresent, TombstoneTarget,
                    TombstoneDescendant, WriteRow, storeVars, writeVars
<1> QED
  BY <1>1, <1>5, <1>6, <1>7, <1>8 DEF ClientNext, WriteStep

-----------------------------------------------------------------------------
(* The rows a drift command changes at its commit are those it locked and    *)
(* rewrote; none of them is user-owned, unless it is a reset.                *)
LEMMA DriftCommitChanges ==
  ASSUME IInv, NEW u \in Drifter, CommitRows(u), NEW i \in Atomic!Changed
  PROVE  /\ i \in Id /\ owner[i] = u /\ committed'[i] = pending[i]
         /\ pending[i] \in Row /\ WellFormed(pending[i]) /\ pending[i].source # "user"
         /\ pc[u] # "reset_write" => committed[i].source # "user"
<1>1. i \in Id /\ committed'[i] # committed[i]
  BY DEF Atomic!Changed
<1>2. committed'[i] = IF owner[i] = u THEN pending[i] ELSE committed[i]
  BY <1>1 DEF CommitRows, View
<1>3. /\ pending[i].source = "user" => pending[i] = committed[i]
      /\ committed[i].source = "user" /\ pc[u] # "reset_write" => pending[i] = committed[i]
  BY <1>1, <1>2 DEF IInv, LockOK
<1> QED
  BY <1>1, <1>2, <1>3 DEF IInv, TypeInv, TypeOK, StoreTypeOK

(* Which batches of a ledger are reverted, as batches enter and leave it. *)
Flags(L) == [k \in DOMAIN L |-> L[k].reverted]

LEMMA FlagsAppended ==
  ASSUME NEW L \in Seq(Batch), NEW b \in Batch, NEW e \in BOOLEAN, b.reverted = e
  PROVE  Flags(Append(L, b)) = Append(Flags(L), e)
<1>1. Flags(L) \in [1..Len(L) -> BOOLEAN] /\ Len(L) \in Nat /\ DOMAIN L = 1..Len(L)
  <2>1. L \in [1..Len(L) -> Batch] /\ Len(L) \in Nat
    BY LenProperties
  <2>2. \A k \in 1..Len(L) : L[k].reverted \in BOOLEAN
    BY <2>1 DEF Batch
  <2> QED
    BY <2>1, <2>2 DEF Flags
<1>2. Flags(L) \in Seq(BOOLEAN)
  BY <1>1
<1>3. Len(Flags(L)) = Len(L)
  BY <1>1, <1>2
<1>4. /\ Append(L, b) \in Seq(Batch) /\ Len(Append(L, b)) = Len(L) + 1
      /\ \A k \in 1..Len(L) : Append(L, b)[k] = L[k]
      /\ Append(L, b)[Len(L) + 1] = b
  BY AppendProperties
<1>5. /\ Append(Flags(L), e) \in Seq(BOOLEAN) /\ Len(Append(Flags(L), e)) = Len(L) + 1
      /\ \A k \in 1..Len(L) : Append(Flags(L), e)[k] = Flags(L)[k]
      /\ Append(Flags(L), e)[Len(L) + 1] = e
  <2> DEFINE F == Flags(L)
  <2>1. F \in Seq(BOOLEAN) /\ Len(F) = Len(L)
    BY <1>2, <1>3
  <2> HIDE DEF F
  <2>2. Append(F, e) \in Seq(BOOLEAN) /\ Len(Append(F, e)) = Len(F) + 1
        /\ (\A k \in 1..Len(F) : Append(F, e)[k] = F[k]) /\ Append(F, e)[Len(F) + 1] = e
    BY <2>1, AppendProperties
  <2> QED
    BY <2>1, <2>2 DEF F
<1>6. DOMAIN Append(L, b) = 1..(Len(L) + 1)
      /\ Append(Flags(L), e) = [k \in 1..(Len(L) + 1) |-> Append(Flags(L), e)[k]]
  <2>1. ASSUME NEW S, NEW s \in Seq(S)
        PROVE  s = [k \in 1..Len(s) |-> s[k]] /\ DOMAIN s = 1..Len(s)
    BY <2>1, LenProperties
  <2> QED
    BY <1>4, <1>5, <2>1
<1>7. \A k \in 1..(Len(L) + 1) : Append(L, b)[k].reverted = Append(Flags(L), e)[k]
  <2> SUFFICES ASSUME NEW k \in 1..(Len(L) + 1)
               PROVE  Append(L, b)[k].reverted = Append(Flags(L), e)[k]
    OBVIOUS
  <2>1. k \in 1..Len(L) => Flags(L)[k] = L[k].reverted
    BY <1>1 DEF Flags
  <2> QED
    <3>1. CASE k = Len(L) + 1
      BY <1>4, <1>5, <3>1
    <3>2. CASE k # Len(L) + 1
      <4>1. k \in 1..Len(L)
        BY <1>1, <3>2
      <4> QED
        BY <1>1, <1>4, <1>5, <2>1, <4>1
    <3> QED
      BY <3>1, <3>2
<1> QED
  BY <1>6, <1>7 DEF Flags

LEMMA FlagsMarked ==
  ASSUME NEW L \in Seq(Batch), NEW k \in ActiveIn(L)
  PROVE  /\ k \in DOMAIN Flags(L) /\ ~Flags(L)[k]
         /\ Flags([L EXCEPT ![k].reverted = TRUE]) = [Flags(L) EXCEPT ![k] = TRUE]
<1>1. k \in DOMAIN L /\ ~L[k].reverted /\ \A j \in DOMAIN L : L[j] \in Batch
  BY DEF ActiveIn
<1> QED
  BY <1>1 DEF Flags, Batch

LEMMA ApplyIsAtomic ==
  ASSUME RefineInv, IInv', Next, NEW u \in Drifter, ApplyCommit(u), UNCHANGED writeVars
  PROVE  Atomic!Apply
<1>0. IInv /\ Adds(u) /\ pc[u] = "apply_commit" /\ CommitRows(u) /\ ledger \in Seq(Batch)
  BY PlanPhase DEF RefineInv, LInv, IInv, ApplyCommit
<1>1. ASSUME NEW i \in Atomic!Changed
      PROVE  committed[i].source # "user" /\ committed'[i].source = "drift"
  BY <1>0, DriftCommitChanges DEF Adds, Row
<1> DEFINE b == [recs |-> plan[u].recs, parent |-> plan[u].parent,
                 result |-> plan[u].result, reverted |-> FALSE]
<1>2. ledger' = Append(ledger, b) /\ b \in Batch /\ b.reverted = FALSE
  BY <1>0, PlanPhase DEF ApplyCommit, IInv, Plan, Batch
<1> HIDE DEF b
<1>3. Flags(ledger)' = Append(Flags(ledger), FALSE)
  <2>1. Flags(Append(ledger, b)) = Append(Flags(ledger), FALSE)
    BY <1>0, <1>2, FlagsAppended
  <2>2. Flags(ledger)' = Flags(ledger')
    BY DEF Flags
  <2> QED
    BY <1>2, <2>1, <2>2
<1> QED
  BY <1>0, <1>1, <1>3, StepRestamps DEF Atomic!Apply, Atomic!UserOwned, Flags, writeVars

LEMMA RevertIsAtomic ==
  ASSUME RefineInv, IInv', Next, NEW u \in Drifter, RevertCommit(u), UNCHANGED writeVars
  PROVE  Atomic!Revert
<1> DEFINE k == plan[u].target
<1>0. /\ IInv /\ StageOK(u) /\ pc[u] = "revert_write" /\ CommitRows(u) /\ ledger \in Seq(Batch)
      /\ ledger' = [ledger EXCEPT ![k].reverted = TRUE]
  BY PlanPhase DEF RefineInv, LInv, IInv, RevertCommit
<1>1. ASSUME NEW i \in Atomic!Changed
      PROVE  committed[i].source # "user" /\ (committed'[i] = NoRow \/ committed'[i].source = "drift")
  BY <1>0, DriftCommitChanges DEF Row, WellFormed
<1>2. k \in ActiveIn(ledger)
  BY <1>0 DEF StageOK, RevertOK
<1> HIDE DEF k
<1>3. /\ k \in DOMAIN Flags(ledger) /\ ~Flags(ledger)[k]
      /\ Flags(ledger)' = [Flags(ledger) EXCEPT ![k] = TRUE]
  <2>1. ledger \in Seq(Batch) /\ ledger' = [ledger EXCEPT ![k].reverted = TRUE]
    BY <1>0
  <2>2. /\ k \in DOMAIN Flags(ledger) /\ ~Flags(ledger)[k]
        /\ Flags([ledger EXCEPT ![k].reverted = TRUE]) = [Flags(ledger) EXCEPT ![k] = TRUE]
    BY <1>2, <2>1, FlagsMarked
  <2>3. Flags(ledger)' = Flags(ledger')
    BY DEF Flags
  <2> QED
    BY <2>1, <2>2, <2>3
<1> QED
  BY <1>0, <1>1, <1>3, StepRestamps DEF Atomic!Revert, Atomic!UserOwned, Flags, writeVars

LEMMA ResetIsAtomic ==
  ASSUME RefineInv, IInv', Next, NEW u \in Drifter, ResetCommit(u), UNCHANGED writeVars
  PROVE  Atomic!Reset
<1>0. /\ IInv /\ ResetOK(u) /\ pc[u] = "reset_write" /\ left[u] = {} /\ CommitRows(u)
      /\ ledger' = <<>>
  BY DEF RefineInv, LInv, StageOK, ResetCommit
<1>1. ASSUME NEW i \in Atomic!Changed
      PROVE  committed'[i] = NoRow
  BY <1>0, DriftCommitChanges DEF ResetOK, WellFormed
<1>2. ASSUME NEW i \in Id
      PROVE  committed'[i].source # "drift"
  <2>1. committed'[i] = IF owner[i] = u THEN pending[i] ELSE committed[i]
    BY <1>0 DEF CommitRows, View
  <2> QED
    BY <1>0, <2>1 DEF ResetOK
<1>3. Flags(ledger)' = <<>>
  BY <1>0 DEF Flags
<1> QED
  BY <1>0, <1>1, <1>2, <1>3, StepRestamps DEF Atomic!Reset, Flags, writeVars

(* Every other step of a drift command is nothing to a reader of the table.  *)
LEMMA DriftStepAtomic ==
  ASSUME RefineInv, IInv', Next, NEW u \in Drifter, DrifterNext(u), Track
  PROVE  [Atomic!Next]_(Atomic!vars)
<1>0. IInv /\ UNCHANGED writeVars
  BY DEF RefineInv, LInv, DrifterNext
<1>1. CASE ApplyCommit(u) \/ RevertCommit(u) \/ ResetCommit(u)
  BY <1>0, <1>1, ApplyIsAtomic, RevertIsAtomic, ResetIsAtomic DEF Atomic!Next
<1>2. CASE ~(ApplyCommit(u) \/ RevertCommit(u) \/ ResetCommit(u))
  <2>1. ledger' = ledger
    BY <1>2
    DEF DrifterNext, DriftArrives, StartDrift, DriftStep, ApplyStep, RevertStep, ResetStep,
        ApplyRead, ApplyMint, ApplyOwners, ApplyUpsert, ApplyVerify, RevertRefuse,
        RevertRead, RevertRow, ResetScan, ResetRow, AbortDrift
  <2>2. committed' = committed
    BY <1>2
    DEF DrifterNext, DriftArrives, StartDrift, DriftStep, ApplyStep, RevertStep, ResetStep,
        ApplyRead, ApplyMint, ApplyOwners, ApplyUpsert, ApplyVerify, RevertRefuse,
        RevertRead, RevertRow, ResetScan, ResetRow, AbortDrift, DriftUpsert, DeleteDriftRow,
        LockRow, WriteRow, EraseRow, RollbackRows, storeVars
  <2> QED
    BY <1>0, <2>1, <2>2, SameStamps DEF Atomic!vars, writeVars
<1> QED
  BY <1>1, <1>2

(* To a reader of the table the write plane and the drift commands are the   *)
(* atomic overlay, whatever the estate, the number of requests and of drift  *)
(* processes: every request is one compare-and-swap over a user-owned row or *)
(* is refused, a DELETE takes its subtree in one step, and a batch enters or *)
(* leaves the ledger together with its rows (resource_write.rs:525-674,      *)
(* cli.py:1258-1407, 1752-1990).                                             *)
THEOREM OverlayImplementsAtomic == Spec => OverlayIsAtomic
<1>1. Init => Atomic!Init
  BY DEF Init, StoreInit, WriteInit, Atomic!Init
<1>2. RefineInv /\ RefineInv' /\ [Next]_vars => [Atomic!Next]_(Atomic!vars)
  <2> SUFFICES ASSUME RefineInv, RefineInv', [Next]_vars PROVE [Atomic!Next]_(Atomic!vars)
    OBVIOUS
  <2>1. IInv /\ IInv'
    BY DEF RefineInv, LInv
  <2>2. CASE UNCHANGED vars
    BY <2>2 DEF vars, storeVars, writeVars, driftVars, Atomic!vars
  <2>3. ASSUME NEW t \in Client, ClientNext(t), Next
        PROVE  [Atomic!Next]_(Atomic!vars)
    BY <2>1, <2>3, RequestStepAtomic DEF Next
  <2>4. ASSUME NEW u \in Drifter, DrifterNext(u), Next
        PROVE  [Atomic!Next]_(Atomic!vars)
    BY <2>1, <2>4, DriftStepAtomic DEF Next
  <2>5. CASE DetectDeadlock /\ Next
    BY <2>3, <2>4, <2>5 DEF DetectDeadlock, ClientNext, DrifterNext
  <2> QED
    BY <2>2, <2>3, <2>4, <2>5 DEF Next
<1> QED
  BY <1>1, <1>2, RefineInitial, RefineInductive, PTL DEF Spec, OverlayIsAtomic, Atomic!Spec
=============================================================================
