----------------------- MODULE SubscriptionPool_proofs -----------------------
(***************************************************************************)
(* The pool of _run_subscriptions implements the loop of                   *)
(* SequentialSubscriptions: for any number of subscriptions, jobs,         *)
(* processors and any size of a chunk, every step of the pool is a step of *)
(* the loop or leaves what the caller has read alone.                      *)
(***************************************************************************)
EXTENDS SubscriptionPool, TLAPS

PoolTypeOK ==
    /\ sample \in [Subscriptions -> Outcome]
    /\ \A i \in Subscriptions : sample[i] \in Builds[i]
    /\ claimed \in 0..N
    /\ worker \in [DOMAIN worker -> [lo : Nat, at : Nat, hi : Nat]]
    /\ result \in [Subscriptions -> Outcome \cup {None}]
    /\ merged \in Seq(Outcome) /\ Len(merged) <= N
    /\ status \in {"building", "built", "failed"}

(* What lies ready to be read came from the stream of its own index.        *)
Delivered == \A i \in Subscriptions : result[i] # None => result[i] = sample[i]

(* The caller has read the first indices, in order.                         *)
ReadInOrder == \A j \in 1..Len(merged) : merged[j] = sample[j]

(* Without a pool nothing is handed out ahead of what is merged.            *)
Alone ==
    status = "building" /\ DOMAIN worker = {} =>
        claimed = Len(merged) /\ \A i \in Subscriptions : result[i] = None

PoolInv == PoolTypeOK /\ Delivered /\ ReadInOrder /\ Alone

-----------------------------------------------------------------------------
(* Appending what belongs at the next index keeps the order.                *)
LEMMA AppendInOrder ==
    ASSUME PoolInv, Len(merged) < N, merged' = Append(merged, sample[Len(merged) + 1]),
           sample' = sample
    PROVE  merged' \in Seq(Outcome) /\ Len(merged') = Len(merged) + 1 /\ Len(merged') <= N
           /\ ReadInOrder'
  <1>1. N \in Nat /\ merged \in Seq(Outcome) /\ Len(merged) \in Nat
    BY PoolAssumption DEF PoolInv, PoolTypeOK
  <1>2. Len(merged) + 1 \in Subscriptions
    BY <1>1 DEF Subscriptions
  <1>3. sample[Len(merged) + 1] \in Outcome
    BY <1>2 DEF PoolInv, PoolTypeOK
  <1>4. merged' \in Seq(Outcome) /\ Len(merged') = Len(merged) + 1 /\ Len(merged') <= N
    BY <1>1, <1>3
  <1>5. ASSUME NEW j \in 1..Len(merged')
        PROVE  merged'[j] = sample'[j]
    <2>1. CASE j = Len(merged) + 1
      BY <1>1, <1>3, <2>1
    <2>2. CASE j # Len(merged) + 1
      <3>1. j \in 1..Len(merged)
        BY <1>1, <1>4, <2>2
      <3>2. merged'[j] = merged[j]
        BY <1>1, <1>3, <3>1
      <3> QED
        BY <3>1, <3>2 DEF PoolInv, ReadInOrder
    <2> QED
      BY <2>1, <2>2
  <1> QED
    BY <1>4, <1>5 DEF ReadInOrder

LEMMA InitInvariant == PoolInit => PoolInv
  <1> SUFFICES ASSUME PoolInit PROVE PoolInv
    OBVIOUS
  <1>1. N \in Nat
    BY PoolAssumption
  <1>2. PoolTypeOK
    <2>1. sample \in [Subscriptions -> Outcome] /\ \A i \in Subscriptions : sample[i] \in Builds[i]
      BY DEF PoolInit
    <2>2. worker \in [DOMAIN worker -> [lo : Nat, at : Nat, hi : Nat]]
      BY DEF PoolInit, Idle
    <2>3. merged \in Seq(Outcome) /\ Len(merged) <= N
      BY <1>1 DEF PoolInit
    <2> QED
      BY <1>1, <2>1, <2>2, <2>3 DEF PoolInit, PoolTypeOK
  <1>3. Delivered /\ ReadInOrder /\ Alone
    BY DEF PoolInit, Delivered, ReadInOrder, Alone
  <1> QED
    BY <1>2, <1>3 DEF PoolInv

(* The loop of the caller takes the stream of the next index.               *)
LEMMA LoopStep == PoolInv /\ BuildInProcess => PoolInv' /\ Sequential!Build
  <1> SUFFICES ASSUME PoolInv, BuildInProcess PROVE PoolInv' /\ Sequential!Build
    OBVIOUS
  <1>1. claimed = Len(merged) /\ Len(merged) < N
    BY DEF PoolInv, Alone, BuildInProcess
  <1>2. merged' = Append(merged, sample[Len(merged) + 1]) /\ sample' = sample /\ status' = status
    BY <1>1 DEF BuildInProcess, Substream
  <1>3. merged' \in Seq(Outcome) /\ Len(merged') = Len(merged) + 1 /\ Len(merged') <= N /\ ReadInOrder'
    BY <1>1, <1>2, AppendInOrder
  <1>4. PoolTypeOK'
    BY <1>1, <1>3, PoolAssumption DEF PoolInv, PoolTypeOK, BuildInProcess
  <1>5. Delivered' /\ Alone'
    BY <1>1, <1>3 DEF PoolInv, Delivered, Alone, BuildInProcess
  <1>6. Sequential!Build
    BY <1>1, <1>2 DEF BuildInProcess, Sequential!Build
  <1> QED
    BY <1>3, <1>4, <1>5, <1>6 DEF PoolInv

(* What the caller reads from the pool is the next of the loop.             *)
LEMMA ReadStep == PoolInv /\ Read => PoolInv' /\ Sequential!Build
  <1> SUFFICES ASSUME PoolInv, Read PROVE PoolInv' /\ Sequential!Build
    OBVIOUS
  <1>1. Len(merged) < N /\ Len(merged) + 1 \in Subscriptions
    BY PoolAssumption DEF PoolInv, PoolTypeOK, Read, Subscriptions
  <1>2. result[Len(merged) + 1] = sample[Len(merged) + 1]
    BY <1>1 DEF PoolInv, Delivered, Read
  <1>3. merged' = Append(merged, sample[Len(merged) + 1]) /\ sample' = sample /\ status' = status
    BY <1>2 DEF Read
  <1>4. merged' \in Seq(Outcome) /\ Len(merged') <= N /\ ReadInOrder'
    BY <1>1, <1>3, AppendInOrder
  <1>5. PoolTypeOK'
    BY <1>4 DEF PoolInv, PoolTypeOK, Read
  <1>6. Delivered'
    BY DEF PoolInv, PoolTypeOK, Delivered, Read
  <1>7. DOMAIN worker # {}
    BY <1>1 DEF PoolInv, Alone, Read
  <1>8. Alone'
    BY <1>7 DEF Alone, Read
  <1>9. Sequential!Build
    BY <1>1, <1>3 DEF Read, Sequential!Build
  <1> QED
    BY <1>4, <1>5, <1>6, <1>8, <1>9 DEF PoolInv

LEMMA MergeStep == PoolInv /\ Merge => PoolInv' /\ Sequential!Finish
  <1> SUFFICES ASSUME PoolInv, Merge PROVE PoolInv' /\ Sequential!Finish
    OBVIOUS
  <1>1. PoolTypeOK'
    BY DEF PoolInv, PoolTypeOK, Merge
  <1>2. Delivered' /\ ReadInOrder' /\ Alone'
    BY DEF PoolInv, Delivered, ReadInOrder, Alone, Merge
  <1>3. Sequential!Finish
    BY DEF Merge, Sequential!Finish
  <1> QED
    BY <1>1, <1>2, <1>3 DEF PoolInv

(* A process hands back what the streams of its indices determine; a claim, *)
(* a build and a delivery change nothing the caller has read.               *)
LEMMA WorkerSteps == PoolInv /\ WorkerStep => PoolInv' /\ UNCHANGED Sequential!vars
  <1> SUFFICES ASSUME PoolInv, NEW w \in DOMAIN worker, Claim(w) \/ _pool_worker(w) \/ Deliver(w)
               PROVE  PoolInv' /\ UNCHANGED Sequential!vars
    BY DEF WorkerStep
  <1>1. DOMAIN worker' = DOMAIN worker /\ sample' = sample /\ merged' = merged /\ status' = status
    BY DEF Claim, _pool_worker, Deliver
  <1>2. ReadInOrder' /\ Alone'
    BY <1>1 DEF PoolInv, ReadInOrder, Alone
  <1>3. worker[w] \in [lo : Nat, at : Nat, hi : Nat]
    BY DEF PoolInv, PoolTypeOK
  <1>4. CASE Claim(w)
    <2> DEFINE last == IF claimed + Chunk > N THEN N ELSE claimed + Chunk
    <2>1. last \in 0..N /\ [lo |-> claimed + 1, at |-> claimed + 1, hi |-> last]
                                \in [lo : Nat, at : Nat, hi : Nat]
      BY PoolAssumption DEF PoolInv, PoolTypeOK
    <2>2. claimed' = last
          /\ worker' = [worker EXCEPT ![w] = [lo |-> claimed + 1, at |-> claimed + 1, hi |-> last]]
      BY <1>4 DEF Claim
    <2> HIDE DEF last
    <2>3. PoolTypeOK'
      BY <1>1, <1>4, <2>1, <2>2 DEF PoolInv, PoolTypeOK, Claim
    <2>4. Delivered'
      BY <1>1, <1>4 DEF PoolInv, Delivered, Claim
    <2>5. UNCHANGED Sequential!vars
      BY <1>1 DEF Sequential!vars
    <2> QED
      BY <1>2, <2>3, <2>4, <2>5 DEF PoolInv
  <1>5. CASE _pool_worker(w)
    <2> DEFINE next == [worker[w] EXCEPT !.at = @ + 1]
    <2>1. next \in [lo : Nat, at : Nat, hi : Nat] /\ worker' = [worker EXCEPT ![w] = next]
      BY <1>3, <1>5 DEF _pool_worker
    <2> HIDE DEF next
    <2>2. worker' \in [DOMAIN worker' -> [lo : Nat, at : Nat, hi : Nat]]
      BY <1>1, <2>1 DEF PoolInv, PoolTypeOK
    <2>3. PoolTypeOK'
      BY <1>1, <1>5, <2>2 DEF PoolInv, PoolTypeOK, _pool_worker
    <2> QED
      BY <1>1, <1>2, <1>5, <2>3 DEF PoolInv, Delivered, _pool_worker, Sequential!vars
  <1>6. CASE Deliver(w)
    <2>1. result' = [i \in Subscriptions |->
                        IF worker[w].lo <= i /\ i <= worker[w].hi THEN sample[i] ELSE result[i]]
      BY <1>6 DEF Deliver, Substream
    <2>2. result' \in [Subscriptions -> Outcome \cup {None}] /\ Delivered'
      BY <1>1, <2>1 DEF PoolInv, PoolTypeOK, Delivered
    <2>3. PoolTypeOK'
      BY <1>1, <1>6, <2>2 DEF PoolInv, PoolTypeOK, Deliver, Idle
    <2> QED
      BY <1>1, <1>2, <2>2, <2>3 DEF PoolInv, Sequential!vars
  <1> QED
    BY <1>4, <1>5, <1>6

LEMMA CrashStep ==
    ASSUME PoolInv, NEW w \in DOMAIN worker, Crash(w)
    PROVE  PoolInv' /\ Sequential!Fail
  <1>1. PoolTypeOK'
    BY DEF PoolInv, PoolTypeOK, Crash
  <1>2. Delivered' /\ ReadInOrder' /\ Alone'
    BY DEF PoolInv, Delivered, ReadInOrder, Alone, Crash
  <1>3. Sequential!Fail
    BY DEF Crash, Sequential!Fail
  <1> QED
    BY <1>1, <1>2, <1>3 DEF PoolInv

LEMMA StepRefines == PoolInv /\ [PoolNext]_poolVars => PoolInv' /\ [Sequential!Next]_Sequential!vars
  <1> SUFFICES ASSUME PoolInv, [PoolNext]_poolVars PROVE PoolInv' /\ [Sequential!Next]_Sequential!vars
    OBVIOUS
  <1>1. CASE BuildInProcess
    BY <1>1, LoopStep DEF Sequential!Next
  <1>2. CASE Read
    BY <1>2, ReadStep DEF Sequential!Next
  <1>3. CASE Merge
    BY <1>3, MergeStep DEF Sequential!Next
  <1>4. CASE WorkerStep
    BY <1>4, WorkerSteps
  <1>5. CASE \E w \in DOMAIN worker : Crash(w)
    BY <1>5, CrashStep DEF Sequential!Next
  <1>6. CASE UNCHANGED poolVars
    BY <1>6 DEF PoolInv, PoolTypeOK, Delivered, ReadInOrder, Alone, poolVars, Sequential!vars
  <1> QED
    BY <1>1, <1>2, <1>3, <1>4, <1>5, <1>6 DEF PoolNext, PoolStep

LEMMA InitRefines == PoolInit => Sequential!Init
  BY DEF PoolInit, Sequential!Init, Subscriptions, Outcome

-----------------------------------------------------------------------------
(* Whatever the number of processes, the size of the chunks, the order they *)
(* finish in and the moment one dies, the caller sees the behaviour of the  *)
(* loop over the subscriptions: pipeline._run_subscriptions is, step for    *)
(* step, SequentialSubscriptions.                                           *)
THEOREM PoolImplementsLoop == PoolSpec => Sequential!Init /\ [][Sequential!Next]_Sequential!vars
  <1>1. PoolInit => PoolInv /\ Sequential!Init
    BY InitInvariant, InitRefines
  <1>2. PoolInv /\ [PoolNext]_poolVars => PoolInv' /\ [Sequential!Next]_Sequential!vars
    BY StepRefines
  <1> QED
    BY <1>1, <1>2, PTL DEF PoolSpec

(* "the bytes it produces are a pure function of (seed, i)": what has been  *)
(* merged is, in index order, what the streams of the indices determine.    *)
THEOREM MergedInIndexOrder == PoolSpec => []ReadInOrder
  <1>1. PoolInit => PoolInv
    BY InitInvariant
  <1>2. PoolInv /\ [PoolNext]_poolVars => PoolInv'
    BY StepRefines
  <1>3. PoolInv => ReadInOrder
    BY DEF PoolInv
  <1> QED
    BY <1>1, <1>2, <1>3, PTL DEF PoolSpec
=============================================================================
