-------------------------- MODULE SubscriptionPool --------------------------
(***************************************************************************)
(* pipeline._run_subscriptions: the subscriptions are built by a pool of   *)
(* processes that take chunks of the index range, or by the caller itself  *)
(* when one job is asked for or there is one subscription.  A worker hands *)
(* a chunk back whole; the caller reads the results in index order.        *)
(***************************************************************************)
EXTENDS Naturals, Sequences

CONSTANTS
    N,          \* the number of subscriptions
    Builds,     \* Builds[i]: what substream i may make of subscription i
    Jobs,       \* the values of --jobs; 0 is one per processor
    Cpus,       \* os.cpu_count()
    Chunk,      \* bound: indices per task (8 in the code)
    None,       \* no result yet
    MayCrash    \* whether a worker process may die

ASSUME PoolAssumption ==
    /\ N \in Nat /\ Jobs \subseteq Nat
    /\ Cpus \in Nat \ {0} /\ Chunk \in Nat \ {0}
    /\ \A i \in 1..N : None \notin Builds[i]
    /\ MayCrash \in BOOLEAN

VARIABLES
    sample,     \* sample[i]: the outcome substream i determines
    claimed,    \* indices handed out so far
    worker,     \* worker[w]: the chunk lo..hi process w works on, at the next to build
    result,     \* result[i]: a delivered subscription not read yet
    merged,     \* what the caller has read, in order
    status      \* "building", "built" or "failed"

poolVars == <<sample, claimed, worker, result, merged, status>>

Subscriptions == 1..N
Outcome == UNION {Builds[i] : i \in Subscriptions}

(* The processes the caller settles for; none, when it builds by itself.    *)
effective(jobs) == IF jobs = 0 \/ jobs > Cpus THEN Cpus ELSE jobs
Processes(jobs) == IF effective(jobs) = 1 \/ N <= 1 THEN {} ELSE 1..effective(jobs)

(* Mutant: a stream of random numbers per process instead of per index.     *)
Substream_PerWorker(i, k) == sample[k]

(* The k-th build of a process draws from the child seed of its index i,    *)
(* spawned before any process runs.                                         *)
Substream(i, k) == sample[i]

Idle == [lo |-> 1, at |-> 1, hi |-> 0]

PoolInit ==
    /\ sample \in {s \in [Subscriptions -> Outcome] : \A i \in Subscriptions : s[i] \in Builds[i]}
    /\ claimed = 0
    /\ \E jobs \in Jobs : worker = [w \in Processes(jobs) |-> Idle]
    /\ result = [i \in Subscriptions |-> None]
    /\ merged = <<>>
    /\ status = "building"

(* The loop of the caller, with no pool.                                    *)
BuildInProcess ==
    /\ status = "building"
    /\ DOMAIN worker = {}
    /\ claimed < N
    /\ merged' = Append(merged, Substream(claimed + 1, claimed + 1))
    /\ claimed' = claimed + 1
    /\ UNCHANGED <<sample, worker, result, status>>

(* A free process takes the next chunk of the index range.                  *)
Claim(w) ==
    LET last == IF claimed + Chunk > N THEN N ELSE claimed + Chunk IN
    /\ status = "building"
    /\ worker[w] = Idle
    /\ claimed < N
    /\ worker' = [worker EXCEPT ![w] = [lo |-> claimed + 1, at |-> claimed + 1, hi |-> last]]
    /\ claimed' = last
    /\ UNCHANGED <<sample, result, merged, status>>

(* _pool_worker on the next index of its chunk.                             *)
_pool_worker(w) ==
    /\ status = "building"
    /\ worker[w].at <= worker[w].hi
    /\ worker' = [worker EXCEPT ![w].at = @ + 1]
    /\ UNCHANGED <<sample, claimed, result, merged, status>>

(* A finished chunk comes back as one message.                              *)
Deliver(w) ==
    LET chunk == worker[w] IN
    /\ status = "building"
    /\ chunk # Idle
    /\ chunk.at > chunk.hi
    /\ result' = [i \in Subscriptions |->
                    IF chunk.lo <= i /\ i <= chunk.hi THEN Substream(i, i - chunk.lo + 1)
                    ELSE result[i]]
    /\ worker' = [worker EXCEPT ![w] = Idle]
    /\ UNCHANGED <<sample, claimed, merged, status>>

(* ex.map yields in index order, waiting for the next index, and keeps      *)
(* nothing it has yielded.                                                  *)
Read ==
    /\ status = "building"
    /\ Len(merged) < N
    /\ result[Len(merged) + 1] # None
    /\ merged' = Append(merged, result[Len(merged) + 1])
    /\ result' = [result EXCEPT ![Len(merged) + 1] = None]
    /\ UNCHANGED <<sample, claimed, worker, status>>

(* The pool is shut down; sorting what was read by index moves nothing.     *)
Merge ==
    /\ status = "building"
    /\ Len(merged) = N
    /\ status' = "built"
    /\ worker' = <<>>
    /\ UNCHANGED <<sample, claimed, result, merged>>

(* Mutant: a dead process is replaced, and its chunk begun again, for ever. *)
Crash_Retries(w) ==
    /\ MayCrash
    /\ status = "building"
    /\ worker[w] # Idle
    /\ worker' = [worker EXCEPT ![w].at = worker[w].lo]
    /\ UNCHANGED <<sample, claimed, result, merged, status>>

(* A process dies: BrokenProcessPool ends the call, with no partial list.   *)
Crash(w) ==
    /\ MayCrash
    /\ status = "building"
    /\ worker[w] # Idle
    /\ status' = "failed"
    /\ UNCHANGED <<sample, claimed, worker, result, merged>>

WorkerStep == \E w \in DOMAIN worker : Claim(w) \/ _pool_worker(w) \/ Deliver(w)

PoolStep == BuildInProcess \/ Read \/ Merge \/ WorkerStep

PoolNext == PoolStep \/ \E w \in DOMAIN worker : Crash(w)

PoolSpec == PoolInit /\ [][PoolNext]_poolVars /\ WF_poolVars(PoolStep)

(* The one loop that the pool stands for.                                   *)
Sequential == INSTANCE SequentialSubscriptions WITH built <- merged
=============================================================================
