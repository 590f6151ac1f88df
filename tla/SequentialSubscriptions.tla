----------------------- MODULE SequentialSubscriptions -----------------------
(***************************************************************************)
(* What _run_subscriptions promises for any number of jobs: subscription i *)
(* is a function of substream i alone, and they arrive in index order, as  *)
(* the in-process loop builds them.  The loop fails only as a whole.       *)
(***************************************************************************)
EXTENDS Naturals, Sequences

CONSTANTS N, Builds

VARIABLES sample, built, status

vars == <<sample, built, status>>

Init ==
    /\ sample \in {s \in [1..N -> UNION {Builds[i] : i \in 1..N}] :
                    \A i \in 1..N : s[i] \in Builds[i]}
    /\ built = <<>>
    /\ status = "building"

Build ==
    /\ status = "building"
    /\ Len(built) < N
    /\ built' = Append(built, sample[Len(built) + 1])
    /\ UNCHANGED <<sample, status>>

Finish ==
    /\ status = "building"
    /\ Len(built) = N
    /\ status' = "built"
    /\ UNCHANGED <<sample, built>>

Fail ==
    /\ status = "building"
    /\ status' = "failed"
    /\ UNCHANGED <<sample, built>>

Next == Build \/ Finish \/ Fail

Spec == Init /\ [][Next]_vars /\ WF_vars(Next)
=============================================================================
