---------------------------- MODULE AtomicOverlay ----------------------------
(***************************************************************************)
(* What the writers of arm_overlay promise to whoever reads the table: each *)
(* ARM request and each drift command changes it in one step or not at all. *)
(* There are no locks, no statements and no uncommitted rows here.          *)
(*                                                                         *)
(* A request is atomic towards the other requests.  Towards drift it is so  *)
(* only over rows that were user-owned already: apply and revert run beside *)
(* a request that has read its target, and may change a row no user owns    *)
(* before the request takes it.                                             *)
(***************************************************************************)
EXTENDS Naturals, Sequences

CONSTANTS Client, Id, Below, Field, Body, NoBody, NoRow, Request, NoRequest

VARIABLES
    table,    \* the rows
    stamp,    \* stamp[i]: the highest revision a row of i has carried
    asked,    \* asked[t]: the request client t waits for the answer of
    undone    \* undone[k]: has batch k of the ledger been reverted

vars == <<table, stamp, asked, undone>>

UserOwned(i) == table[i].source = "user"
Changed == {i \in Id : table'[i] # table[i]}

(* The rows that change carry revisions never seen before on their ids.     *)
Restamp ==
    /\ \A i \in Changed : table'[i] # NoRow => table'[i].revision > stamp[i]
    /\ stamp' = [i \in Id |-> IF table'[i].source # "none" THEN table'[i].revision ELSE stamp[i]]

Answer(t) == asked' = [asked EXCEPT ![t] = NoRequest]

-----------------------------------------------------------------------------
(* A request is compare-and-swap over a user-owned row: the headers are     *)
(* judged against the very row the request replaces, and PATCH fills the    *)
(* fields it does not name from that row.                                   *)
Named(header, row) ==
    /\ row.present
    /\ \/ header.wildcard
       \/ [domain |-> "o", revision |-> row.revision, body |-> NoBody] \in header.strong

Permitted(r, row) ==
    row.source = "user" =>
        /\ r.im.given => Named(r.im, row)
        /\ r.inm.given => ~Named(r.inm, row)
        /\ r.op = "PATCH" => row.present

Stored(r, row) ==
    {b \in Body : \A f \in Field :
        \/ f \in r.fields /\ b[f] = r.body[f]
        \/ f \notin r.fields /\ (row.source = "user" => b[f] = row.body[f])}

Ask(t) ==
    /\ asked[t] = NoRequest
    /\ asked'[t] \in Request
    /\ asked' = [asked EXCEPT ![t] = asked'[t]]
    /\ UNCHANGED <<table, stamp, undone>>

(* 412, 404, a dropped connection, a deadlock victim. *)
Refuse(t) ==
    /\ asked[t] # NoRequest
    /\ Answer(t)
    /\ UNCHANGED <<table, stamp, undone>>

PutOrPatch(t) ==
    LET r == asked[t] IN
    /\ r.op \in {"PUT", "PATCH"}
    /\ Permitted(r, table[r.id])
    /\ Changed = {r.id}
    /\ table'[r.id].source = "user" /\ table'[r.id].present
    /\ table'[r.id].body \in Stored(r, table[r.id])
    /\ Restamp
    /\ Answer(t)
    /\ UNCHANGED undone

(* The subtree goes with its root: nothing a user owns stays live in it.    *)
Delete(t) ==
    LET r == asked[t] IN
    /\ r.op = "DELETE"
    /\ Permitted(r, table[r.id])
    /\ r.id \in Changed
    /\ Changed \subseteq {r.id} \cup Below[r.id]
    /\ \A i \in Changed : table'[i].source = "user" /\ ~table'[i].present
    /\ \A d \in Below[r.id] : UserOwned(d) => ~table'[d].present
    /\ Restamp
    /\ Answer(t)
    /\ UNCHANGED undone

-----------------------------------------------------------------------------
(* Drift adds a batch with its rows, takes one back with its rows, or clears *)
(* the ledger with the rows it finds.                                       *)
Apply ==
    /\ \A i \in Changed : ~UserOwned(i) /\ table'[i].source = "drift"
    /\ Restamp
    /\ undone' = Append(undone, FALSE)
    /\ UNCHANGED asked

Revert ==
    /\ \A i \in Changed : ~UserOwned(i) /\ (table'[i] = NoRow \/ table'[i].source = "drift")
    /\ Restamp
    /\ \E k \in DOMAIN undone : ~undone[k] /\ undone' = [undone EXCEPT ![k] = TRUE]
    /\ UNCHANGED asked

Reset ==
    /\ \A i \in Changed : table'[i] = NoRow
    /\ \A i \in Id : table'[i].source # "drift"
    /\ Restamp
    /\ undone' = <<>>
    /\ UNCHANGED asked

-----------------------------------------------------------------------------
Init ==
    /\ table = [i \in Id |-> NoRow]
    /\ stamp = [i \in Id |-> 0]
    /\ asked = [t \in Client |-> NoRequest]
    /\ undone = <<>>

Next ==
    \/ \E t \in Client : Ask(t) \/ Refuse(t) \/ PutOrPatch(t) \/ Delete(t)
    \/ Apply \/ Revert \/ Reset

Spec == Init /\ [][Next]_vars
=============================================================================
