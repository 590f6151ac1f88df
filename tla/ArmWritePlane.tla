--------------------------- MODULE ArmWritePlane ----------------------------
(***************************************************************************)
(* handlers/resource_write.rs: PUT, PATCH and DELETE of one resource.  Each *)
(* request is one READ COMMITTED transaction that takes the write-plane     *)
(* advisory lock, reads the current representation in up to three           *)
(* statements, evaluates the conditional headers and then writes.  One      *)
(* action is one SQL statement together with the code that runs before the  *)
(* next one; other transactions run between any two of them.                *)
(***************************************************************************)
EXTENDS OverlayStore

CONSTANT MaxRequests  \* bound: requests submitted in a behaviour

ASSUME WriteAssumption == MaxRequests \in Nat

VARIABLES
    wlock,     \* the holder of ARM_WRITE_PLANE_LOCK
    req,       \* req[t]: the request transaction t serves
    cur,       \* cur[t]: what read_current returned to t
    sweep,     \* sweep[t]: descendants still to tombstone
    requests   \* requests submitted so far

writeVars == <<wlock, req, cur, sweep, requests>>

(* ETags: "o-<revision>" of an overlay row, "b-<hash>" of a baseline body.  *)
NoToken == [domain |-> "none", revision |-> 0, body |-> NoBody]
overlay_etag(r) == [domain |-> "o", revision |-> r, body |-> NoBody]
baseline_etag(b) == [domain |-> "b", revision |-> 0, body |-> b]
Token == [domain : {"none", "o", "b"}, revision : Nat, body : Body \cup {NoBody}]

(* A parsed If-Match / If-None-Match header; weak validators are dropped.   *)
Header == [given : BOOLEAN, wildcard : BOOLEAN, strong : SUBSET Token]
NoHeader == [given |-> FALSE, wildcard |-> FALSE, strong |-> {}]
AnyHeader == [given |-> TRUE, wildcard |-> TRUE, strong |-> {}]
TokenHeader(tok) == [given |-> TRUE, wildcard |-> FALSE, strong |-> {tok}]

(* Mutant: any current representation satisfies a named ETag.               *)
EvaluatePrecondition_ExistsOnly(im, inm, etag) ==
    /\ inm.given => ~(inm.wildcard /\ etag # NoToken) /\ etag \notin inm.strong
    /\ im.given => etag # NoToken

EvaluatePrecondition(im, inm, etag) ==
    /\ inm.given => ~(inm.wildcard /\ etag # NoToken) /\ etag \notin inm.strong
    /\ im.given => etag # NoToken /\ (im.wildcard \/ etag \in im.strong)

Request == [op : {"PUT", "PATCH", "DELETE"}, id : Id, fields : SUBSET Field,
            body : Body, im : Header, inm : Header]
NoRequest == [op |-> "none"]

(* enum Current.  "baseline" is whatever the resolved view returned.        *)
Current == [kind : {"overlay", "baseline", "tombstoned", "absent"},
            revision : Nat, body : Body \cup {NoBody}]
NoCurrent == [kind |-> "absent", revision |-> 0, body |-> NoBody]

current_etag(c) ==
    CASE c.kind = "overlay"  -> overlay_etag(c.revision)
      [] c.kind = "baseline" -> baseline_etag(c.body)
      [] OTHER               -> NoToken

(* What a read handler serves for i, and the ETag it carries. *)
ServedEtag(i) ==
    CASE committed[i].present -> overlay_etag(committed[i].revision)
      [] committed[i].source = "none" /\ i \in Baseline -> baseline_etag(BaseBody[i])
      [] OTHER -> NoToken

-----------------------------------------------------------------------------
(* A request reaches its handler with no header, a wildcard, or the ETag a  *)
(* read of the resource serves now; it may be stale once the lock is held.  *)
Headers(i) ==
    {<<NoHeader, NoHeader>>, <<AnyHeader, NoHeader>>, <<NoHeader, AnyHeader>>}
        \cup {<<TokenHeader(tok), NoHeader>> : tok \in {ServedEtag(i)} \ {NoToken}}

Submit(t, op, i, F, b, h) ==
    /\ pc[t] = "idle"
    /\ requests < MaxRequests
    /\ req' = [req EXCEPT ![t] = [op |-> op, id |-> i, fields |-> F, body |-> b,
                                  im |-> h[1], inm |-> h[2]]]
    /\ requests' = requests + 1
    /\ pc' = [pc EXCEPT ![t] = "queued"]
    /\ UNCHANGED <<storeVars, wlock, cur, sweep>>

(* Mutant: the handler reads and writes without the advisory lock.          *)
TakeWriteLock_Unlocked(t) ==
    /\ pc[t] = "queued"
    /\ wlock' = t
    /\ pc' = [pc EXCEPT ![t] = "read_overlay"]
    /\ UNCHANGED <<storeVars, req, cur, sweep, requests>>

TakeWriteLock(t) ==
    /\ pc[t] = "queued"
    /\ wlock = NoTx
    /\ wlock' = t
    /\ pc' = [pc EXCEPT ![t] = "read_overlay"]
    /\ UNCHANGED <<storeVars, req, cur, sweep, requests>>

(* The end of a request's transaction: both kinds of lock are released.     *)
LeaveWrite(t) ==
    /\ wlock' = IF wlock = t THEN NoTx ELSE wlock
    /\ req' = [req EXCEPT ![t] = NoRequest]
    /\ cur' = [cur EXCEPT ![t] = NoCurrent]
    /\ sweep' = [sweep EXCEPT ![t] = {}]
    /\ pc' = [pc EXCEPT ![t] = "idle"]
    /\ UNCHANGED requests

(* After read_current: 412 or 404 drop the transaction, the others go on.   *)
Settle(t, c) ==
    LET r == req[t]
        pass == /\ EvaluatePrecondition(r.im, r.inm, current_etag(c))
                /\ r.op = "PATCH" => c.kind \in {"overlay", "baseline"}
    IN  \/ /\ ~pass
           /\ RollbackRows(t)
           /\ LeaveWrite(t)
        \/ /\ pass
           /\ cur' = [cur EXCEPT ![t] = c]
           /\ pc' = [pc EXCEPT ![t] = IF r.op = "DELETE" THEN "gather_view" ELSE "upsert"]
           /\ UNCHANGED <<storeVars, wlock, req, sweep, requests>>

(* read_current, statement 1: a present overlay row wins wholesale. *)
ReadOverlay(t) ==
    LET row == committed[req[t].id] IN
    /\ pc[t] = "read_overlay"
    /\ \/ /\ row.present
          /\ Settle(t, [kind |-> "overlay", revision |-> row.revision, body |-> row.body])
       \/ /\ ~row.present
          /\ pc' = [pc EXCEPT ![t] = "read_view"]
          /\ UNCHANGED <<storeVars, writeVars>>

(* Statement 2: the resolved view, which by now may show an overlay row.    *)
ReadView(t) ==
    LET b == Resolved(committed, req[t].id) IN
    /\ pc[t] = "read_view"
    /\ \/ /\ b # NoBody
          /\ Settle(t, [kind |-> "baseline", revision |-> 0, body |-> b])
       \/ /\ b = NoBody
          /\ pc' = [pc EXCEPT ![t] = "read_tombstone"]
          /\ UNCHANGED <<storeVars, writeVars>>

(* Statement 3: a tombstone's frozen id, or nothing at all. *)
ReadTombstone(t) ==
    LET row == committed[req[t].id] IN
    /\ pc[t] = "read_tombstone"
    /\ Settle(t, [kind |-> IF row.source # "none" /\ ~row.present
                           THEN "tombstoned" ELSE "absent",
                  revision |-> 0, body |-> NoBody])

(* The body PUT stores (all fields from the request) or PATCH merges.       *)
WrittenBody(t) ==
    [f \in Field |-> IF f \in req[t].fields THEN req[t].body[f] ELSE cur[t].body[f]]

UpsertPresent(t) ==
    /\ pc[t] = "upsert"
    /\ WriteRow(t, req[t].id, PresentRow("user", WrittenBody(t)))
    /\ pc' = [pc EXCEPT ![t] = "commit"]
    /\ UNCHANGED writeVars

(* gather_descendants reads the resolved view, then the present overlay rows. *)
GatherView(t) ==
    /\ pc[t] = "gather_view"
    /\ sweep' = [sweep EXCEPT ![t] = Below[req[t].id] \cap Live(committed)]
    /\ pc' = [pc EXCEPT ![t] = "gather_overlay"]
    /\ UNCHANGED <<storeVars, wlock, req, cur, requests>>

GatherOverlay(t) ==
    /\ pc[t] = "gather_overlay"
    /\ sweep' = [sweep EXCEPT ![t] = @ \cup {d \in Below[req[t].id] : committed[d].present}]
    /\ pc' = [pc EXCEPT ![t] = "tombstone"]
    /\ UNCHANGED <<storeVars, wlock, req, cur, requests>>

(* Mutant: the ON CONFLICT branch flips present and leaves the body.        *)
TombstoneTarget_KeepsBody(t) ==
    /\ pc[t] = "tombstone"
    /\ WriteRow(t, req[t].id, [View(t)[req[t].id] EXCEPT !.source = "user", !.present = FALSE])
    /\ pc' = [pc EXCEPT ![t] = IF sweep[t] = {} THEN "commit" ELSE "cascade"]
    /\ UNCHANGED writeVars

TombstoneTarget(t) ==
    /\ pc[t] = "tombstone"
    /\ WriteRow(t, req[t].id, Tombstone("user"))
    /\ pc' = [pc EXCEPT ![t] = IF sweep[t] = {} THEN "commit" ELSE "cascade"]
    /\ UNCHANGED writeVars

(* Mutant: ON CONFLICT DO NOTHING, which spares a child with an overlay row. *)
TombstoneDescendant_DoNothing(t, d) ==
    /\ pc[t] = "cascade"
    /\ d \in sweep[t]
    /\ \/ View(t)[d] = NoRow /\ WriteRow(t, d, Tombstone("user"))
       \/ View(t)[d] # NoRow /\ UNCHANGED storeVars
    /\ sweep' = [sweep EXCEPT ![t] = @ \ {d}]
    /\ pc' = [pc EXCEPT ![t] = IF sweep[t] = {d} THEN "commit" ELSE "cascade"]
    /\ UNCHANGED <<wlock, req, cur, requests>>

TombstoneDescendant(t, d) ==
    /\ pc[t] = "cascade"
    /\ d \in sweep[t]
    /\ WriteRow(t, d, Tombstone("user"))
    /\ sweep' = [sweep EXCEPT ![t] = @ \ {d}]
    /\ pc' = [pc EXCEPT ![t] = IF sweep[t] = {d} THEN "commit" ELSE "cascade"]
    /\ UNCHANGED <<wlock, req, cur, requests>>

CommitWrite(t) ==
    /\ pc[t] = "commit"
    /\ CommitRows(t)
    /\ LeaveWrite(t)

(* A dropped connection, a statement error or a deadlock victim. *)
AbortWrite(t) ==
    /\ pc[t] # "idle"
    /\ RollbackRows(t)
    /\ LeaveWrite(t)

-----------------------------------------------------------------------------
WriteInit ==
    /\ wlock = NoTx
    /\ req = [t \in Client |-> NoRequest]
    /\ cur = [t \in Client |-> NoCurrent]
    /\ sweep = [t \in Client |-> {}]
    /\ requests = 0

WriteStep(t) ==
    \/ TakeWriteLock(t) \/ ReadOverlay(t) \/ ReadView(t) \/ ReadTombstone(t)
    \/ UpsertPresent(t)
    \/ GatherView(t) \/ GatherOverlay(t) \/ TombstoneTarget(t)
    \/ \E d \in Id : TombstoneDescendant(t, d)
    \/ CommitWrite(t)

WriteTypeOK ==
    /\ wlock \in Client \cup {NoTx}
    /\ req \in [Client -> Request \cup {NoRequest}]
    /\ cur \in [Client -> Current]
    /\ sweep \in [Client -> SUBSET Id]
    /\ requests \in Nat
=============================================================================
