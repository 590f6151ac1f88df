------------------------ MODULE ProfileBuild_proofs -------------------------
(***************************************************************************)
(* Proofs about the analyzer, for any tenant that may change between the   *)
(* pages of its scan, any denylist and any minimum bucket size.            *)
(***************************************************************************)
EXTENDS ProfileBuild, FiniteSetTheorems, TLAPS

LivePC == {"resolve", "scan", "groups", "close"}
Extracted == {"check", "write", "review", "done"}

(* The arguments are those of the call; a live scan has its own places; what *)
(* is on disk is the profile, and nothing before the write.                  *)
CallOK ==
    /\ args.subs_filter \in Filters
    /\ args.scheme \in {"duckdb", "azure"}
    /\ args.min_bucket_size \in MinBucketSizes
    /\ pc \in LivePC => args.scheme = "azure"
    /\ pc = "open" => args.scheme = "duckdb"
    /\ pc \in {"review", "done"} => disk = profile
    /\ disk # None => pc \in {"review", "done"}
    /\ review # None => pc = "done"

-----------------------------------------------------------------------------
(* A row keeps its id and its names when its tags are cut down.             *)
LEMMA NormalizeKeeps ==
  ASSUME NEW r \in Rows
  PROVE  /\ _normalize(r).id = r.id
         /\ AsRead(_normalize(r)) = r
         /\ AsRead(r) = r
<1>1. _normalize(r).id = r.id
  BY ScanAssumption DEF _normalize
<1>2. \A q \in Rows : q.id = r.id => q = r
  BY ScanAssumption
<1> QED
  BY <1>1, <1>2 DEF AsRead

(* Going on after a page keeps the types of the paging state, and moves pc  *)
(* to the given place, to the failure, or nowhere.                          *)
LEMMA ContinueMoves ==
  ASSUME NEW next \in Replies, NEW after, Continue(next, after),
         skip_token \in Replies, seen_tokens \subseteq Tokens,
         skip_token # None => skip_token \in seen_tokens
  PROVE  /\ pc' \in {pc, "failed", after}
         /\ skip_token' \in Replies /\ seen_tokens' \subseteq Tokens
         /\ skip_token' # None => skip_token' \in seen_tokens'
<1>1. CASE next = None /\ skip_token' = None /\ seen_tokens' = {} /\ pc' = after
  BY <1>1 DEF Replies
<1>2. CASE next \in seen_tokens /\ Failed /\ UNCHANGED <<skip_token, seen_tokens>>
  BY <1>2 DEF Failed
<1>3. CASE /\ next \in Tokens \ seen_tokens
           /\ skip_token' = next /\ seen_tokens' = seen_tokens \cup {next} /\ UNCHANGED pc
  BY <1>3 DEF Replies
<1> QED
  BY <1>1, <1>2, <1>3 DEF Continue

(* A page of rows that are new keeps every row read once. *)
LEMMA PageIsNew ==
  ASSUME NEW old, old \subseteq Rows \cup {_normalize(r) : r \in Rows},
         \A r, q \in old : r.id = q.id => r = q,
         NEW page \in SUBSET Rows, \A r \in page : r.id \notin {q.id : q \in old}
  PROVE  LET new == old \cup {_normalize(r) : r \in page} IN
         /\ new \subseteq Rows \cup {_normalize(r) : r \in Rows}
         /\ \A r, q \in new : r.id = q.id => r = q
<1> DEFINE new == old \cup {_normalize(r) : r \in page}
<1>1. new \subseteq Rows \cup {_normalize(r) : r \in Rows}
  OBVIOUS
<1>2. ASSUME NEW r \in new, NEW q \in new, r.id = q.id
      PROVE  r = q
  <2>1. ASSUME NEW x \in page
        PROVE  _normalize(x).id = x.id /\ x.id \notin {y.id : y \in old}
    BY <2>1, NormalizeKeeps
  <2>2. CASE r \in old /\ q \in old
    BY <1>2, <2>2
  <2>3. CASE r \notin old /\ q \in old
    <3>1. PICK x \in page : r = _normalize(x)
      BY <2>3
    <3> QED
      BY <1>2, <2>1, <2>3, <3>1
  <2>4. CASE r \in old /\ q \notin old
    <3>1. PICK x \in page : q = _normalize(x)
      BY <2>4
    <3> QED
      BY <1>2, <2>1, <2>4, <3>1
  <2>5. CASE r \notin old /\ q \notin old
    <3>1. PICK x \in page, y \in page : r = _normalize(x) /\ q = _normalize(y)
      BY <2>5
    <3>2. x.id = y.id
      BY <1>2, <2>1, <3>1
    <3> QED
      BY <3>1, <3>2, ScanAssumption
  <2> QED
    BY <2>2, <2>3, <2>4, <2>5
<1> QED
  BY <1>1, <1>2

-----------------------------------------------------------------------------
(* A call starts well typed. *)
LEMMA InitType == Init => TypeOK
  BY DEF Init, TypeOK, Replies

(* Every step keeps the types. *)
LEMMA NextType == TypeOK /\ CallOK /\ [Next]_vars => TypeOK'
<1> SUFFICES ASSUME TypeOK, CallOK, [Next]_vars PROVE TypeOK'
  OBVIOUS
<1> DEFINE Paging == /\ skip_token \in Replies /\ seen_tokens \subseteq Tokens
                     /\ skip_token # None => skip_token \in seen_tokens
<1>1. CASE UNCHANGED vars
  BY <1>1 DEF TypeOK, vars, scan
<1>2. CASE Start
  BY <1>2 DEF Start, TypeOK, CallOK, Failed
<1>3. CASE _duckdb_reader_ctx
  <2>1. resources' \subseteq Rows /\ (\A r, q \in resources' : r.id = q.id => r = q)
    BY <1>3, ScanAssumption DEF _duckdb_reader_ctx
  <2>2. subscriptions' \subseteq Subs
    BY <1>3 DEF _duckdb_reader_ctx, Subs
  <2> QED
    BY <1>3, <2>1, <2>2 DEF _duckdb_reader_ctx, TypeOK
<1>4. CASE resolve_subscriptions
  <2>1. PICK page \in SUBSET (Subs \ subscriptions), next \in Replies :
          /\ subscriptions' = subscriptions \cup page
          /\ Continue(next, IF subscriptions' = {} THEN "failed" ELSE "scan")
    BY <1>4 DEF resolve_subscriptions
  <2>2. Paging' /\ pc' \in {pc, "failed", "scan"}
    BY <2>1, ContinueMoves DEF TypeOK
  <2> QED
    BY <1>4, <2>1, <2>2 DEF resolve_subscriptions, TypeOK
<1>5. CASE ScanPage
  <2>1. PICK ids \in SUBSET ({r.id : r \in Rows} \ {r.id : r \in resources}), next \in Replies :
          LET page == {r \in Rows : r.id \in ids /\ r.sub \in subscriptions} IN
          /\ resources' = resources \cup {_normalize(r) : r \in page}
          /\ Continue(next, "groups")
    BY <1>5 DEF ScanPage
  <2>2. Paging' /\ pc' \in {pc, "failed", "groups"}
    BY <2>1, ContinueMoves DEF TypeOK
  <2>3. /\ resources' \subseteq Rows \cup {_normalize(r) : r \in Rows}
        /\ \A r, q \in resources' : r.id = q.id => r = q
    <3> DEFINE page == {r \in Rows : r.id \in ids /\ r.sub \in subscriptions}
    <3>1. page \in SUBSET Rows /\ \A r \in page : r.id \notin {q.id : q \in resources}
      OBVIOUS
    <3>2. resources' = resources \cup {_normalize(r) : r \in page}
      BY <2>1
    <3> HIDE DEF page
    <3> QED
      BY <3>1, <3>2, PageIsNew DEF TypeOK
  <2> QED
    BY <1>5, <2>2, <2>3 DEF ScanPage, TypeOK
<1>6. CASE _enumerate_resource_groups
  <2>1. PICK next \in Replies : Continue(next, "close")
    BY <1>6 DEF _enumerate_resource_groups
  <2>2. Paging' /\ pc' \in {pc, "failed", "close"}
    BY <2>1, ContinueMoves DEF TypeOK
  <2> QED
    BY <1>6, <2>2 DEF _enumerate_resource_groups, TypeOK
<1>7. CASE QueryFails
  BY <1>7 DEF QueryFails, Failed, TypeOK, scan
<1>8. CASE open_azure
  <2>1. {r.sub : r \in resources} \subseteq Subs
    <3>1. ASSUME NEW r \in resources PROVE r.sub \in Subs
      <4>1. \A q \in Rows : _normalize(q).sub = q.sub
        BY ScanAssumption DEF _normalize
      <4> QED
        BY <4>1 DEF TypeOK, Subs
    <3> QED
      BY <3>1
  <2> QED
    BY <1>8, <2>1 DEF open_azure, TypeOK
<1>9. CASE DenylistGate
  BY <1>9 DEF DenylistGate, Failed, TypeOK, scan
<1>10. CASE assemble_profile
  <2>1. disk = None /\ review = None
    BY <1>10 DEF assemble_profile, CallOK
  <2> QED
    BY <1>10, <2>1 DEF assemble_profile, TypeOK, scan
<1>11. CASE CheckProfile
  BY <1>11 DEF CheckProfile, Failed, TypeOK, scan
<1>12. CASE WriteProfile
  BY <1>12 DEF WriteProfile, CallOK, TypeOK, scan
<1>13. CASE write_review
  BY <1>13 DEF write_review, CallOK, TypeOK, scan
<1>14. CASE Returned
  BY <1>14, <1>1 DEF Returned
<1> QED
  BY <1>1, <1>2, <1>3, <1>4, <1>5, <1>6, <1>7, <1>8, <1>9, <1>10, <1>11, <1>12, <1>13, <1>14
  DEF Next, Step

(* A call keeps to its arguments, its branch and its one write. *)
LEMMA NextCall == CallOK /\ [Next]_vars => CallOK'
<1> SUFFICES ASSUME CallOK, [Next]_vars PROVE CallOK'
  OBVIOUS
<1>1. CASE UNCHANGED vars
  BY <1>1 DEF CallOK, vars, LivePC
<1>2. CASE Start
  BY <1>2 DEF Start, CallOK, LivePC, Failed
<1>3. CASE _duckdb_reader_ctx \/ open_azure
  BY <1>3 DEF _duckdb_reader_ctx, open_azure, CallOK, LivePC
<1>4. CASE resolve_subscriptions \/ ScanPage \/ _enumerate_resource_groups
  <2>1. /\ pc \in {"resolve", "scan", "groups"}
        /\ pc' \in LivePC \cup {"failed"}
        /\ UNCHANGED <<args, profile, disk, review>>
    BY <1>4 DEF resolve_subscriptions, ScanPage, _enumerate_resource_groups, Continue, Failed, LivePC
  <2> QED
    BY <2>1 DEF CallOK, LivePC
<1>5. CASE QueryFails \/ DenylistGate \/ assemble_profile \/ CheckProfile
  BY <1>5 DEF QueryFails, DenylistGate, assemble_profile, CheckProfile, Failed, CallOK, LivePC
<1>6. CASE WriteProfile \/ write_review
  BY <1>6 DEF WriteProfile, write_review, CallOK, LivePC
<1>7. CASE Returned
  BY <1>7, <1>1 DEF Returned
<1> QED
  BY <1>1, <1>2, <1>3, <1>4, <1>5, <1>6, <1>7 DEF Next, Step

(* The types and the course of a call hold in every state. *)
LEMMA CallInvariant == Spec => [](TypeOK /\ CallOK)
<1>1. Init => CallOK
  BY DEF Init, CallOK, LivePC
<1> QED
  BY <1>1, InitType, NextType, NextCall, PTL DEF Spec

(* The analyzer's state keeps its types for any tenant and any service: a    *)
(* query goes on with a token it has seen, no row is stored twice, and what  *)
(* is on disk is the profile that was assembled (azure_source.py).           *)
THEOREM TypeCorrect == Spec => []TypeOK
  BY CallInvariant, PTL

-----------------------------------------------------------------------------
(* What a live scan knows of the rows it has stored: each is a row of the    *)
(* tenant cut down, its names are terms unless published by design, and      *)
(* what counts as published is what those rows publish.                      *)
ScanOK ==
    args.scheme = "azure" =>
        /\ \A r \in resources : AsRead(r) \in Rows /\ r = _normalize(AsRead(r))
        /\ published = UNION {_row_published(AsRead(r)) : r \in resources}
        /\ \A r \in resources :
              {AsRead(r).sub, AsRead(r).rg, AsRead(r).name} \subseteq derived \cup published

(* Past the last gate the profile holds no term. *)
GateOK == pc \in {"write", "review", "done"} => ~scan_denylist(profile, terms)

(* Storing a page keeps ScanOK: the terms of its rows are taken with it. *)
LEMMA ScanPageOK ==
  ASSUME ScanOK, CallOK, ScanPage
  PROVE  ScanOK'
<1>1. PICK ids \in SUBSET ({r.id : r \in Rows} \ {r.id : r \in resources}) :
        LET page == {r \in Rows : r.id \in ids /\ r.sub \in subscriptions} IN
        /\ resources' = resources \cup {_normalize(r) : r \in page}
        /\ derived' = derived \cup UNION {_row_terms(r) : r \in page}
        /\ published' = published \cup UNION {_row_published(r) : r \in page}
  BY DEF ScanPage
<1> DEFINE page == {r \in Rows : r.id \in ids /\ r.sub \in subscriptions}
<1>a. args' = args /\ args.scheme = "azure"
  BY DEF ScanPage, CallOK, LivePC
<1>2. /\ resources' = resources \cup {_normalize(r) : r \in page}
      /\ derived' = derived \cup UNION {_row_terms(r) : r \in page}
      /\ published' = published \cup UNION {_row_published(r) : r \in page}
      /\ page \subseteq Rows
  BY <1>1
<1> HIDE DEF page
<1>3. \A r \in page : AsRead(_normalize(r)) = r
  BY <1>2, NormalizeKeeps
<1>4. \A r \in resources' : AsRead(r) \in Rows /\ r = _normalize(AsRead(r))
  BY <1>a, <1>2, <1>3 DEF ScanOK
<1>5. published' = UNION {_row_published(AsRead(r)) : r \in resources'}
  <2>1. {AsRead(r) : r \in resources'} = {AsRead(r) : r \in resources} \cup page
    BY <1>2, <1>3
  <2>2. ASSUME NEW S
        PROVE  UNION {_row_published(AsRead(r)) : r \in S} = UNION {_row_published(q) : q \in {AsRead(r) : r \in S}}
    OBVIOUS
  <2>3. published = UNION {_row_published(q) : q \in {AsRead(r) : r \in resources}}
    BY <1>a, <2>2 DEF ScanOK
  <2> QED
    BY <1>2, <2>1, <2>2, <2>3
<1>6. \A r \in page : {r.sub, r.rg, r.name} \subseteq derived'
  BY <1>2 DEF _row_terms
<1>7. \A r \in resources' :
        {AsRead(r).sub, AsRead(r).rg, AsRead(r).name} \subseteq derived' \cup published'
  BY <1>a, <1>2, <1>3, <1>6 DEF ScanOK
<1> QED
  BY <1>a, <1>4, <1>5, <1>7 DEF ScanOK, AsRead

(* Every step keeps what a live scan knows of its rows. *)
LEMMA NextScan == ScanOK /\ CallOK /\ [Next]_vars => ScanOK'
<1> SUFFICES ASSUME ScanOK, CallOK, [Next]_vars PROVE ScanOK'
  OBVIOUS
<1>1. CASE UNCHANGED <<args, resources, derived, published>>
  BY <1>1 DEF ScanOK, AsRead
<1>2. CASE Start \/ resolve_subscriptions \/ _enumerate_resource_groups
  BY <1>1, <1>2 DEF Start, resolve_subscriptions, _enumerate_resource_groups
<1>3. CASE _duckdb_reader_ctx
  BY <1>3 DEF _duckdb_reader_ctx, CallOK, ScanOK
<1>4. CASE ScanPage
  BY <1>4, ScanPageOK
<1>5. CASE open_azure
  <2>1. /\ derived \cup published \subseteq derived' \cup published'
        /\ UNCHANGED <<args, resources, published>>
    BY <1>5 DEF open_azure
  <2> QED
    BY <2>1 DEF ScanOK, AsRead
<1>6. CASE QueryFails \/ DenylistGate \/ assemble_profile
  BY <1>1, <1>6 DEF QueryFails, DenylistGate, assemble_profile, scan
<1>7. CASE CheckProfile \/ WriteProfile \/ write_review
  BY <1>1, <1>7 DEF CheckProfile, WriteProfile, write_review, scan
<1>8. CASE Returned \/ UNCHANGED vars
  BY <1>1, <1>8 DEF Returned, vars, scan
<1> QED
  BY <1>2, <1>3, <1>4, <1>5, <1>6, <1>7, <1>8 DEF Next, Step

(* Neither the profile nor the terms change once the gate was passed. *)
LEMMA NextGate == GateOK /\ [Next]_vars => GateOK'
<1> SUFFICES ASSUME GateOK, [Next]_vars PROVE GateOK'
  OBVIOUS
<1>1. CASE UNCHANGED <<profile, args, derived>> /\ (pc' \in {"write", "review", "done"} =>
                                                    pc \in {"write", "review", "done"})
  BY <1>1 DEF GateOK, terms, scan_denylist
<1>2. CASE Start \/ _duckdb_reader_ctx \/ open_azure
  BY <1>2 DEF Start, _duckdb_reader_ctx, open_azure, Failed, GateOK
<1>3. CASE resolve_subscriptions \/ ScanPage \/ _enumerate_resource_groups
  BY <1>3 DEF resolve_subscriptions, ScanPage, _enumerate_resource_groups, Continue, Failed, GateOK
<1>4. CASE QueryFails \/ DenylistGate \/ assemble_profile
  BY <1>4 DEF QueryFails, DenylistGate, assemble_profile, Failed, GateOK
<1>5. CASE CheckProfile
  BY <1>5 DEF CheckProfile, Failed, GateOK, terms, scan_denylist, scan
<1>6. CASE WriteProfile \/ write_review
  BY <1>1, <1>6 DEF WriteProfile, write_review, scan
<1>7. CASE Returned \/ UNCHANGED vars
  BY <1>1, <1>7 DEF Returned, vars, scan
<1> QED
  BY <1>2, <1>3, <1>4, <1>5, <1>6, <1>7 DEF Next, Step

(* Together they are the data boundary. *)
LEMMA BoundaryHolds == CallOK /\ ScanOK /\ GateOK => NoIdentifierPublished
<1> SUFFICES ASSUME CallOK, ScanOK, GateOK, disk # None, NEW l \in disk,
                    NEW w \in Words[l.label]
             PROVE  LET read == {AsRead(r) : r \in resources}
                        names == (UNION {{r.sub, r.rg, r.name} : r \in read})
                                   \ UNION {_row_published(r) : r \in read}
                        secret == IF args.scheme = "azure" THEN args.file_terms \cup names
                                  ELSE args.file_terms
                    IN  w \notin secret
  BY DEF NoIdentifierPublished
<1>1. disk = profile /\ pc \in {"review", "done"}
  BY DEF CallOK
<1>2. w \notin terms
  BY <1>1 DEF GateOK, scan_denylist
<1>3. ASSUME args.scheme = "azure", NEW r \in resources,
             w \in {AsRead(r).sub, AsRead(r).rg, AsRead(r).name},
             w \notin UNION {_row_published(q) : q \in {AsRead(x) : x \in resources}}
      PROVE  FALSE
  <2>1. w \in derived \cup published
    BY <1>3 DEF ScanOK
  <2>2. w \notin published
    BY <1>3 DEF ScanOK
  <2> QED
    BY <2>1, <2>2, <1>2 DEF terms
<1>4. w \notin args.file_terms
  BY <1>2 DEF terms
<1> QED
  BY <1>3, <1>4

(* The data boundary, for any tenant, however it changes between the pages   *)
(* and queries of the scan: no string of a written profile, and no part of   *)
(* one, is a denylist term or the name, group or subscription of a row that  *)
(* was read, unless published by design (profile.py, azure_source.py).       *)
THEOREM DataBoundary == Spec => []NoIdentifierPublished
<1>1. Init => ScanOK /\ GateOK
  BY DEF Init, ScanOK, GateOK
<1> QED
  BY <1>1, NextScan, NextGate, CallInvariant, BoundaryHolds, PTL DEF Spec

-----------------------------------------------------------------------------
HasNoMinimum == {"tag_keys", "untagged_rate_by_type", "rg_templates", "violations"}

(* A label may be shown: it needs no minimum, is the other bucket, or was   *)
(* seen on as many rows, or samples, as the call asked for.                 *)
Allowed(l) ==
    \/ l.section \in HasNoMinimum
    \/ l.label = OTHER_BUCKET
    \/ Cardinality(SeenOn(l)) >= args.min_bucket_size

(* The size asked for was checked against the floor before anything else,   *)
(* and only labels that may be shown are assembled.                         *)
FloorOK == pc \notin {"start", "failed"} => args.min_bucket_size >= MIN_BUCKET_FLOOR
BucketsOK == pc \in Extracted => \A l \in profile : Allowed(l)

(* A scan reads finitely many rows. *)
LEMMA RowsFinite == TypeOK => IsFiniteSet(resources)
<1> SUFFICES ASSUME TypeOK PROVE IsFiniteSet(resources)
  OBVIOUS
<1> DEFINE Cut == {_normalize(r) : r \in Rows}
           f == [r \in Rows |-> _normalize(r)]
<1>1. f \in Surjection(Rows, Cut)
  BY DEF Surjection
<1>2. IsFiniteSet(Cut)
  <2> HIDE DEF f, Cut
  <2> QED
    BY <1>1, FS_Surjection, ScanAssumption
<1>3. IsFiniteSet(Rows \cup Cut)
  BY <1>2, FS_Union, ScanAssumption
<1> QED
  BY <1>3, FS_Subset DEF TypeOK

(* A resource has finitely many samples, so a label is seen on finitely many *)
(* rows or samples.                                                          *)
LEMMA SeenOnFinite ==
  ASSUME TypeOK, NEW l
  PROVE  IsFiniteSet(SeenOn(l)) /\ Cardinality(SeenOn(l)) \in Nat
<1> DEFINE Of(r) == {[id |-> r.id, type |-> r.type, billing_month |-> m] : m \in r.cost}
           Sampled == {Of(r) : r \in resources}
<1>1. ASSUME NEW r \in resources PROVE IsFiniteSet(r.cost)
  <2>1. CASE r \in Rows
    BY <2>1, ScanAssumption
  <2>2. CASE \E q \in Rows : r = _normalize(q)
    <3>1. r.cost = {}
      BY <2>2, ScanAssumption DEF _normalize
    <3> QED
      BY <3>1, FS_EmptySet
  <2> QED
    BY <2>1, <2>2 DEF TypeOK
<1>2. ASSUME NEW r \in resources PROVE IsFiniteSet(Of(r))
  <2> DEFINE f == [m \in r.cost |-> [id |-> r.id, type |-> r.type, billing_month |-> m]]
  <2>1. f \in Surjection(r.cost, Of(r))
    BY DEF Surjection
  <2> HIDE DEF f, Of
  <2> QED
    BY <1>1, <2>1, FS_Surjection
<1>3. IsFiniteSet(Sampled)
  <2> DEFINE f == [r \in resources |-> Of(r)]
  <2>1. f \in Surjection(resources, Sampled)
    BY DEF Surjection
  <2> HIDE DEF f, Sampled
  <2> QED
    BY <2>1, RowsFinite, FS_Surjection
<1>4. IsFiniteSet(resource_cost_samples(resources))
  <2>1. resource_cost_samples(resources) = UNION Sampled
    BY DEF resource_cost_samples
  <2>2. \A S \in Sampled : IsFiniteSet(S)
    BY <1>2
  <2> HIDE DEF Sampled
  <2> QED
    BY <1>3, <2>1, <2>2, FS_UNION
<1>5. SeenOn(l) \in SUBSET resource_cost_samples(resources) \/ SeenOn(l) \in SUBSET resources
  BY DEF SeenOn
<1> QED
  BY <1>4, <1>5, RowsFinite, FS_Subset, FS_CardinalityType

(* A bucket that reached the minimum is a lower bound for the rows its label *)
(* was seen on.                                                              *)
LEMMA MoreRows ==
  ASSUME NEW S, IsFiniteSet(S), NEW B \in SUBSET S, NEW A \in SUBSET B,
         NEW k \in Int, Cardinality(A) >= k
  PROVE  Cardinality(B) >= k
<1>1. IsFiniteSet(B) /\ IsFiniteSet(A) /\ Cardinality(A) <= Cardinality(B)
  BY FS_Subset
<1>2. Cardinality(A) \in Nat /\ Cardinality(B) \in Nat
  BY <1>1, FS_CardinalityType
<1> QED
  BY <1>1, <1>2

(* A set of rows in each of which the label is seen, and as many as asked    *)
(* for, allows the label.                                                    *)
LEMMA EnoughRows ==
  ASSUME TypeOK, CallOK, NEW l, l.section # "cost_distributions", NEW A \in SUBSET resources,
         \A r \in A : l.label \in Shown(l.section, r),
         Cardinality(A) >= args.min_bucket_size
  PROVE  Allowed(l)
<1>1. A \in SUBSET SeenOn(l) /\ SeenOn(l) \in SUBSET resources
  BY DEF SeenOn
<1>2. args.min_bucket_size \in Int
  BY ScanAssumption DEF CallOK
<1>3. Cardinality(SeenOn(l)) >= args.min_bucket_size
  BY <1>1, <1>2, RowsFinite, MoreRows
<1> QED
  BY <1>3 DEF Allowed

(* The buckets of a count that _merge_into_other shows, or for tag values    *)
(* _merge_values_into_other, hold enough elements.                           *)
LEMMA KeptBuckets ==
  ASSUME NEW counts, NEW k,
         NEW x \in _merge_into_other(counts, k) \cup _merge_values_into_other(counts, k),
         x # OTHER_BUCKET
  PROVE  x \in DOMAIN counts /\ counts[x] >= k
  BY DEF _merge_into_other, _merge_values_into_other, RestFolded, merge_min_buckets

-----------------------------------------------------------------------------
(* Section by section: what the extractor shows is allowed.                  *)
LEMMA Labelled ==
  ASSUME NEW section, NEW S, NEW l \in Label(section, S)
  PROVE  l.section = section /\ l.label \in S
  BY DEF Label

(* Types, and types with a distribution. *)
LEMMA TypesAllowed ==
  ASSUME TypeOK, CallOK, NEW l,
         \/ l \in Label("resource_types", resource_types(resources, args.min_bucket_size))
         \/ l \in Label("cost_distributions", cost_distributions(resources, args.min_bucket_size))
  PROVE  Allowed(l)
<1> DEFINE k == args.min_bucket_size
<1>1. CASE l \in Label("resource_types", resource_types(resources, k))
  <2>0. l.section = "resource_types" /\ l.label \in resource_types(resources, k)
    BY <1>1, Labelled
  <2>1. PICK t \in {r.type : r \in resources} :
          /\ l.label = Canonical[t] /\ l.section = "resource_types"
          /\ Cardinality({r \in resources : r.type = t}) >= k
    BY <2>0 DEF resource_types, merge_min_buckets, CountBy
  <2>2. \A r \in {q \in resources : q.type = t} : l.label \in Shown(l.section, r)
    BY <2>1 DEF Shown
  <2> QED
    BY <2>1, <2>2, EnoughRows
<1>2. CASE l \in Label("cost_distributions", cost_distributions(resources, k))
  <2>0. l.section = "cost_distributions" /\ l.label \in cost_distributions(resources, k)
    BY <1>2, Labelled
  <2>1. Cardinality({s \in resource_cost_samples(resources) : Canonical[s.type] = l.label}) >= k
    BY <2>0 DEF cost_distributions, merge_min_buckets, CountBy
  <2> QED
    BY <2>0, <2>1 DEF SeenOn, Allowed
<1> QED
  BY <1>1, <1>2

(* Values of a shape. *)
LEMMA ShapesAllowed ==
  ASSUME TypeOK, CallOK, NEW l,
         l \in Label("type_shapes", type_shapes(resources, args.min_bucket_size))
  PROVE  Allowed(l)
<1> DEFINE k == args.min_bucket_size
           of(type) == {r \in resources : r.type = Raw[type]}
           with(type, f) == {r \in of(type) : f \in DOMAIN r.shape}
           counts(type, f) == CountBy(with(type, f), LAMBDA r : r.shape[f])
<1>1. l.section = "type_shapes"
      /\ \E type \in resource_types(resources, k) : \E f \in Fields[type] :
            l.label \in _merge_into_other(counts(type, f), k)
  <2>1. l.section = "type_shapes" /\ l.label \in type_shapes(resources, k)
    BY Labelled
  <2> DEFINE V(type, f) == _merge_into_other(counts(type, f), k)
  <2>2. type_shapes(resources, k) = UNION {UNION {V(type, f) : f \in Fields[type]} :
                                            type \in resource_types(resources, k)}
    BY DEF type_shapes
  <2> HIDE DEF V
  <2>3. \E type \in resource_types(resources, k) : \E f \in Fields[type] : l.label \in V(type, f)
    BY <2>1, <2>2
  <2> QED
    BY <2>1, <2>3 DEF V
<1>2. PICK type \in resource_types(resources, k) :
        \E f \in Fields[type] : l.label \in _merge_into_other(counts(type, f), k)
  BY <1>1
<1>2a. PICK f \in Fields[type] : l.label \in _merge_into_other(counts(type, f), k)
  BY <1>2
<1>3. SUFFICES ASSUME l.label # OTHER_BUCKET PROVE Allowed(l)
  BY DEF Allowed
<1> DEFINE A == {r \in with(type, f) : r.shape[f] = l.label}
<1>4. Cardinality(A) >= k
  BY <1>2a, <1>3, KeptBuckets DEF CountBy
<1>5. A \subseteq resources /\ \A r \in A : l.label \in Shown(l.section, r)
  BY <1>1 DEF Shown, Range
<1> QED
  BY <1>1, <1>4, <1>5, EnoughRows

(* Values of tags. *)
LEMMA TagValuesAllowed ==
  ASSUME TypeOK, CallOK, NEW l,
         l \in Label("tag_values", tag_values(resources, args.min_bucket_size))
  PROVE  Allowed(l)
<1> DEFINE k == args.min_bucket_size
           counts(key) == CountBy(Tagged(resources, key), LAMBDA r : r.tags[key])
<1>1. l.section = "tag_values" /\ \E key : l.label \in _merge_values_into_other(counts(key), k)
  <2> DEFINE V(key) == _merge_values_into_other(counts(key), k)
             shown == {key \in PublicKeys(resources) \cap VALUE_ALLOWLIST_KEYS :
                          Cardinality(V(key) \ {OTHER_BUCKET}) <= MAX_ENUM_CARDINALITY}
  <2>1. l.section = "tag_values" /\ l.label \in tag_values(resources, k)
    BY Labelled
  <2>2. tag_values(resources, k) = UNION {V(key) : key \in shown}
    BY DEF tag_values
  <2> HIDE DEF V, shown
  <2>3. PICK key \in shown : l.label \in V(key)
    BY <2>1, <2>2
  <2>4. l.label \in _merge_values_into_other(counts(key), k)
    BY <2>3 DEF V
  <2> HIDE DEF counts
  <2> QED
    BY <2>1, <2>4
<1>2. PICK key : l.label \in _merge_values_into_other(counts(key), k)
  BY <1>1
<1>3. SUFFICES ASSUME l.label # OTHER_BUCKET PROVE Allowed(l)
  BY DEF Allowed
<1> DEFINE A == {r \in Tagged(resources, key) : r.tags[key] = l.label}
<1>4. Cardinality(A) >= k
  BY <1>2, <1>3, KeptBuckets DEF CountBy
<1>5. A \subseteq resources /\ \A r \in A : l.label \in Shown(l.section, r)
  BY <1>1 DEF Shown, Range, Tagged
<1> QED
  BY <1>1, <1>4, <1>5, EnoughRows

(* Locations, whatever the clusters. *)
LEMMA LocationsAllowed ==
  ASSUME TypeOK, CallOK, NEW l, NEW clusters,
         l \in Label("locations", locations(resources, clusters, args.min_bucket_size))
  PROVE  Allowed(l)
<1> DEFINE k == args.min_bucket_size
           counts(C) == CountBy({r \in resources : r.sub \in C}, LAMBDA r : r.location)
<1>1. l.section = "locations" /\ \E C \in clusters : l.label \in _merge_into_other(counts(C), k)
  <2> DEFINE V(C) == _merge_into_other(counts(C), k)
  <2>1. l.section = "locations" /\ l.label \in locations(resources, clusters, k)
    BY Labelled
  <2>2. locations(resources, clusters, k) = UNION {V(C) : C \in clusters}
    BY DEF locations
  <2> HIDE DEF V
  <2>3. \E C \in clusters : l.label \in V(C)
    BY <2>1, <2>2
  <2> QED
    BY <2>1, <2>3 DEF V
<1>2. PICK C : l.label \in _merge_into_other(counts(C), k)
  BY <1>1
<1>3. SUFFICES ASSUME l.label # OTHER_BUCKET PROVE Allowed(l)
  BY DEF Allowed
<1> DEFINE A == {r \in {q \in resources : q.sub \in C} : r.location = l.label}
<1>4. Cardinality(A) >= k
  BY <1>2, <1>3, KeptBuckets DEF CountBy
<1>5. A \subseteq resources /\ \A r \in A : l.label \in Shown(l.section, r)
  BY <1>1 DEF Shown
<1> QED
  BY <1>1, <1>4, <1>5, EnoughRows

(* Name patterns. *)
LEMMA NamingAllowed ==
  ASSUME TypeOK, CallOK, NEW l,
         l \in Label("naming_conventions", naming(resources, args.min_bucket_size))
  PROVE  Allowed(l)
<1> DEFINE k == args.min_bucket_size
           named == {r \in resources : Pattern[r.name] # None}
           counts == CountBy(named, LAMBDA r : Pattern[r.name])
<1>1. l.section = "naming_conventions" /\ l.label \in _merge_into_other(counts, k)
  BY Labelled DEF naming
<1>2. SUFFICES ASSUME l.label # OTHER_BUCKET PROVE Allowed(l)
  BY DEF Allowed
<1> DEFINE A == {r \in named : Pattern[r.name] = l.label}
<1>3. Cardinality(A) >= k
  BY <1>1, <1>2, KeptBuckets DEF CountBy
<1>4. A \subseteq resources /\ \A r \in A : l.label \in Shown(l.section, r)
  BY <1>1 DEF Shown
<1> QED
  BY <1>1, <1>3, <1>4, EnoughRows

(* Pairs of types share groups, and a group needs a row of each type.        *)
LEMMA PairsAllowed ==
  ASSUME TypeOK, CallOK, NEW l,
         l \in Label("resource_type_cooccurrence", type_cooccurrence(resources, args.min_bucket_size))
  PROVE  Allowed(l)
<1> DEFINE k == args.min_bucket_size
           of(t) == {h \in resources : h.type = t}
           groupsOf(t) == {<<r.sub, r.rg>> : r \in of(t)}
<1>1. /\ l.section = "resource_type_cooccurrence"
      /\ \E q \in {r.type : r \in resources} \X {r.type : r \in resources} :
            /\ l.label \in {Canonical[q[1]], Canonical[q[2]]}
            /\ Cardinality(groupsOf(q[1]) \cap groupsOf(q[2])) >= k
  <2>1. /\ l.section = "resource_type_cooccurrence"
        /\ l.label \in type_cooccurrence(resources, k)
    BY Labelled
  <2> QED
    BY <2>1 DEF type_cooccurrence
<1>2. PICK q \in {r.type : r \in resources} \X {r.type : r \in resources} : /\ l.label \in {Canonical[q[1]], Canonical[q[2]]}
               /\ Cardinality(groupsOf(q[1]) \cap groupsOf(q[2])) >= k
  BY <1>1
<1>3. PICK t : l.label = Canonical[t] /\ t \in {q[1], q[2]}
  BY <1>2
<1>4. Cardinality(of(t)) >= k
  <2> DEFINE f == [r \in of(t) |-> <<r.sub, r.rg>>]
             I == groupsOf(q[1]) \cap groupsOf(q[2])
  <2>1. f \in Surjection(of(t), groupsOf(t))
    BY DEF Surjection
  <2>2. IsFiniteSet(of(t))
    BY RowsFinite, FS_Subset
  <2>3. IsFiniteSet(groupsOf(t)) /\ Cardinality(groupsOf(t)) <= Cardinality(of(t))
    <3> HIDE DEF f, of, groupsOf
    <3> QED
      BY <2>1, <2>2, FS_Surjection
  <2>4. I \in SUBSET groupsOf(t)
    BY <1>3
  <2>5. k \in Int
    BY ScanAssumption DEF CallOK
  <2>6. Cardinality(I) <= Cardinality(groupsOf(t)) /\ IsFiniteSet(I)
    <3> HIDE DEF I, groupsOf
    <3> QED
      BY <2>3, <2>4, FS_Subset
  <2>7. /\ Cardinality(I) \in Nat /\ Cardinality(groupsOf(t)) \in Nat
        /\ Cardinality(of(t)) \in Nat
    <3> HIDE DEF I, groupsOf, of
    <3> QED
      BY <2>2, <2>3, <2>6, FS_CardinalityType
  <2>8. Cardinality(I) >= k
    BY <1>2
  <2> HIDE DEF I, groupsOf, of, k
  <2> QED
    BY <2>3, <2>5, <2>6, <2>7, <2>8
<1>5. of(t) \subseteq resources /\ \A r \in of(t) : l.label \in Shown(l.section, r)
  BY <1>1, <1>3 DEF Shown
<1> QED
  BY <1>1, <1>4, <1>5, EnoughRows

-----------------------------------------------------------------------------
(* What is assembled is allowed. *)
LEMMA AssembledAllowed ==
  ASSUME TypeOK, CallOK, assemble_profile
  PROVE  \A l \in profile' : Allowed(l)
<1> DEFINE k == args.min_bucket_size
<1>1. PICK clusters :
        profile' = Required(resources, resource_groups, clusters, findings, k)
                       \cup Optional(resources, k)
  BY DEF assemble_profile
<1> SUFFICES ASSUME NEW l \in profile' PROVE Allowed(l)
  OBVIOUS
<1>2. CASE l \in Required(resources, resource_groups, clusters, findings, k)
  <2>1. ASSUME l.section \in HasNoMinimum PROVE Allowed(l)
    BY <2>1 DEF Allowed
  <2>2. \/ l \in Label("resource_types", resource_types(resources, k))
        \/ l \in Label("type_shapes", type_shapes(resources, k))
        \/ l \in Label("tag_values", tag_values(resources, k))
        \/ l \in Label("locations", locations(resources, clusters, k))
        \/ l.section \in HasNoMinimum
    BY <1>2 DEF Required, Label, HasNoMinimum
  <2> QED
    BY <2>1, <2>2, TypesAllowed, ShapesAllowed, TagValuesAllowed, LocationsAllowed
<1>3. CASE l \in Optional(resources, k)
  BY <1>3, PairsAllowed, NamingAllowed, TypesAllowed DEF Optional
<1> QED
  BY <1>1, <1>2, <1>3

(* Every step keeps the floor and the buckets. *)
LEMMA NextBuckets ==
  TypeOK /\ CallOK /\ FloorOK /\ BucketsOK /\ [Next]_vars => FloorOK' /\ BucketsOK'
<1> SUFFICES ASSUME TypeOK, CallOK, FloorOK, BucketsOK, [Next]_vars PROVE FloorOK' /\ BucketsOK'
  OBVIOUS
<1>1. CASE /\ UNCHANGED <<profile, args, resources>>
           /\ pc' \in Extracted => pc \in Extracted
           /\ pc = "start" => pc' \in {"start", "failed"}
           /\ pc = "failed" => pc' = "failed"
  <2>1. \A l : Allowed(l) => Allowed(l)'
    BY <1>1 DEF Allowed, SeenOn, Shown, resource_cost_samples
  <2> QED
    BY <1>1, <2>1 DEF FloorOK, BucketsOK
<1>2. CASE Start
  <2>1. args.min_bucket_size \in Int /\ MIN_BUCKET_FLOOR \in Int
    BY ScanAssumption DEF CallOK
  <2> QED
    BY <1>2, <2>1 DEF Start, Failed, FloorOK, BucketsOK, Extracted
<1>3. CASE _duckdb_reader_ctx \/ open_azure
  BY <1>3 DEF _duckdb_reader_ctx, open_azure, FloorOK, BucketsOK, Extracted
<1>4. CASE resolve_subscriptions \/ ScanPage \/ _enumerate_resource_groups
  BY <1>4 DEF resolve_subscriptions, ScanPage, _enumerate_resource_groups, Continue, Failed,
              FloorOK, BucketsOK, Extracted
<1>5. CASE QueryFails \/ DenylistGate
  BY <1>5 DEF QueryFails, DenylistGate, Failed, FloorOK, BucketsOK, Extracted
<1>6. CASE assemble_profile
  <2>1. UNCHANGED <<args, resources>> /\ pc = "extract"
    BY <1>6 DEF assemble_profile, scan
  <2>2. \A l : Allowed(l) => Allowed(l)'
    BY <2>1 DEF Allowed, SeenOn, Shown, resource_cost_samples
  <2>3. \A l \in profile' : Allowed(l)
    BY <1>6, AssembledAllowed
  <2> QED
    BY <2>1, <2>2, <2>3 DEF FloorOK, BucketsOK
<1>7. CASE CheckProfile \/ WriteProfile \/ write_review
  BY <1>1, <1>7 DEF CheckProfile, WriteProfile, write_review, Failed, scan, Extracted
<1>8. CASE Returned \/ UNCHANGED vars
  BY <1>1, <1>8 DEF Returned, vars, scan
<1> QED
  BY <1>2, <1>3, <1>4, <1>5, <1>6, <1>7, <1>8 DEF Next, Step

(* A written profile of allowed labels hides what is rare. *)
LEMMA AllowedHides == TypeOK /\ CallOK /\ FloorOK /\ BucketsOK => RareValuesHidden
<1> SUFFICES ASSUME TypeOK, CallOK, FloorOK, BucketsOK, disk # None, NEW l \in disk,
                    l.section \notin HasNoMinimum, l.label # OTHER_BUCKET
             PROVE  Cardinality(SeenOn(l)) >= MIN_BUCKET_FLOOR
  BY DEF RareValuesHidden, HasNoMinimum
<1>1. disk = profile /\ pc \in {"review", "done"}
  BY DEF CallOK
<1>2. Cardinality(SeenOn(l)) >= args.min_bucket_size /\ args.min_bucket_size >= MIN_BUCKET_FLOOR
  BY <1>1 DEF BucketsOK, FloorOK, Allowed, Extracted
<1>3. Cardinality(SeenOn(l)) \in Nat /\ args.min_bucket_size \in Int /\ MIN_BUCKET_FLOOR \in Nat
  BY SeenOnFinite, ScanAssumption DEF CallOK
<1> QED
  BY <1>2, <1>3

(* Minimum aggregation, whatever size was asked for and whatever the tenant  *)
(* holds: a type, value, location or name pattern in a written profile was   *)
(* seen on as many rows as the floor, and a cost distribution has as many    *)
(* samples of a resource and a month (extractors of analyzer/, profile.py).  *)
THEOREM MinimumAggregation == Spec => []RareValuesHidden
<1>1. Init => FloorOK /\ BucketsOK
  BY DEF Init, FloorOK, BucketsOK, Extracted
<1> QED
  BY <1>1, NextBuckets, CallInvariant, AllowedHides, PTL DEF Spec

-----------------------------------------------------------------------------
(* The end of a live scan counts the subscription and the group of every     *)
(* row it read, and no group twice in two spellings (azure_source.py).       *)
THEOREM GroupsComplete == Spec => EveryRowHasItsGroup
<1> DEFINE Joined ==
      pc = "close" =>
        /\ \A r \in resources :
            /\ r.sub \in subscriptions'
            /\ \E g \in resource_groups' : SameGroup(g, [sub |-> r.sub, name |-> r.rg])
        /\ \A g \in resource_groups, h \in resource_groups' \ resource_groups : ~SameGroup(g, h)
<1>1. Next /\ pc = "close" => open_azure
  BY DEF Next, Step, Returned, Start, _duckdb_reader_ctx, resolve_subscriptions, ScanPage,
         _enumerate_resource_groups, QueryFails, DenylistGate, assemble_profile, CheckProfile,
         WriteProfile, write_review
<1>2. open_azure => Joined
  <2> SUFFICES ASSUME open_azure PROVE Joined
    OBVIOUS
  <2>1. /\ subscriptions' = subscriptions \cup {r.sub : r \in resources}
        /\ resource_groups' = resource_groups \cup RowGroups(resources, resource_groups)
    BY DEF open_azure
  <2>2. ASSUME NEW r \in resources
        PROVE  \E g \in resource_groups' : SameGroup(g, [sub |-> r.sub, name |-> r.rg])
    <3> DEFINE h == [sub |-> r.sub, name |-> r.rg]
    <3>1. CASE \E g \in resource_groups : SameGroup(g, h)
      BY <2>1, <3>1
    <3>2. CASE ~\E g \in resource_groups : SameGroup(g, h)
      <4>1. h \in RowGroups(resources, resource_groups)
        BY <3>2 DEF RowGroups
      <4>2. SameGroup(h, h)
        BY DEF SameGroup
      <4> QED
        BY <2>1, <4>1, <4>2
    <3> QED
      BY <3>1, <3>2
  <2>3. \A g \in resource_groups, h \in resource_groups' \ resource_groups : ~SameGroup(g, h)
    BY <2>1 DEF RowGroups
  <2> QED
    BY <2>1, <2>2, <2>3
<1>3. [Next]_vars => [Joined]_vars
  BY <1>1, <1>2
<1> QED
  BY <1>3, PTL DEF Spec, EveryRowHasItsGroup
=============================================================================
