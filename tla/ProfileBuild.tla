---------------------------- MODULE ProfileBuild ----------------------------
(***************************************************************************)
(* analyze: profile.build_profile from a DuckDB file or from a live tenant *)
(* through Azure Resource Graph, and the review beside the profile.  The   *)
(* tenant is not asked to hold still: each query is answered from the      *)
(* tenant of that moment, in pages, with any continuation token.           *)
(***************************************************************************)
EXTENDS ProfileExtract, Integers, Functions

CONSTANTS
    Rows,             \* the rows a scan may meet, each with its own id
    Groups,           \* the resource groups there may be, [sub, name]
    Findings,         \* what a file's findings table may hold
    Denylists,        \* the contents of --denylist, {} for no file
    Filters,          \* the subscriptions named in the source, {} for all
    MinBucketSizes,   \* the values of min_bucket_size
    MIN_BUCKET_FLOOR, \* the floor (5 in the code)
    GenericKeys,      \* GENERIC_TAG_KEY_ALLOWLIST
    Tokens            \* the continuation tokens the service hands out

ASSUME ScanAssumption ==
    /\ IsFiniteSet(Rows)
    /\ \A r \in Rows : r = [id |-> r.id, sub |-> r.sub, rg |-> r.rg, name |-> r.name,
                           type |-> r.type, location |-> r.location, tags |-> r.tags,
                           shape |-> r.shape, cost |-> r.cost]
    /\ \A r, q \in Rows : r.id = q.id => r = q
    /\ \A r \in Rows : IsFiniteSet(r.cost)
    /\ MinBucketSizes \subseteq Int
    /\ VALUE_ALLOWLIST_KEYS \subseteq GenericKeys
    /\ MIN_BUCKET_FLOOR \in Nat

VARIABLES
    pc,           \* the next step of the call
    args,         \* scheme, subs_filter, min_bucket_size, file_terms, allow_no_denylist
    skip_token, seen_tokens,  \* of the query being paged
    subscriptions, resources, resource_groups,  \* the tables of the reader
    findings,     \* the findings table of a file
    derived, published,       \* the terms of the live scan
    profile,      \* the assembled profile: its strings, by section
    disk, review  \* the profile and the review under --out, None before

scan == <<skip_token, seen_tokens, subscriptions, resources, resource_groups, findings,
          derived, published>>
vars == <<pc, args, scan, profile, disk, review>>

Subs == {r.sub : r \in Rows} \cup {g.sub : g \in Groups}
Failed == pc' = "failed"
AsRead(r) == CHOOSE q \in Rows : q.id = r.id

-----------------------------------------------------------------------------
(* _generic_tags_only and _row_terms: a key that is not generic is dropped  *)
(* with its value, and both become terms; a generic key is published, and   *)
(* its value as well if the key may show values.  A live scan has no table  *)
(* of costs.                                                                *)
_normalize(r) == [r EXCEPT !.tags = [key \in DOMAIN r.tags \cap GenericKeys |-> r.tags[key]],
                           !.cost = {}]

_row_published(r) ==
    (DOMAIN r.tags \cap GenericKeys)
        \cup {r.tags[key] : key \in DOMAIN r.tags \cap VALUE_ALLOWLIST_KEYS}

(* Mutant: the names of groups are left to the group query.                 *)
_row_terms_NoGroup(r) ==
    {r.sub, r.name}
        \cup (DOMAIN r.tags \ GenericKeys)
        \cup {r.tags[key] : key \in DOMAIN r.tags \ VALUE_ALLOWLIST_KEYS}

_row_terms(r) ==
    {r.sub, r.rg, r.name}
        \cup (DOMAIN r.tags \ GenericKeys)
        \cup {r.tags[key] : key \in DOMAIN r.tags \ VALUE_ALLOWLIST_KEYS}

-----------------------------------------------------------------------------
(* build_profile is called.  An under-floor size is refused before anything *)
(* is read, the denylist loaded, the source parsed.                         *)
Start ==
    /\ pc = "start"
    /\ IF args.min_bucket_size < MIN_BUCKET_FLOOR THEN Failed
       ELSE IF args.scheme = "duckdb" THEN pc' = "open"
       ELSE pc' = IF args.subs_filter = {} THEN "resolve" ELSE "scan"
    /\ subscriptions' = args.subs_filter
    /\ UNCHANGED <<args, skip_token, seen_tokens, resources, resource_groups, findings,
                   derived, published, profile, disk, review>>

(* The file is read in one piece; it derives no terms.                      *)
_duckdb_reader_ctx ==
    /\ pc = "open"
    /\ resources' \in SUBSET Rows
    /\ resource_groups' \in SUBSET Groups
    /\ findings' \in Findings
    /\ subscriptions' = {r.sub : r \in resources'} \cup {g.sub : g \in resource_groups'}
    /\ pc' = "gate"
    /\ UNCHANGED <<args, skip_token, seen_tokens, derived, published, profile, disk, review>>

(* Mutant: nothing watches for a token that comes round again.              *)
Continue_Unguarded(next, after) ==
    /\ skip_token' = next
    /\ seen_tokens' = {}
    /\ pc' = IF next = None THEN after ELSE pc

(* After a page: the query is exhausted, repeats a token and is given up,   *)
(* or goes on with the new token.                                           *)
Continue(next, after) ==
    \/ /\ next = None
       /\ skip_token' = None /\ seen_tokens' = {} /\ pc' = after
    \/ /\ next \in seen_tokens
       /\ Failed /\ UNCHANGED <<skip_token, seen_tokens>>
    \/ /\ next \in Tokens \ seen_tokens
       /\ skip_token' = next /\ seen_tokens' = seen_tokens \cup {next} /\ UNCHANGED pc

Replies == Tokens \cup {None}

(* A page of the subscription enumeration; none at all is an error.         *)
resolve_subscriptions ==
    /\ pc = "resolve"
    /\ \E page \in SUBSET (Subs \ subscriptions), next \in Replies :
        /\ subscriptions' = subscriptions \cup page
        /\ Continue(next, IF subscriptions' = {} THEN "failed" ELSE "scan")
    /\ UNCHANGED <<args, resources, resource_groups, findings, derived, published,
                   profile, disk, review>>

(* A page of the resource query, ordered by id so that pages do not         *)
(* overlap; its terms are taken as it is stored.                            *)
ScanPage ==
    /\ pc = "scan"
    /\ \E ids \in SUBSET ({r.id : r \in Rows} \ {r.id : r \in resources}), next \in Replies :
        LET page == {r \in Rows : r.id \in ids /\ r.sub \in subscriptions} IN
        /\ resources' = resources \cup {_normalize(r) : r \in page}
        /\ derived' = derived \cup UNION {_row_terms(r) : r \in page}
        /\ published' = published \cup UNION {_row_published(r) : r \in page}
        /\ Continue(next, "groups")
    /\ UNCHANGED <<args, subscriptions, resource_groups, findings, profile, disk, review>>

(* A page of the group query, which also returns the empty groups.          *)
_enumerate_resource_groups ==
    /\ pc = "groups"
    /\ \E page \in SUBSET {g \in Groups \ resource_groups : g.sub \in subscriptions},
          next \in Replies :
        /\ resource_groups' = resource_groups \cup page
        /\ Continue(next, "close")
    /\ UNCHANGED <<args, subscriptions, resources, findings, derived, published,
                   profile, disk, review>>

QueryFails ==
    /\ pc \in {"resolve", "scan", "groups"}
    /\ Failed
    /\ UNCHANGED <<args, scan, profile, disk, review>>

SameGroup(g, h) == g.sub = h.sub /\ Lower[g.name] = Lower[h.name]

(* Mutant: the rows' groups are compared with the enumerated as spelled.    *)
RowGroups_AsSpelled(rows, enumerated) == {[sub |-> r.sub, name |-> r.rg] : r \in rows} \ enumerated

(* The groups of rows that no enumerated group matches, case aside.         *)
RowGroups(rows, enumerated) ==
    {h \in {[sub |-> r.sub, name |-> r.rg] : r \in rows} : ~\E g \in enumerated : SameGroup(g, h)}

(* The end of open_azure: the names of the groups are terms too, what is    *)
(* published by design is none, and whatever a row showed is counted.       *)
open_azure ==
    /\ pc = "close"
    /\ derived' = (derived \cup {g.name : g \in resource_groups}) \ published
    /\ subscriptions' = subscriptions \cup {r.sub : r \in resources}
    /\ resource_groups' = resource_groups \cup RowGroups(resources, resource_groups)
    /\ pc' = "gate"
    /\ UNCHANGED <<args, skip_token, seen_tokens, resources, findings, published,
                   profile, disk, review>>

terms == args.file_terms \cup derived

(* Without a single term only --allow-no-denylist goes on.                  *)
DenylistGate ==
    /\ pc = "gate"
    /\ IF terms = {} /\ ~args.allow_no_denylist THEN Failed ELSE pc' = "extract"
    /\ UNCHANGED <<args, scan, profile, disk, review>>

Clusterings(S) == {P \in SUBSET ((SUBSET S) \ {{}}) : UNION P = S /\ \A C, D \in P : C = D \/ C \cap D = {}}

(* The extractors, assemble_profile and the optional sections.              *)
assemble_profile ==
    /\ pc = "extract"
    /\ \E clusters \in Clusterings({r.sub : r \in resources}) :
        profile' = Required(resources, resource_groups, clusters, findings, args.min_bucket_size)
                       \cup Optional(resources, args.min_bucket_size)
    /\ pc' = "check"
    /\ UNCHANGED <<args, scan, disk, review>>

(* The last gate before anything is written.                                *)
CheckProfile ==
    /\ pc = "check"
    /\ IF scan_denylist(profile, terms) THEN Failed ELSE pc' = "write"
    /\ UNCHANGED <<args, scan, profile, disk, review>>

WriteProfile ==
    /\ pc = "write"
    /\ disk' = profile
    /\ pc' = "review"
    /\ UNCHANGED <<args, scan, profile, review>>

(* review.write_review shows the sections a person looks through.           *)
ReviewedSections ==
    {"resource_types", "tag_keys", "tag_values", "locations", "violations", "naming_conventions"}

write_review ==
    /\ pc = "review"
    /\ review' = {l \in profile : l.section \in ReviewedSections}
    /\ pc' = "done"
    /\ UNCHANGED <<args, scan, profile, disk>>

Init ==
    /\ pc = "start"
    /\ args \in [scheme : {"duckdb", "azure"}, subs_filter : Filters,
                 min_bucket_size : MinBucketSizes, file_terms : Denylists,
                 allow_no_denylist : BOOLEAN]
    /\ skip_token = None /\ seen_tokens = {}
    /\ subscriptions = {} /\ resources = {} /\ resource_groups = {}
    /\ findings = [f \in {} |-> 0]
    /\ derived = {} /\ published = {}
    /\ profile = {} /\ disk = None /\ review = None

Step ==
    \/ Start \/ _duckdb_reader_ctx
    \/ resolve_subscriptions \/ ScanPage \/ _enumerate_resource_groups \/ QueryFails
    \/ open_azure \/ DenylistGate \/ assemble_profile \/ CheckProfile
    \/ WriteProfile \/ write_review

Returned == pc \in {"done", "failed"} /\ UNCHANGED vars

Next == Step \/ Returned

(* A single call runs on: every query is answered or fails (the client has  *)
(* a timeout).                                                              *)
Spec == Init /\ [][Next]_vars /\ WF_vars(Step)

-----------------------------------------------------------------------------
(* Types; the token a query goes on with is one it has seen, a row is read  *)
(* once, and a review is written only beside a profile.                     *)
TypeOK ==
    /\ pc \in {"start", "open", "resolve", "scan", "groups", "close", "gate", "extract",
               "check", "write", "review", "done", "failed"}
    /\ skip_token \in Replies /\ seen_tokens \subseteq Tokens
    /\ skip_token # None => skip_token \in seen_tokens
    /\ subscriptions \subseteq Subs \cup UNION Filters
    /\ resources \subseteq Rows \cup {_normalize(r) : r \in Rows}
    /\ \A r, q \in resources : r.id = q.id => r = q
    /\ disk \in {None, profile} /\ (review # None => disk = profile)

(* The data boundary: a profile that was written holds, in no string and no *)
(* part of one, a term of the denylist or, of a live tenant, the name, the  *)
(* group or the subscription of a row it was made from, unless that word is *)
(* also a tag's that is published by design.                                *)
NoIdentifierPublished ==
    LET read == {AsRead(r) : r \in resources}
        names == (UNION {{r.sub, r.rg, r.name} : r \in read}) \ UNION {_row_published(r) : r \in read}
        secret == IF args.scheme = "azure" THEN args.file_terms \cup names ELSE args.file_terms
    IN  disk # None => \A l \in disk : Words[l.label] \cap secret = {}

(* What each section shows of a row.                                        *)
Shown(section, r) ==
    CASE section \in {"resource_types", "resource_type_cooccurrence"} -> {Canonical[r.type]}
      [] section = "type_shapes" -> Range(r.shape)
      [] section = "tag_values" -> Range(r.tags)
      [] section = "locations" -> {r.location}
      [] section = "naming_conventions" -> {Pattern[r.name]}
      [] OTHER -> {}

(* What speaks for a label: the rows that show it or, of a type with a      *)
(* distribution, its samples, one for each resource and billing month.      *)
SeenOn(l) ==
    IF l.section = "cost_distributions"
    THEN {s \in resource_cost_samples(resources) : Canonical[s.type] = l.label}
    ELSE {r \in resources : l.label \in Shown(l.section, r)}

(* Minimum aggregation: in a written profile a type, a value, a location or *)
(* a name pattern was seen on at least as many rows as the floor, and a     *)
(* cost distribution was fitted to at least as many samples, whatever size  *)
(* was asked for.  The samples may be the months of one resource.  Tag keys,*)
(* the types of the misc template and those with an untagged rate have no   *)
(* minimum.                                                                 *)
RareValuesHidden ==
    disk # None => \A l \in disk :
        \/ l.section \in {"tag_keys", "untagged_rate_by_type", "rg_templates", "violations"}
        \/ l.label = OTHER_BUCKET
        \/ Cardinality(SeenOn(l)) >= MIN_BUCKET_FLOOR

(* The groups are enumerated after the rows were read, from a tenant that   *)
(* may have changed: still every row's subscription and group is counted,   *)
(* and no group a second time in the spelling of its rows.                  *)
EveryRowHasItsGroup ==
    [][pc = "close" =>
        /\ \A r \in resources :
            /\ r.sub \in subscriptions'
            /\ \E g \in resource_groups' : SameGroup(g, [sub |-> r.sub, name |-> r.rg])
        /\ \A g \in resource_groups, h \in resource_groups' \ resource_groups :
            ~SameGroup(g, h)]_vars

(* However the service repeats or circles its continuation tokens, of which *)
(* there are finitely many, the call returns.  (Fresh tokens for ever would *)
(* keep it reading: pages have no limit.)                                   *)
AnalysisEnds == <>(pc \in {"done", "failed"})
=============================================================================
