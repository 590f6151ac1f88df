--------------------------- MODULE ProfileExtract ---------------------------
(***************************************************************************)
(* The extractors of analyzer/: which strings of the scanned rows each     *)
(* section of a profile repeats.  The numbers beside them are left out;    *)
(* what decides whether a string is published is kept: the counts, the     *)
(* allowlists, the shapes.  A scanned row is a record; its tags, and its   *)
(* properties, sku and kind together, are functions on the names it has;   *)
(* cost is the set of billing months with a positive amount for it.        *)
(***************************************************************************)
EXTENDS Naturals, FiniteSets, FiniteSetsExt

CONSTANTS
    Canonical,        \* Canonical[t]: the namespace of type t capitalised
    Raw,              \* Raw[t]: the canonical type t with a lower-case namespace
    Fields,           \* Fields[t]: the fields published for the canonical type t
    VALUE_ALLOWLIST_KEYS, \* the tag keys whose values are published
    IdentifierShaped, \* the keys and values that look like ids
    MAX_ENUM_CARDINALITY, \* a key with more values publishes none
    Pattern,          \* Pattern[n]: the token classes of the name n, None if it holds an id
    Lower,            \* Lower[g]: the group name g in lower case
    ViolationOf,      \* the violation code of each known finding type
    Words,            \* Words[s]: the token-bounded substrings of s
    None

OTHER_BUCKET == "__other__"

-----------------------------------------------------------------------------
CountBy(S, Key(_)) ==
    [x \in {Key(r) : r \in S} |-> Cardinality({r \in S : Key(r) = x})]

(* Mutant: a bucket one short of the threshold survives.                    *)
merge_min_buckets_OffByOne(counts, k) == {x \in DOMAIN counts : counts[x] + 1 >= k}

merge_min_buckets(counts, k) == {x \in DOMAIN counts : counts[x] >= k}

(* The buckets that are kept, the rest as one other bucket.                 *)
RestFolded(kept, counts) == kept \cup IF kept = DOMAIN counts THEN {} ELSE {OTHER_BUCKET}

_merge_into_other(counts, k) == RestFolded(merge_min_buckets(counts, k), counts)

(* A tag value that looks like an identifier is folded too, however frequent. *)
_merge_values_into_other(counts, k) ==
    RestFolded(merge_min_buckets(counts, k) \ IdentifierShaped, counts)

Label(section, S) == {[section |-> section, label |-> x] : x \in S}

TagKeys(rows) == UNION {DOMAIN r.tags : r \in rows}
Tagged(rows, key) == {r \in rows : key \in DOMAIN r.tags}
PublicKeys(rows) == TagKeys(rows) \ IdentifierShaped

-----------------------------------------------------------------------------
(* resource_types: spellings that differ in the namespace share one key.    *)
resource_types(rows, k) ==
    {Canonical[t] : t \in merge_min_buckets(CountBy(rows, LAMBDA r : r.type), k)}

(* type_shapes: rows of the lower-case spelling are asked for, no others    *)
(* (bound: no more types than TOP_N).                                       *)
type_shapes(rows, k) ==
    LET of(type) == {r \in rows : r.type = Raw[type]}
        values(type, f) == _merge_into_other(
            CountBy({r \in of(type) : f \in DOMAIN r.shape}, LAMBDA r : r.shape[f]), k)
    IN  UNION {UNION {values(type, f) : f \in Fields[type]} : type \in resource_types(rows, k)}

(* tags: a key needs no minimum, a value needs a key that may show it, the  *)
(* minimum and a harmless shape.                                            *)
tag_values(rows, k) ==
    LET values(key) ==
            _merge_values_into_other(CountBy(Tagged(rows, key), LAMBDA r : r.tags[key]), k)
        shown == {key \in PublicKeys(rows) \cap VALUE_ALLOWLIST_KEYS :
                    Cardinality(values(key) \ {OTHER_BUCKET}) <= MAX_ENUM_CARDINALITY}
    IN  UNION {values(key) : key \in shown}

(* cooccurrence: of types in a group, of keys on a row.                     *)
type_cooccurrence(rows, k) ==
    LET groupsOf(t) == {<<r.sub, r.rg>> : r \in {h \in rows : h.type = t}}
        types == {r.type : r \in rows}
    IN  UNION {{Canonical[p[1]], Canonical[p[2]]} : p \in
                {q \in types \X types : /\ q[1] # q[2]
                                        /\ Cardinality(groupsOf(q[1]) \cap groupsOf(q[2])) >= k}}

tag_key_cooccurrence(rows, k) ==
    UNION {P \in SUBSET PublicKeys(rows) :
            Cardinality(P) = 2 /\ Cardinality({r \in rows : P \subseteq DOMAIN r.tags}) >= k}

untagged_rate_by_type(rows) == {Canonical[r.type] : r \in rows}

(* naming: a name that holds an identifier counts for nothing.              *)
naming(rows, k) ==
    _merge_into_other(CountBy({r \in rows : Pattern[r.name] # None}, LAMBDA r : Pattern[r.name]), k)

-----------------------------------------------------------------------------
(* reader.rg_type_sets: the groups of rows and of the scan's table, joined  *)
(* without regard to case; each with the types it holds.                    *)
rg_type_sets(rows, groups) ==
    LET key(sub, rg) == <<sub, Lower[rg]>>
    IN  [g \in {key(r.sub, r.rg) : r \in rows} \cup {key(h.sub, h.name) : h \in groups} |->
            {Canonical[r.type] : r \in {q \in rows : key(q.sub, q.rg) = g}}]

(* rg_templates: a composition that is rare or empty goes to the misc       *)
(* template, which lists its types whatever their count (bound: no more     *)
(* compositions than TOP_N).                                                *)
rg_templates(rows, groups, k) ==
    LET sets == rg_type_sets(rows, groups)
        counts == CountBy(DOMAIN sets, LAMBDA g : sets[g])
        standalone == merge_min_buckets(counts, k) \ {{}}
        misc == DOMAIN counts \ standalone
    IN  (UNION standalone) \cup ((UNION misc) \ IdentifierShaped)

(* The locations of each cluster of subscriptions; archetypes clusters by   *)
(* k-means, so any partition may come out.                                  *)
locations(rows, clusters, k) ==
    UNION {_merge_into_other(CountBy({r \in rows : r.sub \in C}, LAMBDA r : r.location), k) :
            C \in clusters}

(* A sample is what one resource cost in one billing month, so the minimum  *)
(* is one of samples, not of resources.                                     *)
resource_cost_samples(rows) ==
    UNION {{[id |-> r.id, type |-> r.type, billing_month |-> m] : m \in r.cost} : r \in rows}

cost_distributions(rows, k) ==
    merge_min_buckets(CountBy(resource_cost_samples(rows), LAMBDA s : Canonical[s.type]), k)

(* Findings have a table of their own, of a count for each type.            *)
violations(findings, k) ==
    {ViolationOf[f] : f \in merge_min_buckets(findings, k) \cap DOMAIN ViolationOf}

-----------------------------------------------------------------------------
(* What assemble_profile is given, and the sections added after it.         *)
Required(rows, groups, clusters, findings, k) ==
    Label("resource_types", resource_types(rows, k))
        \cup Label("type_shapes", type_shapes(rows, k))
        \cup Label("tag_keys", PublicKeys(rows))
        \cup Label("tag_values", tag_values(rows, k))
        \cup Label("tag_keys", tag_key_cooccurrence(rows, k))
        \cup Label("untagged_rate_by_type", untagged_rate_by_type(rows))
        \cup Label("rg_templates", rg_templates(rows, groups, k))
        \cup Label("locations", locations(rows, clusters, k))
        \cup Label("violations", violations(findings, k))

Optional(rows, k) ==
    Label("resource_type_cooccurrence", type_cooccurrence(rows, k))
        \cup Label("naming_conventions", naming(rows, k))
        \cup Label("cost_distributions", cost_distributions(rows, k))

scan_denylist(profile, terms) == \E l \in profile : Words[l.label] \cap terms # {}
=============================================================================
