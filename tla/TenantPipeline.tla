--------------------------- MODULE TenantPipeline ---------------------------
(***************************************************************************)
(* pipeline.generate_tenant: the subscriptions come out of the pool, then  *)
(* the passes run one after the other over the whole tenant: calibrate,    *)
(* tags, violations, cross_sub, the confirmation of the group names with   *)
(* its rename, cost, identity.  Each pass reads what the earlier ones left *)
(* and holds ids, so their order and the sweep of the rename matter.       *)
(***************************************************************************)
EXTENDS SubscriptionPool, SubscriptionBuild

CONSTANTS
    Target,      \* --resources
    Rounds,      \* the rounds calibrate allows itself (12)
    TypeOrder,   \* the types in the order their paths sort
    TagTypes,    \* bound: the types a tag is drawn for
    MaxPerCode,  \* bound: rows of one violation code
    Targets,     \* bound: the cross_sub.Targets of a run
    CostTypes    \* the types with a cost distribution

T_KV == "KeyVault/vaults"
T_ACR == "ContainerRegistry/registries"
T_AKS == "ContainerService/managedClusters"
T_PE == "Network/privateEndpoints"
T_LOG_ANALYTICS == "OperationalInsights/workspaces"

(* The types a row may have: those a template draws and those minted.       *)
Type == (UNION {sample_rg_types(t) : t \in Template})
            \cup {T_NIC, T_DISK, T_VNET, T_SUBNET, T_PIP, T_KV, T_LOG_ANALYTICS, T_ACR, T_PE}

Name == [token : Generic \cup {label_map[t] : t \in Template}, number : Nat \ {0}]
Resource == [sub : Subscriptions, rg : Name, type : Type, number : Int]

ASSUME PipelineAssumption ==
    /\ Builds = [i \in Subscriptions |-> _build_one_subscription(i)]
    /\ DOMAIN Drawable = Subscriptions /\ DOMAIN RgDraws = Subscriptions
    /\ Target \in Nat /\ Rounds \in Nat /\ MaxPerCode \in Nat
    /\ TypeOrder \in Seq(Type) /\ Type \subseteq ToSet(TypeOrder)
    /\ None \notin Resource

VARIABLES
    phase,      \* the pass to run next, "pool" before the first
    groups, rows, ref, seen,  \* the tenant, and the ids generate_resource knows
    round,      \* rounds of calibrate begun
    before,     \* the total when the running _trim began, 0 outside one
    tagged,     \* the rows that carry the tag
    flagged,    \* the rows with the property a violation sets
    violations, deps, cost,  \* the rows of these tables
    scopes      \* the scopes a role assignment may have

tenant == <<groups, rows, ref, seen>>
calibration == <<round, before>>
tables == <<tagged, flagged, violations, deps, cost, scopes>>
vars == <<poolVars, phase, tenant, calibration, tables>>

Tenant == [groups |-> groups, rows |-> rows, ref |-> ref, seen |-> seen]
IsTenant(T) == groups' = T.groups /\ rows' = T.rows /\ ref' = T.ref /\ seen' = T.seen

RowsIn(T, G) == {r \in ToSet(T.rows) : Holds(G, r)}
Types(T, G) == {r.type : r \in RowsIn(T, G)}
GroupsOf(T, sub) == Keep(T.groups, {G \in ToSet(T.groups) : G.sub = sub})
InOrder(S) == Keep([i \in 1..N |-> i], S)
_total(T) == Len(T.rows)

(* Mutants: the names are confirmed before the total is calibrated; the     *)
(* total is calibrated after the violations; cost comes before the rename.  *)
PassOrder_ConfirmFirst ==
    <<"confirm", "calibrate", "tags", "violations", "cross_sub", "cost", "identity", "done">>
PassOrder_CalibrateLate ==
    <<"tags", "violations", "calibrate", "cross_sub", "confirm", "cost", "identity", "done">>
PassOrder_CostFirst ==
    <<"calibrate", "tags", "violations", "cross_sub", "cost", "confirm", "identity", "done">>

PassOrder ==
    <<"calibrate", "tags", "violations", "cross_sub", "confirm", "cost", "identity", "done">>

EndPass == phase' = PassOrder[(CHOOSE k \in DOMAIN PassOrder : PassOrder[k] = phase) + 1]

-----------------------------------------------------------------------------
(* Mutant: the ids the subscriptions were built with are forgotten.         *)
SeenAfterMerge_None(all) == {}

SeenAfterMerge(all) == ToSet(all)

(* The subscriptions are appended in order; the ids they hold are seen.     *)
MergeSubscriptions ==
    /\ phase = "pool" /\ status = "built"
    /\ groups' = Fold(LAMBDA all, S : all \o S.groups, merged, <<>>)
    /\ rows' = Fold(LAMBDA all, S : all \o S.rows, merged, <<>>)
    /\ ref' = UNION {merged[i].ref : i \in Subscriptions}
    /\ seen' = SeenAfterMerge(rows')
    /\ phase' = PassOrder[1]
    /\ UNCHANGED <<poolVars, calibration, tables>>

-----------------------------------------------------------------------------
(* calibrate.  The band is 5 percent of the target to each side, _trim and  *)
(* _pad_batch aim at 4, rounded.                                            *)
InBand(n) == 95 * Target <= 100 * n /\ 100 * n <= 105 * Target
AimHigh == (104 * Target + 50) \div 100
AimLow == (96 * Target + 50) \div 100

_referenced_ids(T) == {e.dst : e \in T.ref}
_is_child_row(T, r) == r.type = T_SUBNET \/ \E e \in T.ref : e.src = r /\ e.via = "managed_by"

(* The groups by size; those of one size, which the code takes in the order *)
(* of their ids, in list order.                                             *)
BySize(T) ==
    LET size == [g \in DOMAIN T.groups |-> Cardinality(RowsIn(T, T.groups[g]))]
        ahead(h, g) == size[h] > size[g] \/ (size[h] = size[g] /\ h < g)
        place(g) == 1 + Cardinality({h \in DOMAIN T.groups : ahead(h, g)})
    IN  [k \in DOMAIN T.groups |-> T.groups[CHOOSE g \in DOMAIN T.groups : place(g) = k]]

(* Mutant: what other rows refer to may be trimmed too.                     *)
Trimmable_Referenced(T, G) == {r \in RowsIn(T, G) : ~_is_child_row(T, r)}

Trimmable(T, G) ==
    {r \in RowsIn(T, G) : r \notin _referenced_ids(T) /\ ~_is_child_row(T, r)}

(* The last of the rows by id; numbers stand for names.                     *)
LastById(S) ==
    LET rank(r) == CHOOSE k \in DOMAIN TypeOrder : TypeOrder[k] = r.type
        last == {r \in S : \A q \in S : rank(q) <= rank(r)}
    IN  CHOOSE r \in last : \A q \in last : q.number <= r.number

DropRow(T, r) ==
    [T EXCEPT !.rows = Keep(@, ToSet(@) \ {r}),
              !.ref = {e \in @ : e.src # r},
              !.seen = @ \ {r}]

(* One pass over the groups, largest first, one row from each, until the    *)
(* total is at the aim; what is referenced is settled before the pass.      *)
_trim(T) ==
    Fold(LAMBDA U, G : LET S == Trimmable(T, G) IN
             IF _total(U) <= AimHigh \/ S = {} THEN U ELSE DropRow(U, LastById(S)),
         BySize(T), T)

(* n rows into the groups that hold some already, in turn, largest first;   *)
(* then the subscriptions they went to are wired anew.                      *)
_pad_batch(T, n) ==
    LET ordered == Keep(BySize(T), {G \in ToSet(T.groups) : /\ RowsIn(T, G) # {}
                                                            /\ sample_rg_types(G.template) # {}})
        host(k) == ordered[((k - 1) % Len(ordered)) + 1]
        touched == {host(k).sub : k \in 1..n}
        add(U, k) == LET G == host(k) IN
            {AddRow(U, generate_resource(G.sub, G.name, type, U.seen)) :
                type \in sample_rg_types(G.template)}
    IN  IF ordered = <<>> THEN {T}
        ELSE ForEach(wire_references, InOrder(touched),
                     ForEach(add, [k \in 1..n |-> k], {T}))

(* _trim runs passes until it is at its aim or one removes nothing; if it   *)
(* removed nothing at all calibrate is over.                                *)
TrimPass ==
    LET T == _trim(Tenant)
        over == _total(T) <= AimHigh \/ _total(T) = _total(Tenant)
    IN  /\ phase = "calibrate" /\ before > 0
        /\ IsTenant(T)
        /\ before' = IF over THEN 0 ELSE before
        /\ IF over /\ _total(T) >= before THEN EndPass ELSE UNCHANGED phase
        /\ UNCHANGED <<poolVars, round, tables>>

(* The head of a round that trims.                                          *)
TrimRound ==
    /\ phase = "calibrate" /\ before = 0 /\ Target > 0 /\ round < Rounds
    /\ 100 * _total(Tenant) > 105 * Target
    /\ round' = round + 1
    /\ before' = _total(Tenant)
    /\ UNCHANGED <<poolVars, phase, tenant, tables>>

(* Mutant: one round of padding is thought enough, whatever rows the wiring *)
(* minted on top of those asked for.                                        *)
PadRound_Once ==
    LET total == _total(Tenant) IN
    /\ phase = "calibrate" /\ before = 0 /\ Target > 0 /\ round < Rounds
    /\ 100 * total < 95 * Target
    /\ round' = round + 1
    /\ \E T \in _pad_batch(Tenant, Max({1, AimLow - total})) : IsTenant(T)
    /\ EndPass
    /\ UNCHANGED <<poolVars, before, tables>>

(* A round that pads; with no group that can grow calibrate is over.        *)
PadRound ==
    LET total == _total(Tenant) IN
    /\ phase = "calibrate" /\ before = 0 /\ Target > 0 /\ round < Rounds
    /\ 100 * total < 95 * Target
    /\ round' = round + 1
    /\ \E T \in _pad_batch(Tenant, Max({1, AimLow - total})) :
        /\ IsTenant(T)
        /\ IF _total(T) = total THEN EndPass ELSE UNCHANGED phase
    /\ UNCHANGED <<poolVars, before, tables>>

Calibrated ==
    /\ phase = "calibrate" /\ before = 0
    /\ Target = 0 \/ round = Rounds \/ InBand(_total(Tenant))
    /\ EndPass
    /\ UNCHANGED <<poolVars, tenant, calibration, tables>>

-----------------------------------------------------------------------------
(* The other passes.  One tag key stands for the keys, TAG_MISSING_ENV for  *)
(* the codes that delete one, VM_NO_BACKUP for those that set a property.   *)
assign_tags ==
    /\ phase = "tags"
    /\ tagged' \in SUBSET {r \in ToSet(rows) : r.type \in TagTypes}
    /\ EndPass
    /\ UNCHANGED <<poolVars, tenant, calibration, flagged, violations, deps, cost, scopes>>

Draws(S) == {D \in SUBSET S : Cardinality(D) <= MaxPerCode}

Violation(code, r, nic, pip) ==
    [code |-> code, resource_id |-> r, nic_id |-> nic, public_ip_id |-> pip]

(* VM_PUBLIC_IP on one VM: its interface gets an address of the tenant's,   *)
(* or one minted into the interface's group once all codes are done.  W is  *)
(* the references, the addresses minted and the rows so far.                *)
_wire_vm_public_ip(W, vm) ==
    LET all == ToSet(rows)
        pool == {r \in all : r.type = T_PIP}
        nic == (CHOOSE e \in W.ref : e.src = vm /\ e.via = "nic").dst
        new == generate_resource(nic.sub, nic.rg, T_PIP, all \cup ToSet(W.minted))
        wired(pip) == [SetRef(W, nic, "pip", pip) EXCEPT
                          !.rows = @ \cup {Violation("VM_PUBLIC_IP", vm, nic, pip)}]
    IN  IF pool # {} THEN {wired(pip) : pip \in pool}
        ELSE {[wired(new) EXCEPT !.minted = Append(@, new)]}

inject ==
    LET vms == {r \in ToSet(rows) : r.type = T_VM} IN
    /\ phase = "violations"
    /\ \E untag \in Draws(tagged), nobackup \in Draws(vms), public \in Draws(vms) :
       \E W \in ForEach(_wire_vm_public_ip, Keep(rows, public),
                        {[ref |-> ref, minted |-> <<>>, rows |-> {}]}) :
        /\ tagged' = tagged \ untag
        /\ flagged' = flagged \cup nobackup
        /\ ref' = W.ref
        /\ rows' = rows \o W.minted
        /\ violations' = {Violation("TAG_MISSING_ENV", r, None, None) : r \in untag}
                            \cup {Violation("VM_NO_BACKUP", r, None, None) : r \in nobackup}
                            \cup W.rows
    /\ EndPass
    /\ UNCHANGED <<poolVars, groups, seen, calibration, deps, cost, scopes>>

-----------------------------------------------------------------------------
(* cross_sub.  Each operator takes a run so far, the tenant and the rows    *)
(* of synthetic.dependencies, and returns what may become of it.            *)
Dep(type, src, dst, from, to) ==
    [type |-> type, source_resource_id |-> src, target_resource_id |-> dst,
     source_subscription |-> from, target_subscription |-> to]

AddDep(D, d) == [D EXCEPT !.deps = @ \cup {d}]

(* The first row of a type, the first group and the first row of a          *)
(* subscription are by id or name in the code, here in list order.          *)
_first_of_type(T, sub, type) == RowsOfType(T, sub, type)[1]
Has(T, sub, type) == Pool(T, sub, type) # {}

_ensure_anchor(D, sub, type) ==
    LET gs == GroupsOf(D.T, sub) IN
    IF gs = <<>> \/ Has(D.T, sub, type) THEN D
    ELSE [D EXCEPT !.T = AddRow(@, generate_resource(sub, gs[1].name, type, @.seen))]

(* Mutant: a host may be its own consumer.                                  *)
_other_subs_All(hosts) == Subscriptions

_other_subs(hosts) == Subscriptions \ hosts

_select_hosts(S, n) == {H \in SUBSET S : Cardinality(H) = Min({n, Cardinality(S)})}

_build_vnet_peering(D, hubs, spokes_per_hub) ==
    LET peer(hub, E, spoke) ==
            LET A == _ensure_anchor(E, spoke, T_VNET) IN
            IF ~Has(A.T, spoke, T_VNET) THEN A
            ELSE AddDep(A, Dep("vnet-peering", _first_of_type(A.T, hub, T_VNET),
                               _first_of_type(A.T, spoke, T_VNET), hub, spoke))
        peered(E, hub) ==
            IF ~Has(E.T, hub, T_VNET) THEN {E}
            ELSE {Fold(LAMBDA A, spoke : peer(hub, A, spoke), InOrder(spokes), E) :
                    spokes \in _select_hosts(_other_subs(hubs), spokes_per_hub)}
    IN  ForEach(peered, InOrder(hubs), {D})

(* _build_shared_keyvault and _build_log_analytics: consumers elsewhere     *)
(* depend, by their first row, on one of the shared anchors.                *)
SharedService(D, dep_type, type, hosts, consumers_per_service) ==
    LET central == {h \in hosts : Has(D.T, h, type)}
        source(i) == Keep(D.T.rows, {r \in ToSet(D.T.rows) : r.sub = i})
        use(E, i) ==
            IF source(i) = <<>> THEN {E}
            ELSE {AddDep(E, Dep(dep_type, source(i)[1], _first_of_type(D.T, h, type), i, h)) :
                    h \in central}
    IN  IF central = {} THEN {D}
        ELSE UNION {ForEach(use, InOrder(consumers), {D}) :
                    consumers \in _select_hosts(_other_subs(hosts), consumers_per_service)}

_build_private_endpoints(D) ==
    LET consumers(r) == {i \in Subscriptions \ {r.sub} : GroupsOf(D.T, i) # <<>>}
        endpoint(E, r, i) ==
            LET pe == generate_resource(i, GroupsOf(E.T, i)[1].name, T_PE, E.T.seen)
            IN  AddDep([E EXCEPT !.T = AddRow(@, pe)],
                       Dep("private-endpoint", pe, r, i, r.sub))
        reach(E, type) ==
            LET targets == {r \in ToSet(E.T.rows) : r.type = type /\ consumers(r) # {}} IN
            IF targets = {} THEN {E}
            ELSE UNION {{endpoint(E, r, i) : i \in consumers(r)} : r \in targets}
    IN  ForEach(reach, <<Storage, "Sql/servers", T_KV>>, {D})

_build_shared_acr(D, hosts) ==
    LET registries == {h \in hosts : Has(D.T, h, T_ACR)}
        clusters == Keep(D.T.rows, {r \in ToSet(D.T.rows) : r.type = T_AKS /\ r.sub \notin hosts})
        pull(E, aks) == {AddDep(E, Dep("shared-acr", aks, _first_of_type(D.T, h, T_ACR),
                                       aks.sub, h)) : h \in registries}
    IN  IF registries = {} THEN {D} ELSE ForEach(pull, clusters, {D})

(* The hosts of each service are drawn and their anchors ensured before the *)
(* first row is made.                                                       *)
build_cross_sub(t, hubs, kvs, logs, acrs) ==
    LET ensure(D, hosts, type) ==
            Fold(LAMBDA E, i : _ensure_anchor(E, i, type), InOrder(hosts), D)
        anchored == ensure(ensure(ensure(ensure([T |-> Tenant, deps |-> {}],
                        hubs, T_VNET), kvs, T_KV), logs, T_LOG_ANALYTICS), acrs, T_ACR)
        peered == _build_vnet_peering(anchored, hubs, t.spokes_per_hub)
        vaults == UNION {SharedService(D, "shared-keyvault", T_KV, kvs, t.kv_consumers) : D \in peered}
        logged == UNION {SharedService(D, "log-analytics", T_LOG_ANALYTICS, logs, N) : D \in vaults}
        linked == UNION {_build_private_endpoints(D) : D \in logged}
    IN  UNION {_build_shared_acr(D, acrs) : D \in linked}

(* assert_references_resolve: a dependency on no row fails the run.         *)
CrossSub ==
    /\ phase = "cross_sub"
    /\ \E t \in Targets :
       \E hubs \in _select_hosts(Subscriptions, t.hub_count),
          kvs \in _select_hosts(Subscriptions, t.shared_kv_count),
          logs \in _select_hosts(Subscriptions, t.log_analytics_count),
          acrs \in _select_hosts(Subscriptions, t.acr_count) :
       \E D \in build_cross_sub(t, hubs, kvs, logs, acrs) :
        /\ IsTenant(D.T)
        /\ deps' = D.deps
        /\ IF {d.source_resource_id : d \in D.deps} \cup {d.target_resource_id : d \in D.deps}
                  \subseteq ToSet(D.T.rows)
           THEN EndPass ELSE phase' = "failed"
    /\ UNCHANGED <<poolVars, calibration, tagged, flagged, violations, cost, scopes>>

-----------------------------------------------------------------------------
(* _confirm_and_rename.  names[g] is the name of group g so far; one that   *)
(* its rows do not bear out takes the generic token on its own number, or   *)
(* the next free one in its subscription.                                   *)
ConfirmedNames ==
    LET label(g) == label_map[groups[g].template]
        token(g) == confirm_token(label(g), Types(Tenant, groups[g]))
        taken(names, g) == {names[h] : h \in {h \in DOMAIN groups : h # g /\ groups[h].sub = groups[g].sub}}
        _next_free(names, g) ==
            LET used == taken(names, g)
                called(n) == [token |-> token(g), number |-> n]
            IN  IF called(groups[g].name.number) \notin used THEN called(groups[g].name.number)
                ELSE called(Min({n \in 1..Len(groups) : called(n) \notin used}))
    IN  Fold(LAMBDA names, g : IF token(g) = label(g) THEN names
                               ELSE [names EXCEPT ![g] = _next_free(names, g)],
             [g \in DOMAIN groups |-> g], [g \in DOMAIN groups |-> groups[g].name])

RewriteViolation(v, Moved(_)) ==
    [v EXCEPT !.resource_id = Moved(@),
              !.nic_id = IF @ = None THEN @ ELSE Moved(@),
              !.public_ip_id = IF @ = None THEN @ ELSE Moved(@)]

(* The sweep: every id that names a renamed group is rewritten, in rows,    *)
(* references, violations and dependencies.  seen keeps the old ids.        *)
ConfirmAndRename ==
    LET names == ConfirmedNames
        moved(sub, rg) == LET gs == {g \in DOMAIN groups : groups[g].sub = sub /\ groups[g].name = rg}
                          IN  IF gs = {} THEN rg ELSE names[CHOOSE g \in gs : TRUE]
        Moved(r) == [r EXCEPT !.rg = moved(r.sub, r.rg)]
    IN  /\ phase = "confirm"
        /\ groups' = [g \in DOMAIN groups |-> [groups[g] EXCEPT !.name = names[g]]]
        /\ rows' = [k \in DOMAIN rows |-> Moved(rows[k])]
        /\ ref' = {[src |-> Moved(e.src), via |-> e.via, dst |-> Moved(e.dst)] : e \in ref}
        /\ tagged' = {Moved(r) : r \in tagged}
        /\ flagged' = {Moved(r) : r \in flagged}
        /\ violations' = {RewriteViolation(v, Moved) : v \in violations}
        /\ deps' = {[d EXCEPT !.source_resource_id = Moved(@),
                              !.target_resource_id = Moved(@)] : d \in deps}
        /\ EndPass
        /\ UNCHANGED <<poolVars, seen, calibration, cost, scopes>>

(* A series of cost rows for every row of a type that costs.                *)
inject_cost ==
    /\ phase = "cost"
    /\ cost' = {r \in ToSet(rows) : r.type \in CostTypes}
    /\ EndPass
    /\ UNCHANGED <<poolVars, tenant, calibration, tagged, flagged, violations, deps, scopes>>

(* _scope_pools: subscriptions, groups and rows, from which assign_roles    *)
(* draws the scope of each assignment.                                      *)
_scope_pools(T) ==
    {[subscription |-> i] : i \in Subscriptions}
        \cup {[sub |-> T.groups[g].sub, rg |-> T.groups[g].name] : g \in DOMAIN T.groups}
        \cup {[resource |-> r] : r \in ToSet(T.rows)}

assign_roles ==
    /\ phase = "identity"
    /\ scopes' = _scope_pools(Tenant)
    /\ EndPass
    /\ UNCHANGED <<poolVars, tenant, calibration, tagged, flagged, violations, deps, cost>>

-----------------------------------------------------------------------------
Init ==
    /\ PoolInit
    /\ phase = "pool"
    /\ groups = <<>> /\ rows = <<>> /\ ref = {} /\ seen = {}
    /\ round = 0 /\ before = 0
    /\ tagged = {} /\ flagged = {}
    /\ violations = {} /\ deps = {} /\ cost = {} /\ scopes = {}

Pass ==
    \/ MergeSubscriptions
    \/ TrimRound \/ TrimPass \/ PadRound \/ Calibrated
    \/ assign_tags \/ inject \/ CrossSub \/ ConfirmAndRename
    \/ inject_cost \/ assign_roles

Pooled(Step) == phase = "pool" /\ Step /\ UNCHANGED <<phase, tenant, calibration, tables>>

Ended == phase \in {"done", "failed"} \/ status = "failed"

(* The call has returned; nothing else ever stops a run (deadlock is        *)
(* checked), and every Pass moves phase, round, before or the total, so     *)
(* Running is when a step of Pass is enabled.                               *)
Returned == Ended /\ UNCHANGED vars

Running == ~Ended /\ (phase # "pool" \/ status = "built")

Next == Pass \/ Pooled(PoolNext) \/ Returned

(* generate_tenant runs on while no process dies: weak fairness of the pool *)
(* and of the passes, the latter written out with Running for ENABLED.      *)
Spec ==
    /\ Init /\ [][Next]_vars
    /\ WF_vars(Pooled(PoolStep))
    /\ []<>~Running \/ []<><<Pass>>_vars

-----------------------------------------------------------------------------
(* Types; every row lies in a group of the tenant, and what is said of rows *)
(* is said of rows there are, the renamed ones included.                    *)
TypeOK ==
    /\ phase \in {"pool", "failed"} \cup ToSet(PassOrder)
    /\ status \in {"building", "built", "failed"}
    /\ claimed \in 0..N /\ round \in 0..Rounds /\ before \in Nat
    /\ \A G \in ToSet(groups) : G.sub \in Subscriptions /\ G.template \in Template
    /\ \A r \in ToSet(rows) : \E G \in ToSet(groups) : Holds(G, r)
    /\ tagged \cup flagged \cup cost \subseteq ToSet(rows)

(* GEN-08 and XSUB-06: after any pass, every id held by a row, a violation  *)
(* and its detail, a dependency, a cost row or a role assignment names a    *)
(* row, a group or a subscription there is.                                 *)
NoDanglingReference ==
    LET ids == ToSet(rows) IN
    phase \notin {"pool", "failed"} =>
        /\ \A e \in ref : e.src \in ids /\ e.dst \in ids
        /\ \A v \in violations : /\ v.resource_id \in ids
                                 /\ {v.nic_id, v.public_ip_id} \subseteq ids \cup {None}
        /\ \A d \in deps : {d.source_resource_id, d.target_resource_id} \subseteq ids
        /\ cost \subseteq ids
        /\ scopes \subseteq _scope_pools(Tenant)

(* The primary keys the writer will insert: no two rows of the tenant have  *)
(* one id, no two groups of a subscription one name, renames included.      *)
UniqueIds ==
    /\ IsInjective(rows)
    /\ IsInjective([g \in DOMAIN groups |-> <<groups[g].sub, groups[g].name>>])

(* A finished group carries its template's token only if the rows it ended  *)
(* up with, whatever pass made or removed them, bear the token out.         *)
NamesAreHonest ==
    phase = "done" => \A G \in ToSet(groups) :
        G.name.token = confirm_token(label_map[G.template], Types(Tenant, G))

(* A dependency row is about two different subscriptions, those its ends    *)
(* are in, and a hub is nobody's spoke.                                     *)
DependenciesCross ==
    /\ \A d \in deps : /\ d.source_subscription # d.target_subscription
                       /\ d.source_resource_id.sub = d.source_subscription
                       /\ d.target_resource_id.sub = d.target_subscription
    /\ \A d, e \in deps : d.type = "vnet-peering" /\ e.type = "vnet-peering" =>
        d.source_subscription # e.target_subscription

(* What synthetic.violations says of a row is still true of it when the     *)
(* tenant is done: of a public address, that the recorded interface is the  *)
(* machine's and has some address, for two machines may share it.           *)
ViolationsHold ==
    phase = "done" => \A v \in violations :
        CASE v.code = "TAG_MISSING_ENV" -> v.resource_id \notin tagged
          [] v.code = "VM_NO_BACKUP"    -> v.resource_id \in flagged
          [] v.code = "VM_PUBLIC_IP"    ->
                /\ [src |-> v.resource_id, via |-> "nic", dst |-> v.nic_id] \in ref
                /\ \E e \in ref : e.src = v.nic_id /\ e.via = "pip"

(* calibrate gives up outside its band only when nothing may be trimmed     *)
(* without leaving a reference dangling, or no group can grow, or the band  *)
(* is so narrow that the rounded aim lies outside it (a target of 13).      *)
CalibrationSettles ==
    phase = "tags" /\ Target > 0 =>
        LET total == _total(Tenant) IN
        \/ InBand(total)
        \/ 100 * total > 105 * Target /\ \A G \in ToSet(groups) : Trimmable(Tenant, G) = {}
        \/ 100 * total < 95 * Target
               /\ \A G \in ToSet(groups) : RowsIn(Tenant, G) = {} \/ sample_rg_types(G.template) = {}
        \/ total = AimHigh

(* However many processes build them and in whatever order they finish, the *)
(* subscriptions are those the one loop would build, in its order           *)
(* (the byte-identity that --jobs promises).                                *)
PoolRefines == Sequential!Spec

(* generate_tenant comes to an end: with a tenant, or failed as a whole.    *)
GenerationEnds == <>Ended
=============================================================================
