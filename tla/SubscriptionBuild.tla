-------------------------- MODULE SubscriptionBuild --------------------------
(***************************************************************************)
(* What one subscription may come out as: pipeline._build_one_subscription *)
(* and the parts of resources.py, sampling.py and naming.py it calls.      *)
(* Every seeded draw is a choice, so an operator returns the set of        *)
(* estates its function may return.  An id is the path it stands for, so   *)
(* it names the group; of a generated name only its number is kept.        *)
(***************************************************************************)
EXTENDS Archetypes, Sequences, SequencesExt

CONSTANTS
    Template,     \* the ids of resource_group_templates
    type_set,     \* type_set[t]: the types of t, or {"__misc__"}
    type_weights, \* type_weights[t]: the types with a weight of their own
    frequent,     \* resource_type_distributions: the types with a frequency
    empty_share,  \* empty_share[t]: a group of t may be empty
    RcDraws,      \* RcDraws[t]: bound: the resource counts drawn for t
    RgDraws,      \* RgDraws[i]: bound: the group counts drawn for subscription i
    Drawable      \* Drawable[i]: bound: the templates drawn for subscription i

ASSUME ProfileAssumption ==
    /\ \A t \in Template : /\ type_set[t] # {} /\ IsFiniteSet(type_set[t])
                           /\ IsFiniteSet(type_weights[t])
                           /\ RcDraws[t] \subseteq Nat \ {0}
    /\ IsFiniteSet(frequent)
    /\ \A i \in DOMAIN Drawable : Drawable[i] \subseteq Template /\ RgDraws[i] \subseteq Nat
    /\ DOMAIN type_set = Template

T_VM == "Compute/virtualMachines"
T_DISK == "Compute/disks"
T_NIC == "Network/networkInterfaces"
T_PIP == "Network/publicIPAddresses"
T_VNET == "Network/virtualNetworks"
T_SUBNET == "Network/virtualNetworks/subnets"

label_map == build_label_map(type_set)

-----------------------------------------------------------------------------
(* An estate: its groups and its rows in order, the references between      *)
(* rows, and the ids generate_resource has seen.  The group a row is held   *)
(* by is the one its id names.                                              *)
Pool(T, sub, type) == {r \in ToSet(T.rows) : r.sub = sub /\ r.type = type}

Subnets(T, sub) == {e.src : e \in {e \in T.ref : e.via = "managed_by" /\ e.src.sub = sub}}

Holds(G, r) == G.sub = r.sub /\ G.name = r.rg

AddRow(T, r) == [T EXCEPT !.rows = Append(@, r), !.seen = @ \cup {r}]

SetRef(T, src, via, dst) ==
    [T EXCEPT !.ref = {e \in @ : e.src # src \/ e.via # via}
                        \cup {[src |-> src, via |-> via, dst |-> dst]}]

(* Op on each element of seq in turn; from each estate of a set.            *)
Fold(Op(_, _), seq, T) ==
    LET f[k \in 0..Len(seq)] == IF k = 0 THEN T ELSE Op(f[k - 1], seq[k])
    IN  f[Len(seq)]

ForEach(Op(_, _), seq, Ts) == Fold(LAMBDA Us, x : UNION {Op(U, x) : U \in Us}, seq, Ts)

(* The elements of seq that are in S, in their order.                       *)
Keep(seq, S) == Fold(LAMBDA kept, x : IF x \in S THEN Append(kept, x) ELSE kept, seq, <<>>)

RowsOfType(T, sub, type) == Keep(T.rows, Pool(T, sub, type))

(* generate_resource draws names until the id is not among those seen; it   *)
(* starts with every reference null.  arm.resource_id is injective.         *)
generate_resource(sub, rg, type, seen) ==
    LET named(n) == [sub |-> sub, rg |-> rg, type |-> type, number |-> n] IN
    named(Min({n \in 1..Cardinality(seen) + 1 : named(n) \notin seen}))

(* One child row per network (bound: a network has one subnet); the network *)
(* remembers it, so a second wiring adds none.  A child's name is made from *)
(* its network's and is none that generate_resource draws: a negative one.  *)
_materialize_subnets(T, vnet) ==
    LET subnet == [vnet EXCEPT !.type = T_SUBNET, !.number = -@] IN
    IF \E e \in T.ref : e.src = subnet /\ e.via = "managed_by" THEN T
    ELSE SetRef(AddRow(T, subnet), subnet, "managed_by", vnet)

-----------------------------------------------------------------------------
(* Wiring.  A VM takes any interface and disk of its subscription, the      *)
(* first one minting them; two VMs may share.                               *)
ensure_pool(T, vm, via, type) ==
    LET pool == Pool(T, vm.sub, type)
        new == generate_resource(vm.sub, vm.rg, type, T.seen)
    IN  IF pool = {} THEN {SetRef(AddRow(T, new), vm, via, new)}
        ELSE {SetRef(T, vm, via, r) : r \in pool}

WireVm(T, vm) ==
    UNION {ensure_pool(U, vm, "disk", T_DISK) : U \in ensure_pool(T, vm, "nic", T_NIC)}

(* An interface takes a subnet, a network being minted beside it when there *)
(* is none, and a public address if the subscription has any.               *)
WireNic(T, nic) ==
    LET vnet == generate_resource(nic.sub, nic.rg, T_VNET, T.seen)
        U == IF Subnets(T, nic.sub) # {} THEN T
             ELSE _materialize_subnets(AddRow(T, vnet), vnet)
        placed == {SetRef(U, nic, "subnet", s) : s \in Subnets(U, nic.sub)}
    IN  IF Pool(T, nic.sub, T_PIP) = {} THEN placed
        ELSE {SetRef(V, nic, "pip", p) : V \in placed, p \in Pool(T, nic.sub, T_PIP)}

wire_references(T, sub) ==
    LET nets == Fold(_materialize_subnets, RowsOfType(T, sub, T_VNET), T)
        vms == ForEach(WireVm, RowsOfType(T, sub, T_VM), {nets})
    IN  UNION {ForEach(WireNic, RowsOfType(U, sub, T_NIC), {U}) : U \in vms}

-----------------------------------------------------------------------------
(* The types a group of template t draws from.                              *)
sample_rg_types(t) ==
    LET real == type_set[t] \ {"__misc__"} IN
    IF real # {} THEN real
    ELSE IF type_weights[t] # {} THEN type_weights[t]
    ELSE frequent

(* The draws of n types, as multisets: their order names nothing.           *)
TypeDraws(t, n) ==
    LET types == SetToSeq(sample_rg_types(t)) IN
    {[k \in 1..n |-> types[d[k]]] :
        d \in {f \in [1..n -> DOMAIN types] : \A k \in 1..n - 1 : f[k] <= f[k + 1]}}

_generate_rg_resources(T, G) ==
    LET fill(U, type) == AddRow(U, generate_resource(G.sub, G.name, type, U.seen)) IN
    {Fold(fill, types, T) : types \in UNION {TypeDraws(G.template, n) : n \in RcDraws[G.template]}}
        \cup IF empty_share[G.template] THEN {T} ELSE {}

(* A group named for its template's label, on a number free in the          *)
(* subscription (bound: one business unit and environment).                 *)
resource_group_name(T, token) ==
    LET used == {T.groups[g].name : g \in DOMAIN T.groups} IN
    [token |-> token,
     number |-> Min({n \in 1..Len(T.groups) + 1 : [token |-> token, number |-> n] \notin used})]

DrawGroup(T, i) ==
    UNION {LET G == [sub |-> i, name |-> resource_group_name(T, label_map[t]), template |-> t]
           IN  _generate_rg_resources([T EXCEPT !.groups = Append(@, G)], G) : t \in Drawable[i]}

_build_one_subscription(i) ==
    LET none == [groups |-> <<>>, rows |-> <<>>, ref |-> {}, seen |-> {}]
        drawn(n) == ForEach(DrawGroup, [k \in 1..n |-> i], {none})
    IN  {[groups |-> T.groups, rows |-> T.rows, ref |-> T.ref] :
            T \in UNION {wire_references(U, i) : U \in UNION {drawn(n) : n \in RgDraws[i]}}}
=============================================================================
