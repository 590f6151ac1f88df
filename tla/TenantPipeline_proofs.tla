----------------------- MODULE TenantPipeline_proofs ------------------------
(***************************************************************************)
(* The passes of generate_tenant, for any profile, catalog of templates,   *)
(* number of subscriptions and target.  What a pass leaves is a tenant     *)
(* whose ids are unique and whose references resolve; the folds over rows, *)
(* groups and subscriptions are reasoned about by induction on their       *)
(* length.                                                                 *)
(***************************************************************************)
EXTENDS TenantPipeline, SubscriptionPool_proofs, InductionLemmas

(* ------------------------------------------------------------------------ *)
(* Sequences.                                                               *)

(* Appending one element. *)
LEMMA AppendFacts ==
  ASSUME NEW D, NEW s \in Seq(D), NEW x \in D
  PROVE  /\ Append(s, x) \in Seq(D) /\ Len(Append(s, x)) = Len(s) + 1
         /\ Append(s, x)[Len(s) + 1] = x
         /\ \A j \in 1..Len(s) : Append(s, x)[j] = s[j]
         /\ ToSet(Append(s, x)) = ToSet(s) \cup {x}
<1> DEFINE t == Append(s, x)
<1>1. /\ t \in Seq(D) /\ Len(t) = Len(s) + 1 /\ t[Len(s) + 1] = x
      /\ \A j \in 1..Len(s) : t[j] = s[j]
  OBVIOUS
<1>2. Len(s) \in Nat /\ DOMAIN t = (1..Len(s)) \cup {Len(s) + 1} /\ DOMAIN s = 1..Len(s)
  BY <1>1
<1> HIDE DEF t
<1>3. ToSet(t) = ToSet(s) \cup {x}
  BY <1>1, <1>2 DEF ToSet
<1> QED
  BY <1>1, <1>3 DEF t

(* What Keep leaves of a sequence are its elements in S, with no repetition *)
(* if there was none.                                                       *)
LEMMA KeepFacts ==
  ASSUME NEW D, NEW seq \in Seq(D), NEW S
  PROVE  /\ Keep(seq, S) \in Seq(D)
         /\ ToSet(Keep(seq, S)) = ToSet(seq) \cap S
         /\ IsInjective(seq) => IsInjective(Keep(seq, S))
<1> DEFINE n == Len(seq)
           Op(kept, x) == IF x \in S THEN Append(kept, x) ELSE kept
           IsF(f) == f = [k \in 0..n |-> IF k = 0 THEN <<>> ELSE Op(f[k - 1], seq[k])]
           F == CHOOSE f : IsF(f)
           P == Seq(D)
           step == [k \in 1..n |-> [U \in P |-> Op(U, seq[k])]]
           Upto(k) == {seq[j] : j \in 1..k}
           Good(k) == /\ F[k] \in P
                      /\ {F[k][j] : j \in 1..Len(F[k])} = Upto(k) \cap S
                      /\ IsInjective(seq) => \A i, j \in 1..Len(F[k]) : F[k][i] = F[k][j] => i = j
<1>1. n \in Nat /\ \A k \in 1..n : seq[k] \in D
  OBVIOUS
<1>2. \A U \in P, k \in 1..n : Op(U, seq[k]) \in P
  BY <1>1
<1>3. step \in Steps(n, P)
  BY <1>2 DEF Steps
<1>4. <<>> \in P
  OBVIOUS
<1>5. \E f : IsF(f)
  <2>1. PICK f : Iterates(f, n, P, <<>>, step)
    <3> HIDE DEF step, P, n
    <3> QED
      BY <1>1, <1>3, <1>4, RecursionDefined
  <2>2. \A k \in 1..n : k - 1 \in 0..n /\ f[k - 1] \in P
    <3> HIDE DEF Op, P, n, step
    <3> QED
      BY <1>1, <2>1 DEF Iterates
  <2>3. f[0] = <<>> /\ \A k \in 1..n : f[k] = Op(f[k - 1], seq[k])
    BY <2>1, <2>2 DEF Iterates
  <2>4. f = [k \in 0..n |-> IF k = 0 THEN <<>> ELSE Op(f[k - 1], seq[k])]
    <3> HIDE DEF Op, P, n, step
    <3>1. \A k \in 0..n : f[k] = IF k = 0 THEN <<>> ELSE Op(f[k - 1], seq[k])
      BY <2>3, <1>1
    <3> QED
      BY <2>1, <3>1 DEF Iterates
  <2> QED
    BY <2>4
<1>6. IsF(F)
  <2> HIDE DEF IsF
  <2> QED
    BY <1>5
<1>7. F[0] = <<>> /\ \A k \in 1..n : F[k] = Op(F[k - 1], seq[k])
  <2> HIDE DEF F, Op
  <2> QED
    BY <1>1, <1>6
<1> HIDE DEF F, P
<1>8. Good(0)
  BY <1>7, <1>4
<1>9. ASSUME NEW k \in 1..n, Good(k - 1) PROVE Good(k)
  <2> DEFINE G == F[k - 1]
             x == seq[k]
  <2>1. G \in Seq(D) /\ x \in D /\ F[k] = Op(G, x)
    BY <1>1, <1>7, <1>9 DEF P
  <2>2. Upto(k) = Upto(k - 1) \cup {x}
    BY <1>1
  <2>3. CASE x \notin S
    BY <2>1, <2>2, <2>3, <1>9
  <2>4. CASE x \in S
    <3>1. F[k] = Append(G, x)
      BY <2>1, <2>4
    <3>2. /\ F[k] \in P /\ Len(F[k]) = Len(G) + 1 /\ F[k][Len(G) + 1] = x
          /\ \A j \in 1..Len(G) : F[k][j] = G[j]
      <4> HIDE DEF G, x
      <4>1. G \in Seq(D) /\ x \in D
        BY <2>1
      <4> HIDE DEF P
      <4>2. Append(G, x) \in Seq(D) /\ Len(Append(G, x)) = Len(G) + 1
            /\ Append(G, x)[Len(G) + 1] = x /\ \A j \in 1..Len(G) : Append(G, x)[j] = G[j]
        BY <4>1, AppendFacts
      <4> QED
        BY <3>1, <4>2 DEF P
    <3>3. {F[k][j] : j \in 1..Len(F[k])} = {G[j] : j \in 1..Len(G)} \cup {x}
      <4> HIDE DEF G, x
      <4>1. Len(G) \in Nat
        BY <2>1
      <4>2. 1..Len(F[k]) = (1..Len(G)) \cup {Len(G) + 1}
        BY <3>2, <4>1
      <4> QED
        BY <3>2, <4>2
    <3>4. {F[k][j] : j \in 1..Len(F[k])} = Upto(k) \cap S
      BY <3>3, <2>2, <2>4, <1>9
    <3>5. ASSUME IsInjective(seq) PROVE x \notin {G[j] : j \in 1..Len(G)}
      <4>1. x \notin Upto(k - 1)
        BY <1>1, <3>5 DEF IsInjective
      <4> QED
        BY <4>1, <1>9
    <3>6. ASSUME IsInjective(seq), NEW i \in 1..Len(F[k]), NEW j \in 1..Len(F[k]), F[k][i] = F[k][j]
          PROVE  i = j
      <4> HIDE DEF G, x
      <4>1. Len(G) \in Nat
        BY <2>1
      <4>2. CASE i \in 1..Len(G) /\ j \in 1..Len(G)
        BY <4>2, <3>2, <3>6, <1>9 DEF G
      <4>3. CASE i \in 1..Len(G) /\ j = Len(G) + 1
        BY <4>3, <3>2, <3>5, <3>6
      <4>4. CASE i = Len(G) + 1 /\ j \in 1..Len(G)
        BY <4>4, <3>2, <3>5, <3>6
      <4> QED
        BY <4>1, <4>2, <4>3, <4>4, <3>2
    <3> QED
      BY <3>2, <3>4, <3>6
  <2> QED
    BY <2>3, <2>4
<1>10. Good(n)
  <2> DEFINE A == {k \in 0..n : Good(k)}
  <2> HIDE DEF Good
  <2>1. 0 \in A /\ \A k \in 1..n : k - 1 \in A => k \in A
    BY <1>1, <1>8, <1>9
  <2> HIDE DEF A, n
  <2>2. n \in A
    <3>1. n \in 0..n
      BY <1>1
    <3> QED
      BY <1>1, <2>1, <3>1, BoundedInduction
  <2> QED
    BY <2>2 DEF A
<1>11. Keep(seq, S) = F[n]
  BY DEF Keep, Fold, F
<1>12. Upto(n) = ToSet(seq) /\ ToSet(F[n]) = {F[n][j] : j \in 1..Len(F[n])} /\ DOMAIN F[n] = 1..Len(F[n])
  BY <1>1, <1>10 DEF ToSet, P
<1> HIDE DEF n, Upto
<1> QED
  BY <1>10, <1>11, <1>12 DEF P, IsInjective

(* A sequence without repetition is as long as its set of elements is large. *)
LEMMA LenIsCardinality ==
  ASSUME NEW D, NEW seq \in Seq(D), IsInjective(seq)
  PROVE  IsFiniteSet(ToSet(seq)) /\ Cardinality(ToSet(seq)) = Len(seq)
<1>1. seq \in [1..Len(seq) -> ToSet(seq)] /\ Len(seq) \in Nat
  BY DEF ToSet
<1>2. \A x \in ToSet(seq) : \E i \in 1..Len(seq) : seq[i] = x
  BY DEF ToSet
<1>3. \A i, j \in 1..Len(seq) : seq[i] = seq[j] => i = j
  BY DEF IsInjective
<1>4. seq \in Bijection(1..Len(seq), ToSet(seq))
  BY <1>1, <1>2, <1>3 DEF Bijection, Injection, Surjection
<1>5. ExistsBijection(1..Len(seq), ToSet(seq))
  BY <1>4 DEF ExistsBijection
<1> QED
  BY <1>1, <1>5, FS_CountingElements, FS_NatBijection

(* The elements of any sequence are finitely many, as many at most as it is *)
(* long.                                                                    *)
LEMMA ElementsFinite ==
  ASSUME NEW D, NEW seq \in Seq(D)
  PROVE  IsFiniteSet(ToSet(seq)) /\ Cardinality(ToSet(seq)) <= Len(seq)
<1>1. seq \in [1..Len(seq) -> ToSet(seq)] /\ Len(seq) \in Nat
  BY DEF ToSet
<1>2. \A x \in ToSet(seq) : \E i \in 1..Len(seq) : seq[i] = x
  BY DEF ToSet
<1>3. seq \in Surjection(1..Len(seq), ToSet(seq))
  BY <1>1, <1>2 DEF Surjection
<1>4. IsFiniteSet(1..Len(seq)) /\ Cardinality(1..Len(seq)) = Len(seq)
  <2>1. \A n \in Nat : IsFiniteSet(1..n) /\ Cardinality(1..n) = n
    <3> TAKE n \in Nat
    <3>1. IsFiniteSet(1..n) /\ Cardinality(1..n) = IF 1 > n THEN 0 ELSE n - 1 + 1
      BY FS_Interval
    <3> QED
      BY <3>1
  <2> QED
    BY <1>1, <2>1
<1> QED
  BY <1>3, <1>4, FS_Surjection

(* The elements of a sequence that has been extended by another. *)
LEMMA ConcatElements ==
  ASSUME NEW D, NEW s \in Seq(D), NEW t \in Seq(D)
  PROVE  s \o t \in Seq(D) /\ ToSet(s \o t) = ToSet(s) \cup ToSet(t)
<1>1. /\ s \o t \in Seq(D) /\ Len(s \o t) = Len(s) + Len(t)
      /\ \A i \in 1..Len(s) + Len(t) : (s \o t)[i] = IF i <= Len(s) THEN s[i] ELSE t[i - Len(s)]
  OBVIOUS
<1>2. ASSUME NEW x \in ToSet(t) PROVE x \in ToSet(s \o t)
  <2>1. PICK i \in 1..Len(t) : t[i] = x
    BY DEF ToSet
  <2>2. i + Len(s) \in 1..Len(s) + Len(t) /\ ~(i + Len(s) <= Len(s)) /\ (i + Len(s)) - Len(s) = i
    OBVIOUS
  <2>3. (s \o t)[i + Len(s)] = x
    BY <1>1, <2>1, <2>2
  <2> QED
    BY <1>1, <2>2, <2>3 DEF ToSet
<1>3. ASSUME NEW x \in ToSet(s) PROVE x \in ToSet(s \o t)
  <2>1. PICK i \in 1..Len(s) : s[i] = x
    BY DEF ToSet
  <2>2. i \in 1..Len(s) + Len(t) /\ i <= Len(s)
    OBVIOUS
  <2> QED
    BY <1>1, <2>1, <2>2 DEF ToSet
<1>4. ASSUME NEW x \in ToSet(s \o t) PROVE x \in ToSet(s) \cup ToSet(t)
  <2>1. PICK i \in 1..Len(s) + Len(t) : (s \o t)[i] = x
    BY <1>1 DEF ToSet
  <2>2. CASE i <= Len(s)
    BY <1>1, <2>1, <2>2 DEF ToSet
  <2>3. CASE ~(i <= Len(s))
    <3>1. i - Len(s) \in 1..Len(t) /\ x = t[i - Len(s)]
      BY <1>1, <2>1, <2>3
    <3> QED
      BY <3>1 DEF ToSet
  <2> QED
    BY <2>2, <2>3
<1> QED
  BY <1>1, <1>2, <1>3, <1>4

(* Min returns an element. *)
LEMMA MinIn ==
  ASSUME NEW S \in SUBSET Nat, S # {}
  PROVE  Min(S) \in S
<1>1. \E x \in S : \A y \in S : x <= y
  BY LeastNatural
<1> QED
  BY <1>1 DEF Min

(* The sequence of a finite set holds elements of the set. *)
LEMMA SetToSeqRange ==
  ASSUME NEW S, IsFiniteSet(S)
  PROVE  SetToSeq(S) \in [1..Cardinality(S) -> S]
<1>1. ExistsBijection(1..Cardinality(S), S)
  BY FS_CardinalityType
<1>2. \E f \in [1..Cardinality(S) -> S] : IsInjective(f)
  BY <1>1 DEF ExistsBijection, Bijection, Injection, IsInjective
<1> QED
  BY <1>2 DEF SetToSeq

-----------------------------------------------------------------------------
(* Tenants.                                                                 *)

Group == [sub : Subscriptions, name : Name, template : Template]
Via == {"nic", "disk", "subnet", "pip", "managed_by"}
Edge == [src : Resource, via : Via, dst : Resource]
Estate == [groups : Seq(Group), rows : Seq(Resource), ref : SUBSET Edge, seen : SUBSET Resource]

(* A group is known by its subscription and name.                           *)
GroupsApart(gs) ==
    \A g, h \in DOMAIN gs : gs[g].sub = gs[h].sub /\ gs[g].name = gs[h].name => g = h

(* Ids are unique, every row lies in a group, references resolve.           *)
Solid(T) ==
    /\ GroupsApart(T.groups)
    /\ IsInjective(T.rows)
    /\ \A r \in ToSet(T.rows) : \E G \in ToSet(T.groups) : Holds(G, r)
    /\ \A e \in T.ref : e.src \in ToSet(T.rows) /\ e.dst \in ToSet(T.rows)

(* A row with a child's name is the child of a network that remembers it.   *)
ChildrenOwned(T) ==
    \A r \in ToSet(T.rows) : ~(r.number > 0) =>
        r.type = T_SUBNET /\ \E e \in T.ref : e.src = r /\ e.via = "managed_by"

(* Groups are named for their templates until the names are confirmed.      *)
Labelled(T) == \A g \in DOMAIN T.groups : T.groups[g].name.token = label_map[T.groups[g].template]

(* generate_resource knows every row, but for types of X.                   *)
Known(T, X) == IsFiniteSet(T.seen) /\ \A r \in ToSet(T.rows) : r.type \in X \/ r \in T.seen

Sound(T, X) == Solid(T) /\ ChildrenOwned(T) /\ Labelled(T) /\ Known(T, X)

(* The rows that refer to an interface.                                     *)
Attached(T) == {e.src : e \in {e \in T.ref : e.via = "nic"}}
VMs(T) == {r \in ToSet(T.rows) : r.type = T_VM}

(* What a tenant may become while its references are wired.                 *)
Grown(T) ==
    {U \in Estate : /\ Sound(U, {}) /\ U.groups = T.groups
                    /\ ToSet(T.rows) \subseteq ToSet(U.rows)
                    /\ VMs(U) = VMs(T) /\ Attached(T) \subseteq Attached(U)}

(* The types of the rows that the passes mint. *)
LEMMA MintedTypes ==
  {T_NIC, T_DISK, T_VNET, T_SUBNET, T_PIP, T_KV, T_LOG_ANALYTICS, T_ACR, T_PE} \subseteq Type
<1> DEFINE A == UNION {sample_rg_types(t) : t \in Template}
           B == {T_NIC, T_DISK, T_VNET, T_SUBNET, T_PIP, T_KV, T_LOG_ANALYTICS, T_ACR, T_PE}
<1>1. Type = A \cup B
  BY DEF Type
<1> HIDE DEF A, B
<1>2. B \subseteq Type
  BY <1>1
<1> QED
  BY <1>2 DEF B

(* A group of a tenant is a group, a row a resource. *)
LEMMA Elements ==
  ASSUME NEW T \in Estate
  PROVE  ToSet(T.groups) \subseteq Group /\ ToSet(T.rows) \subseteq Resource
BY DEF Estate, ToSet

(* The row that generate_resource returns has the type asked for, lies in   *)
(* the group asked for, and is new.                                         *)
LEMMA Generated ==
  ASSUME NEW G \in Group, NEW type \in Type, NEW ids \in SUBSET Resource, IsFiniteSet(ids),
         NEW r, r = generate_resource(G.sub, G.name, type, ids)
  PROVE  /\ r \in Resource /\ r \notin ids /\ r.type = type
         /\ r.number > 0 /\ Holds(G, r) /\ r.sub = G.sub
<1> DEFINE named(n) == [sub |-> G.sub, rg |-> G.name, type |-> type, number |-> n]
           m == Cardinality(ids)
           h == [n \in 1..m + 1 |-> named(n)]
           free == {n \in 1..m + 1 : named(n) \notin ids}
<1>1. m \in Nat
  BY FS_CardinalityType
<1>2. \A i, j \in 1..m + 1 : h[i] = h[j] => i = j
  OBVIOUS
<1>3. \E n \in 1..m + 1 : h[n] \notin ids
  <2> HIDE DEF h, m
  <2>1. m <= m /\ Cardinality(ids) <= m
    BY <1>1 DEF m
  <2> QED
    BY <1>1, <1>2, <2>1, OneIsLeft
<1>4. free \in SUBSET Nat /\ free # {}
  BY <1>1, <1>3
<1>5. Min(free) \in free
  <2> HIDE DEF free
  <2> QED
    BY <1>4, MinIn
<1>6. r = named(Min(free))
  BY DEF generate_resource
<1>7. Min(free) \in 1..m + 1 /\ named(Min(free)) \notin ids
  BY <1>5
<1>8. Min(free) \in Int /\ Min(free) > 0
  <2> HIDE DEF free
  <2> QED
    BY <1>1, <1>7
<1> HIDE DEF free
<1> QED
  BY <1>6, <1>7, <1>8 DEF Resource, Group, Holds

(* Appending an element that is not there. *)
LEMMA AppendNew ==
  ASSUME NEW D, NEW s \in Seq(D), NEW x \in D, IsInjective(s), x \notin ToSet(s)
  PROVE  IsInjective(Append(s, x))
<1> DEFINE t == Append(s, x)
<1>1. /\ t \in Seq(D) /\ Len(t) = Len(s) + 1 /\ t[Len(s) + 1] = x
      /\ \A j \in 1..Len(s) : t[j] = s[j]
  OBVIOUS
<1>2. Len(s) \in Nat /\ DOMAIN t = (1..Len(s)) \cup {Len(s) + 1} /\ DOMAIN s = 1..Len(s)
  BY <1>1
<1>3. \A j \in 1..Len(s) : s[j] \in ToSet(s)
  BY <1>2 DEF ToSet
<1> HIDE DEF t
<1>4. ASSUME NEW i \in DOMAIN t, NEW j \in DOMAIN t, t[i] = t[j] PROVE i = j
  <2>1. CASE i \in 1..Len(s) /\ j \in 1..Len(s)
    BY <1>1, <1>2, <1>4, <2>1 DEF IsInjective
  <2>2. CASE i = Len(s) + 1 /\ j \in 1..Len(s)
    BY <1>1, <1>3, <1>4, <2>2
  <2>3. CASE i \in 1..Len(s) /\ j = Len(s) + 1
    BY <1>1, <1>3, <1>4, <2>3
  <2> QED
    BY <1>2, <2>1, <2>2, <2>3
<1>5. IsInjective(t)
  BY <1>4 DEF IsInjective
<1>6. t = Append(s, x)
  BY DEF t
<1> QED
  BY <1>5, <1>6

(* A row added to one of the groups, under a new id. *)
LEMMA RowAdded ==
  ASSUME NEW T \in Estate, NEW X, Solid(T), Labelled(T), Known(T, X), NEW G \in ToSet(T.groups),
         NEW r \in Resource, r \notin ToSet(T.rows), Holds(G, r)
  PROVE  LET U == AddRow(T, r) IN
         /\ U \in Estate /\ Solid(U) /\ Labelled(U) /\ Known(U, X)
         /\ U.groups = T.groups /\ ToSet(U.rows) = ToSet(T.rows) \cup {r}
         /\ U.ref = T.ref /\ U.seen = T.seen \cup {r}
         /\ r.number > 0 /\ ChildrenOwned(T) => ChildrenOwned(U)
<1> DEFINE U == AddRow(T, r)
<1>1. /\ U.groups = T.groups /\ U.rows = Append(T.rows, r) /\ U.ref = T.ref
      /\ U.seen = T.seen \cup {r}
  BY DEF AddRow, Estate
<1>2. T.rows \in Seq(Resource) /\ T.groups \in Seq(Group) /\ T.ref \in SUBSET Edge /\ T.seen \in SUBSET Resource
  BY DEF Estate
<1>3. U.rows \in Seq(Resource) /\ ToSet(U.rows) = ToSet(T.rows) \cup {r}
  <2> HIDE DEF U
  <2>1. Append(T.rows, r) \in Seq(Resource)
    BY <1>2
  <2>2. ToSet(Append(T.rows, r)) = ToSet(T.rows) \cup {r}
    BY <1>2, AppendFacts
  <2> QED
    BY <1>1, <2>1, <2>2
<1>4. IsInjective(U.rows)
  <2> HIDE DEF U
  <2>1. IsInjective(T.rows) /\ T.rows \in Seq(Resource)
    BY <1>2 DEF Solid
  <2>2. \A D, s, x : s \in Seq(D) /\ x \in D /\ IsInjective(s) /\ x \notin ToSet(s) =>
            IsInjective(Append(s, x))
    BY AppendNew
  <2>3. IsInjective(Append(T.rows, r))
    BY <2>1, <2>2
  <2> QED
    BY <1>1, <2>3
<1>5. IsFiniteSet(U.seen)
  BY <1>1, FS_AddElement DEF Known
<1>6. U \in Estate
  <2>1. Append(T.rows, r) \in Seq(Resource) /\ T.seen \cup {r} \in SUBSET Resource
    BY <1>2
  <2> QED
    BY <2>1 DEF AddRow, Estate
<1> HIDE DEF U
<1>7. Solid(U)
  BY <1>1, <1>3, <1>4 DEF Solid
<1>8. Labelled(U) /\ Known(U, X)
  BY <1>1, <1>3, <1>5 DEF Labelled, Known
<1>9. r.number > 0 /\ ChildrenOwned(T) => ChildrenOwned(U)
  BY <1>1, <1>3 DEF ChildrenOwned
<1> QED
  BY <1>1, <1>3, <1>6, <1>7, <1>8, <1>9 DEF U

(* One row wired to another. *)
LEMMA RefSet ==
  ASSUME NEW T \in Estate, NEW X, Sound(T, X), NEW src \in ToSet(T.rows), NEW dst \in ToSet(T.rows),
         NEW via \in Via, via # "managed_by"
  PROVE  LET U == SetRef(T, src, via, dst) IN
         /\ U \in Estate /\ Sound(U, X) /\ U.groups = T.groups /\ U.rows = T.rows /\ U.seen = T.seen
         /\ Attached(T) \subseteq Attached(U)
         /\ via = "nic" => src \in Attached(U)
<1> DEFINE U == SetRef(T, src, via, dst)
           new == [src |-> src, via |-> via, dst |-> dst]
<1>1. /\ U.groups = T.groups /\ U.rows = T.rows /\ U.seen = T.seen
      /\ U.ref = {e \in T.ref : e.src # src \/ e.via # via} \cup {new}
  BY DEF SetRef, Estate
<1>2. T.rows \in Seq(Resource) /\ T.groups \in Seq(Group) /\ T.ref \in SUBSET Edge /\ T.seen \in SUBSET Resource
  BY DEF Estate
<1>3. new \in Edge
  BY Elements DEF Edge
<1>4. U \in Estate
  <2>1. {e \in T.ref : e.src # src \/ e.via # via} \cup {new} \in SUBSET Edge
    BY <1>2, <1>3
  <2> QED
    BY <2>1 DEF SetRef, Estate
<1> HIDE DEF U
<1>5. Solid(U)
  BY <1>1 DEF Solid, Sound
<1>6. ChildrenOwned(U)
  BY <1>1 DEF ChildrenOwned, Sound
<1>7. Labelled(U) /\ Known(U, X)
  BY <1>1 DEF Labelled, Known, Sound
<1>8. via = "nic" => src \in Attached(U)
  BY <1>1 DEF Attached
<1>9. ASSUME NEW s \in Attached(T) PROVE s \in Attached(U)
  <2>1. PICK e \in T.ref : e.via = "nic" /\ e.src = s
    BY DEF Attached
  <2>2. CASE e.src # src \/ e.via # via
    BY <1>1, <2>1, <2>2 DEF Attached
  <2>3. CASE e.src = src /\ e.via = via
    BY <1>8, <2>1, <2>3
  <2> QED
    BY <2>2, <2>3
<1> QED
  BY <1>1, <1>4, <1>5, <1>6, <1>7, <1>8, <1>9 DEF U, Sound

(* A network's child row. *)
LEMMA SubnetsMaterialized ==
  ASSUME NEW T \in Estate, NEW X, Sound(T, X), NEW vnet \in ToSet(T.rows), vnet.type = T_VNET
  PROVE  LET U == _materialize_subnets(T, vnet) IN
         /\ U \in Estate /\ Sound(U, X) /\ U.groups = T.groups /\ ToSet(T.rows) \subseteq ToSet(U.rows)
         /\ VMs(U) = VMs(T) /\ Attached(T) \subseteq Attached(U)
         /\ \A e \in U.ref : e.via = "managed_by" => e \in T.ref \/ e.src.sub = vnet.sub
<1> DEFINE subnet == [vnet EXCEPT !.type = T_SUBNET, !.number = -vnet.number]
           V == AddRow(T, subnet)
           new == [src |-> subnet, via |-> "managed_by", dst |-> vnet]
           U == SetRef(V, subnet, "managed_by", vnet)
<1>1. CASE \E e \in T.ref : e.src = subnet /\ e.via = "managed_by"
  BY <1>1 DEF _materialize_subnets
<1>2. CASE ~\E e \in T.ref : e.src = subnet /\ e.via = "managed_by"
  <2>1. vnet \in Resource /\ vnet.number > 0
    <3>1. T_VNET # T_SUBNET
      BY DEF T_VNET, T_SUBNET
    <3> QED
      BY <3>1, Elements DEF Sound, ChildrenOwned
  <2>2. /\ subnet \in Resource /\ ~(subnet.number > 0) /\ subnet.type = T_SUBNET
        /\ subnet.sub = vnet.sub /\ subnet.rg = vnet.rg
    <3>1. T_SUBNET \in Type
      BY MintedTypes
    <3>2. vnet.number \in Int /\ vnet.number > 0
      BY <2>1 DEF Resource
    <3>3. -vnet.number \in Int /\ ~(-vnet.number > 0)
      BY <3>2
    <3> QED
      BY <2>1, <3>1, <3>3 DEF Resource
  <2> HIDE DEF subnet
  <2>3. subnet \notin ToSet(T.rows)
    BY <1>2, <2>2 DEF Sound, ChildrenOwned
  <2>4. PICK G \in ToSet(T.groups) : Holds(G, subnet)
    BY <2>2 DEF Sound, Solid, Holds
  <2>5. /\ V \in Estate /\ Solid(V) /\ Labelled(V) /\ Known(V, X)
        /\ V.groups = T.groups /\ ToSet(V.rows) = ToSet(T.rows) \cup {subnet}
        /\ V.ref = T.ref
    BY <2>2, <2>3, <2>4, RowAdded DEF Sound
  <2> HIDE DEF V
  <2>6. /\ U.groups = V.groups /\ U.rows = V.rows /\ U.seen = V.seen
        /\ U.ref = {e \in V.ref : e.src # subnet \/ e.via # "managed_by"} \cup {new}
    BY <2>5 DEF SetRef, Estate
  <2>7. new \in Edge
    BY <2>1, <2>2 DEF Edge, Via
  <2>8. V.rows \in Seq(Resource) /\ V.groups \in Seq(Group) /\ V.ref \in SUBSET Edge /\ V.seen \in SUBSET Resource
    BY <2>5 DEF Estate
  <2>9. U \in Estate
    <3>1. {e \in V.ref : e.src # subnet \/ e.via # "managed_by"} \cup {new} \in SUBSET Edge
      BY <2>7, <2>8
    <3> QED
      BY <2>5, <3>1 DEF SetRef, Estate
  <2> HIDE DEF U
  <2>10. Solid(U) /\ Labelled(U) /\ Known(U, X)
    BY <2>5, <2>6 DEF Solid, Labelled, Known
  <2>11. ChildrenOwned(U)
    <3>1. new \in U.ref /\ new.src = subnet /\ new.via = "managed_by"
      BY <2>6
    <3>2. \A e \in T.ref : e.src # subnet => e \in U.ref
      BY <2>5, <2>6
    <3>3. ASSUME NEW r \in ToSet(T.rows), ~(r.number > 0)
          PROVE  r.type = T_SUBNET /\ \E e \in U.ref : e.src = r /\ e.via = "managed_by"
      <4>1. r.type = T_SUBNET /\ \E e \in T.ref : e.src = r /\ e.via = "managed_by"
        BY <3>3 DEF ChildrenOwned, Sound
      <4>2. r # subnet
        BY <2>3
      <4> QED
        BY <3>2, <4>1, <4>2
    <3>4. subnet.type = T_SUBNET
      BY <2>2
    <3>5. \A r \in ToSet(U.rows) : r \in ToSet(T.rows) \/ r = subnet
      BY <2>5, <2>6
    <3> QED
      BY <3>1, <3>3, <3>4, <3>5 DEF ChildrenOwned
  <2>12. VMs(U) = VMs(T)
    <3>1. T_VM # T_SUBNET
      BY DEF T_VM, T_SUBNET
    <3> QED
      BY <2>2, <2>5, <2>6, <3>1 DEF VMs
  <2>13. Attached(T) \subseteq Attached(U)
    BY <2>5, <2>6 DEF Attached
  <2>14. \A e \in U.ref : e.via = "managed_by" => e \in T.ref \/ e.src.sub = vnet.sub
    BY <2>2, <2>5, <2>6
  <2>15. _materialize_subnets(T, vnet) = U
    BY <1>2 DEF _materialize_subnets, U, V, subnet
  <2> QED
    BY <2>5, <2>6, <2>9, <2>10, <2>11, <2>12, <2>13, <2>14, <2>15 DEF Sound
<1> QED
  BY <1>1, <1>2

(* A row that generate_resource makes for a group of the tenant. *)
LEMMA RowMinted ==
  ASSUME NEW T \in Estate, NEW X, Sound(T, X), NEW G \in ToSet(T.groups), NEW type \in Type \ X,
         NEW r, r = generate_resource(G.sub, G.name, type, T.seen)
  PROVE  LET U == AddRow(T, r) IN
         /\ U \in Estate /\ Sound(U, X) /\ U.groups = T.groups /\ U.ref = T.ref
         /\ ToSet(U.rows) = ToSet(T.rows) \cup {r}
         /\ r.type = type /\ r.sub = G.sub /\ Holds(G, r)
<1>1. T.seen \in SUBSET Resource /\ IsFiniteSet(T.seen) /\ G \in Group
  BY Elements DEF Estate, Sound, Known
<1>2. r \in Resource /\ r \notin T.seen /\ r.type = type /\ r.number > 0 /\ Holds(G, r) /\ r.sub = G.sub
  BY <1>1, Generated
<1>3. r \notin ToSet(T.rows)
  BY <1>2 DEF Sound, Known
<1> QED
  BY <1>2, <1>3, RowAdded DEF Sound

(* Growth goes on, and may be nothing. *)
LEMMA GrowthComposes ==
  /\ \A T \in Estate : Sound(T, {}) => T \in Grown(T)
  /\ \A T : \A U \in Grown(T) : Grown(U) \subseteq Grown(T)
BY DEF Grown

(* What wiring does with a VM and its pool of interfaces or disks. *)
LEMMA PoolEnsured ==
  ASSUME NEW T \in Estate, Sound(T, {}), NEW vm \in ToSet(T.rows), NEW via \in {"nic", "disk"},
         NEW type \in {T_NIC, T_DISK}, NEW U \in ensure_pool(T, vm, via, type)
  PROVE  U \in Grown(T) /\ (via = "nic" => vm \in Attached(U))
<1> DEFINE pool == Pool(T, vm.sub, type)
           new == generate_resource(vm.sub, vm.rg, type, T.seen)
           V == AddRow(T, new)
<1>1. via \in Via /\ via # "managed_by"
  BY DEF Via
<1>2. CASE pool # {}
  <2>1. PICK r \in pool : U = SetRef(T, vm, via, r)
    BY <1>2 DEF ensure_pool
  <2>2. r \in ToSet(T.rows)
    BY DEF Pool
  <2>3. /\ U \in Estate /\ Sound(U, {}) /\ U.groups = T.groups /\ U.rows = T.rows
        /\ Attached(T) \subseteq Attached(U) /\ (via = "nic" => vm \in Attached(U))
    BY <1>1, <2>1, <2>2, RefSet
  <2> QED
    BY <2>3 DEF Grown, VMs
<1>3. CASE pool = {}
  <2>1. U = SetRef(V, vm, via, new)
    BY <1>3 DEF ensure_pool
  <2>2. PICK G \in ToSet(T.groups) : Holds(G, vm)
    BY DEF Sound, Solid
  <2>3. type \in Type \ {} /\ type # T_VM
    BY MintedTypes DEF T_NIC, T_DISK, T_VM
  <2>4. new = generate_resource(G.sub, G.name, type, T.seen)
    BY <2>2 DEF Holds
  <2> HIDE DEF new
  <2>5. /\ V \in Estate /\ Sound(V, {}) /\ V.groups = T.groups /\ V.ref = T.ref
        /\ ToSet(V.rows) = ToSet(T.rows) \cup {new} /\ new.type = type
    BY <2>3, <2>4, RowMinted
  <2> HIDE DEF V
  <2>6. VMs(V) = VMs(T) /\ Attached(V) = Attached(T)
    BY <2>3, <2>5 DEF VMs, Attached
  <2>7. vm \in ToSet(V.rows) /\ new \in ToSet(V.rows)
    BY <2>5
  <2>8. /\ U \in Estate /\ Sound(U, {}) /\ U.groups = V.groups /\ U.rows = V.rows
        /\ Attached(V) \subseteq Attached(U) /\ (via = "nic" => vm \in Attached(U))
    BY <1>1, <2>1, <2>5, <2>7, RefSet
  <2> QED
    BY <2>5, <2>6, <2>8 DEF Grown, VMs
<1> QED
  BY <1>2, <1>3

(* A VM that has been wired has an interface. *)
LEMMA VmWired ==
  ASSUME NEW T \in Estate, Sound(T, {}), NEW vm \in ToSet(T.rows), NEW U \in WireVm(T, vm)
  PROVE  U \in Grown(T) /\ vm \in Attached(U)
<1>1. PICK V \in ensure_pool(T, vm, "nic", T_NIC) : U \in ensure_pool(V, vm, "disk", T_DISK)
  BY DEF WireVm
<1>2. V \in Grown(T) /\ vm \in Attached(V)
  BY PoolEnsured
<1>3. V \in Estate /\ Sound(V, {}) /\ vm \in ToSet(V.rows)
  BY <1>2 DEF Grown
<1>4. U \in Grown(V)
  BY <1>1, <1>3, PoolEnsured
<1> QED
  BY <1>2, <1>4, GrowthComposes DEF Grown

(* An interface goes into a subnet, and perhaps to an address. *)
LEMMA NicWired ==
  ASSUME NEW T \in Estate, Sound(T, {}), NEW nic \in ToSet(T.rows), NEW W \in WireNic(T, nic)
  PROVE  W \in Grown(T)
<1> DEFINE vnet == generate_resource(nic.sub, nic.rg, T_VNET, T.seen)
           A == AddRow(T, vnet)
           U == IF Subnets(T, nic.sub) # {} THEN T ELSE _materialize_subnets(A, vnet)
           placed == {SetRef(U, nic, "subnet", s) : s \in Subnets(U, nic.sub)}
<1>1. U \in Grown(T)
  <2>1. CASE Subnets(T, nic.sub) # {}
    BY <2>1, GrowthComposes
  <2>2. CASE ~(Subnets(T, nic.sub) # {})
    <3>1. PICK G \in ToSet(T.groups) : Holds(G, nic)
      BY DEF Sound, Solid
    <3>2. T_VNET \in Type \ {} /\ T_VNET # T_VM
      BY MintedTypes DEF T_VNET, T_VM
    <3>3. vnet = generate_resource(G.sub, G.name, T_VNET, T.seen)
      BY <3>1 DEF Holds
    <3> HIDE DEF vnet
    <3>4. /\ A \in Estate /\ Sound(A, {}) /\ A.groups = T.groups /\ A.ref = T.ref
          /\ ToSet(A.rows) = ToSet(T.rows) \cup {vnet} /\ vnet.type = T_VNET
      BY <3>2, <3>3, RowMinted
    <3> HIDE DEF A
    <3>5. VMs(A) = VMs(T) /\ Attached(A) = Attached(T)
      BY <3>2, <3>4 DEF VMs, Attached
    <3>6. vnet \in ToSet(A.rows)
      BY <3>4
    <3>7. U = _materialize_subnets(A, vnet)
      BY <2>2
    <3> HIDE DEF U
    <3>8. /\ U \in Estate /\ Sound(U, {}) /\ U.groups = A.groups /\ ToSet(A.rows) \subseteq ToSet(U.rows)
          /\ VMs(U) = VMs(A) /\ Attached(A) \subseteq Attached(U)
      BY <3>4, <3>6, <3>7, SubnetsMaterialized
    <3> QED
      BY <3>4, <3>5, <3>8 DEF Grown
  <2> QED
    BY <2>1, <2>2
<1>2. W \in IF Pool(T, nic.sub, T_PIP) = {} THEN placed
            ELSE {SetRef(V, nic, "pip", p) : V \in placed, p \in Pool(T, nic.sub, T_PIP)}
  BY DEF WireNic
<1> HIDE DEF U, vnet
<1>3. U \in Estate /\ Sound(U, {}) /\ ToSet(T.rows) \subseteq ToSet(U.rows)
  BY <1>1 DEF Grown
<1>4. ASSUME NEW V \in placed PROVE V \in Grown(U)
  <2>1. PICK s \in Subnets(U, nic.sub) : V = SetRef(U, nic, "subnet", s)
    OBVIOUS
  <2>2. s \in ToSet(U.rows)
    BY <1>3 DEF Subnets, Sound, Solid
  <2>3. "subnet" \in Via /\ "subnet" # "managed_by"
    BY DEF Via
  <2>4. /\ V \in Estate /\ Sound(V, {}) /\ V.groups = U.groups /\ V.rows = U.rows
        /\ Attached(U) \subseteq Attached(V)
    BY <1>3, <2>1, <2>2, <2>3, RefSet
  <2> QED
    BY <2>4 DEF Grown, VMs
<1>5. ASSUME NEW V \in placed, NEW p \in Pool(T, nic.sub, T_PIP), W = SetRef(V, nic, "pip", p)
      PROVE  W \in Grown(V)
  <2>1. V \in Estate /\ Sound(V, {}) /\ nic \in ToSet(V.rows) /\ p \in ToSet(V.rows)
    BY <1>3, <1>4 DEF Grown, Pool
  <2>2. "pip" \in Via /\ "pip" # "managed_by"
    BY DEF Via
  <2>3. /\ W \in Estate /\ Sound(W, {}) /\ W.groups = V.groups /\ W.rows = V.rows
        /\ Attached(V) \subseteq Attached(W)
    BY <1>5, <2>1, <2>2, RefSet
  <2> QED
    BY <2>3 DEF Grown, VMs
<1> HIDE DEF placed
<1>6. CASE Pool(T, nic.sub, T_PIP) = {}
  BY <1>1, <1>2, <1>4, <1>6, GrowthComposes
<1>7. CASE Pool(T, nic.sub, T_PIP) # {}
  <2>1. PICK V \in placed, p \in Pool(T, nic.sub, T_PIP) : W = SetRef(V, nic, "pip", p)
    BY <1>2, <1>7
  <2>2. W \in Grown(V) /\ V \in Grown(U)
    BY <1>4, <1>5, <2>1
  <2> QED
    BY <1>1, <2>2, GrowthComposes
<1> QED
  BY <1>6, <1>7

(* Every network of a sequence gets its child rows. *)
LEMMA NetsWired ==
  ASSUME NEW T \in Estate, Sound(T, {}), NEW seq \in Seq({r \in ToSet(T.rows) : r.type = T_VNET})
  PROVE  Fold(_materialize_subnets, seq, T) \in Grown(T)
<1> DEFINE n == Len(seq)
           start == T
           Op(U, x) == _materialize_subnets(U, x)
           IsF(f) == f = [k \in 0..n |-> IF k = 0 THEN start ELSE Op(f[k - 1], seq[k])]
           F == CHOOSE f : IsF(f)
           P == Grown(T)
           step == [k \in 1..n |-> [U \in P |-> Op(U, seq[k])]]
<1>1. n \in Nat /\ \A k \in 1..n : seq[k] \in {r \in ToSet(T.rows) : r.type = T_VNET}
  OBVIOUS
<1>2. ASSUME NEW U \in P, NEW x \in {r \in ToSet(T.rows) : r.type = T_VNET} PROVE Op(U, x) \in P
  <2>1. U \in Estate /\ Sound(U, {}) /\ x \in ToSet(U.rows)
    BY DEF Grown
  <2> DEFINE V == _materialize_subnets(U, x)
  <2>2. /\ V \in Estate /\ Sound(V, {}) /\ V.groups = U.groups /\ ToSet(U.rows) \subseteq ToSet(V.rows)
        /\ VMs(V) = VMs(U) /\ Attached(U) \subseteq Attached(V)
    BY <2>1, SubnetsMaterialized
  <2> HIDE DEF V
  <2>3. V \in Grown(U)
    BY <2>2 DEF Grown
  <2> QED
    BY <2>3, GrowthComposes DEF V
<1>3. start \in P
  BY GrowthComposes
<1> HIDE DEF Op, P, n, start
<1>4. step \in Steps(n, P) /\ \A k \in 1..n : \A U \in P : step[k][U] = Op(U, seq[k])
  BY <1>1, <1>2 DEF Steps
<1> HIDE DEF step
<1>5. IsF(F)
  <2>1. PICK f : Iterates(f, n, P, start, step)
    BY <1>1, <1>3, <1>4, RecursionDefined
  <2>2. \A k \in 1..n : k - 1 \in 0..n /\ f[k - 1] \in P
    BY <1>1, <2>1 DEF Iterates
  <2>3. \A k \in 1..n : f[k] = Op(f[k - 1], seq[k])
    BY <1>4, <2>1, <2>2 DEF Iterates
  <2>4. \A k \in 0..n : f[k] = IF k = 0 THEN start ELSE Op(f[k - 1], seq[k])
    BY <1>1, <2>1, <2>3 DEF Iterates
  <2>5. IsF(f)
    BY <2>1, <2>4 DEF Iterates
  <2> HIDE DEF IsF
  <2> QED
    BY <2>5
<1> HIDE DEF F
<1>6. F[0] = start /\ \A k \in 1..n : F[k] = Op(F[k - 1], seq[k])
  BY <1>1, <1>5
<1>7. \A k \in 0..n : F[k] \in P
  <2> DEFINE A == {k \in 0..n : F[k] \in P}
  <2>1. 0 \in A /\ \A k \in 1..n : k - 1 \in A => k \in A
    BY <1>1, <1>2, <1>3, <1>6
  <2> HIDE DEF A
  <2>2. \A k \in 0..n : k \in A
    BY <1>1, <2>1, BoundedInduction
  <2> QED
    BY <2>2 DEF A
<1>8. Fold(_materialize_subnets, seq, T) = F[n]
  BY DEF Fold, F, Op, n, start
<1> QED
  BY <1>1, <1>7, <1>8 DEF P

(* Every machine of a sequence gets an interface. *)
LEMMA VmsWired ==
  ASSUME NEW T \in Estate, Sound(T, {}), NEW seq \in Seq(ToSet(T.rows)),
         NEW U \in ForEach(WireVm, seq, {T})
  PROVE  U \in Grown(T) /\ ToSet(seq) \subseteq Attached(U)
<1> DEFINE n == Len(seq)
           start == {T}
           Op(Us, x) == UNION {WireVm(V, x) : V \in Us}
           IsF(f) == f = [k \in 0..n |-> IF k = 0 THEN start ELSE Op(f[k - 1], seq[k])]
           F == CHOOSE f : IsF(f)
           P == SUBSET Grown(T)
           step == [k \in 1..n |-> [Us \in P |-> Op(Us, seq[k])]]
<1>1. n \in Nat /\ \A k \in 1..n : seq[k] \in ToSet(T.rows)
  OBVIOUS
<1>2. ASSUME NEW Us \in P, NEW x \in ToSet(T.rows) PROVE Op(Us, x) \in P
  <2>1. ASSUME NEW V \in Us, NEW W \in WireVm(V, x) PROVE W \in Grown(T)
    <3>1. V \in Grown(T)
      OBVIOUS
    <3>2. V \in Estate /\ Sound(V, {}) /\ x \in ToSet(V.rows)
      BY <3>1 DEF Grown
    <3>3. W \in Grown(V)
      BY <3>2, VmWired
    <3> QED
      BY <3>1, <3>3, GrowthComposes
  <2> QED
    BY <2>1
<1>3. start \in P
  BY GrowthComposes
<1> HIDE DEF Op, P, n, start
<1>4. step \in Steps(n, P) /\ \A k \in 1..n : \A Us \in P : step[k][Us] = Op(Us, seq[k])
  BY <1>1, <1>2 DEF Steps
<1> HIDE DEF step
<1>5. IsF(F)
  <2>1. PICK f : Iterates(f, n, P, start, step)
    BY <1>1, <1>3, <1>4, RecursionDefined
  <2>2. \A k \in 1..n : k - 1 \in 0..n /\ f[k - 1] \in P
    BY <1>1, <2>1 DEF Iterates
  <2>3. \A k \in 1..n : f[k] = Op(f[k - 1], seq[k])
    BY <1>4, <2>1, <2>2 DEF Iterates
  <2>4. \A k \in 0..n : f[k] = IF k = 0 THEN start ELSE Op(f[k - 1], seq[k])
    BY <1>1, <2>1, <2>3 DEF Iterates
  <2>5. IsF(f)
    BY <2>1, <2>4 DEF Iterates
  <2> HIDE DEF IsF
  <2> QED
    BY <2>5
<1> HIDE DEF F
<1>6. F[0] = start /\ \A k \in 1..n : F[k] = Op(F[k - 1], seq[k])
  BY <1>1, <1>5
<1>7. \A k \in 0..n : F[k] \in P
  <2> DEFINE A == {k \in 0..n : F[k] \in P}
  <2>1. 0 \in A /\ \A k \in 1..n : k - 1 \in A => k \in A
    BY <1>1, <1>2, <1>3, <1>6
  <2> HIDE DEF A
  <2>2. \A k \in 0..n : k \in A
    BY <1>1, <2>1, BoundedInduction
  <2> QED
    BY <2>2 DEF A
<1>8. ForEach(WireVm, seq, {T}) = F[n]
  BY DEF ForEach, Fold, F, Op, n, start
<1> DEFINE Done(k) == \A j \in 1..k, V \in F[k] : seq[j] \in Attached(V)
           A == {k \in 0..n : Done(k)}
<1>9. 0 \in A
  BY <1>1
<1>10. ASSUME NEW k \in 1..n, k - 1 \in A PROVE k \in A
  <2>1. ASSUME NEW j \in 1..k, NEW W \in F[k] PROVE seq[j] \in Attached(W)
    <3>1. PICK V \in F[k - 1] : W \in WireVm(V, seq[k])
      BY <1>6 DEF Op
    <3>2. V \in Grown(T) /\ seq[k] \in ToSet(T.rows)
      BY <1>1, <1>7 DEF P
    <3>3. V \in Estate /\ Sound(V, {}) /\ seq[k] \in ToSet(V.rows)
      BY <3>2 DEF Grown
    <3>4. W \in Grown(V) /\ seq[k] \in Attached(W)
      BY <3>1, <3>3, VmWired
    <3>5. Attached(V) \subseteq Attached(W)
      BY <3>4 DEF Grown
    <3>6. j = k \/ j \in 1..k - 1
      BY <1>1
    <3> QED
      BY <1>10, <3>1, <3>4, <3>5, <3>6
  <2> QED
    BY <2>1
<1> HIDE DEF A
<1>11. n \in A
  <2>1. \A k \in 0..n : k \in A
    BY <1>1, <1>9, <1>10, BoundedInduction
  <2> QED
    BY <1>1, <2>1
<1>12. \A j \in 1..n : seq[j] \in Attached(U)
  BY <1>8, <1>11 DEF A
<1>13. U \in Grown(T)
  BY <1>1, <1>7, <1>8 DEF P
<1> QED
  BY <1>12, <1>13 DEF ToSet, n

(* Every interface of a sequence goes into a subnet. *)
LEMMA NicsWired ==
  ASSUME NEW T \in Estate, Sound(T, {}), NEW seq \in Seq(ToSet(T.rows)),
         NEW U \in ForEach(WireNic, seq, {T})
  PROVE  U \in Grown(T)
<1> DEFINE n == Len(seq)
           start == {T}
           Op(Us, x) == UNION {WireNic(V, x) : V \in Us}
           IsF(f) == f = [k \in 0..n |-> IF k = 0 THEN start ELSE Op(f[k - 1], seq[k])]
           F == CHOOSE f : IsF(f)
           P == SUBSET Grown(T)
           step == [k \in 1..n |-> [Us \in P |-> Op(Us, seq[k])]]
<1>1. n \in Nat /\ \A k \in 1..n : seq[k] \in ToSet(T.rows)
  OBVIOUS
<1>2. ASSUME NEW Us \in P, NEW x \in ToSet(T.rows) PROVE Op(Us, x) \in P
  <2>1. ASSUME NEW V \in Us, NEW W \in WireNic(V, x) PROVE W \in Grown(T)
    <3>1. V \in Grown(T)
      OBVIOUS
    <3>2. V \in Estate /\ Sound(V, {}) /\ x \in ToSet(V.rows)
      BY <3>1 DEF Grown
    <3>3. W \in Grown(V)
      BY <3>2, NicWired
    <3> QED
      BY <3>1, <3>3, GrowthComposes
  <2> QED
    BY <2>1
<1>3. start \in P
  BY GrowthComposes
<1> HIDE DEF Op, P, n, start
<1>4. step \in Steps(n, P) /\ \A k \in 1..n : \A Us \in P : step[k][Us] = Op(Us, seq[k])
  BY <1>1, <1>2 DEF Steps
<1> HIDE DEF step
<1>5. IsF(F)
  <2>1. PICK f : Iterates(f, n, P, start, step)
    BY <1>1, <1>3, <1>4, RecursionDefined
  <2>2. \A k \in 1..n : k - 1 \in 0..n /\ f[k - 1] \in P
    BY <1>1, <2>1 DEF Iterates
  <2>3. \A k \in 1..n : f[k] = Op(f[k - 1], seq[k])
    BY <1>4, <2>1, <2>2 DEF Iterates
  <2>4. \A k \in 0..n : f[k] = IF k = 0 THEN start ELSE Op(f[k - 1], seq[k])
    BY <1>1, <2>1, <2>3 DEF Iterates
  <2>5. IsF(f)
    BY <2>1, <2>4 DEF Iterates
  <2> HIDE DEF IsF
  <2> QED
    BY <2>5
<1> HIDE DEF F
<1>6. F[0] = start /\ \A k \in 1..n : F[k] = Op(F[k - 1], seq[k])
  BY <1>1, <1>5
<1>7. \A k \in 0..n : F[k] \in P
  <2> DEFINE A == {k \in 0..n : F[k] \in P}
  <2>1. 0 \in A /\ \A k \in 1..n : k - 1 \in A => k \in A
    BY <1>1, <1>2, <1>3, <1>6
  <2> HIDE DEF A
  <2>2. \A k \in 0..n : k \in A
    BY <1>1, <2>1, BoundedInduction
  <2> QED
    BY <2>2 DEF A
<1>8. ForEach(WireNic, seq, {T}) = F[n]
  BY DEF ForEach, Fold, F, Op, n, start
<1> QED
  BY <1>1, <1>7, <1>8 DEF P

(* The rows of one type, in order. *)
LEMMA RowsOfTypeFacts ==
  ASSUME NEW T \in Estate, NEW sub, NEW type
  PROVE  /\ RowsOfType(T, sub, type) \in Seq(Pool(T, sub, type))
         /\ ToSet(RowsOfType(T, sub, type)) = Pool(T, sub, type)
         /\ \A D : Pool(T, sub, type) \subseteq D => RowsOfType(T, sub, type) \in Seq(D)
<1> DEFINE s == RowsOfType(T, sub, type)
<1>1. T.rows \in Seq(Resource) /\ s = Keep(T.rows, Pool(T, sub, type))
  BY DEF Estate, RowsOfType
<1>2. s \in Seq(Resource) /\ ToSet(s) = ToSet(T.rows) \cap Pool(T, sub, type)
  <2> HIDE DEF s
  <2> QED
    BY <1>1, KeepFacts
<1>3. Pool(T, sub, type) \subseteq ToSet(T.rows)
  BY DEF Pool
<1> HIDE DEF s
<1>4. s \in Seq(ToSet(s)) /\ \A D : ToSet(s) \subseteq D => s \in Seq(D)
  BY <1>2 DEF ToSet
<1> QED
  BY <1>2, <1>3, <1>4 DEF s

(* Wiring a subscription leaves a sound tenant in which every machine of    *)
(* the subscription has an interface.                                       *)
LEMMA ReferencesWired ==
  ASSUME NEW T \in Estate, Sound(T, {}), NEW sub, NEW V \in wire_references(T, sub)
  PROVE  V \in Grown(T) /\ Pool(T, sub, T_VM) \subseteq Attached(V)
<1> DEFINE nets == Fold(_materialize_subnets, RowsOfType(T, sub, T_VNET), T)
<1>1. nets \in Grown(T)
  <2>1. Pool(T, sub, T_VNET) \subseteq {r \in ToSet(T.rows) : r.type = T_VNET}
    BY DEF Pool
  <2> QED
    BY <2>1, RowsOfTypeFacts, NetsWired
<1>2. PICK U \in ForEach(WireVm, RowsOfType(T, sub, T_VM), {nets}) :
          V \in ForEach(WireNic, RowsOfType(U, sub, T_NIC), {U})
  BY DEF wire_references
<1> HIDE DEF nets
<1>3. U \in Grown(nets) /\ Pool(T, sub, T_VM) \subseteq Attached(U)
  <2>1. nets \in Estate /\ Sound(nets, {}) /\ ToSet(T.rows) \subseteq ToSet(nets.rows)
    BY <1>1 DEF Grown
  <2>2. Pool(T, sub, T_VM) \subseteq ToSet(nets.rows)
    BY <2>1 DEF Pool
  <2>3. RowsOfType(T, sub, T_VM) \in Seq(ToSet(nets.rows))
        /\ ToSet(RowsOfType(T, sub, T_VM)) = Pool(T, sub, T_VM)
    BY <2>2, RowsOfTypeFacts
  <2> QED
    BY <1>2, <2>1, <2>3, VmsWired
<1>4. V \in Grown(U)
  <2>1. U \in Estate /\ Sound(U, {})
    BY <1>3 DEF Grown
  <2>2. Pool(U, sub, T_NIC) \subseteq ToSet(U.rows)
    BY DEF Pool
  <2> QED
    BY <1>2, <2>1, <2>2, RowsOfTypeFacts, NicsWired
<1>5. Attached(U) \subseteq Attached(V)
  BY <1>4 DEF Grown
<1> QED
  BY <1>1, <1>3, <1>4, <1>5, GrowthComposes

-----------------------------------------------------------------------------
(* One subscription.                                                        *)

(* What the draws of subscription i may have made so far.                   *)
Drawn(i) == {T \in Estate : Sound(T, {}) /\ \A g \in DOMAIN T.groups : T.groups[g].sub = i}

(* A template draws rows of types there are. *)
LEMMA TypesDrawn ==
  ASSUME NEW t \in Template, NEW n \in RcDraws[t], NEW types \in TypeDraws(t, n)
  PROVE  types \in Seq(Type)
<1> DEFINE S == sample_rg_types(t)
           q == SetToSeq(S)
<1>1. n \in Nat /\ IsFiniteSet(type_set[t]) /\ IsFiniteSet(type_weights[t]) /\ IsFiniteSet(frequent)
  BY ProfileAssumption
<1>2. IsFiniteSet(S)
  <2>1. IsFiniteSet(type_set[t] \ {"__misc__"})
    BY <1>1, FS_Subset
  <2> QED
    BY <1>1, <2>1 DEF sample_rg_types
<1>3. S \subseteq Type
  BY DEF Type
<1> HIDE DEF S
<1>4. q \in [1..Cardinality(S) -> S] /\ Cardinality(S) \in Nat
  BY <1>2, SetToSeqRange, FS_CardinalityType
<1>5. PICK d \in [1..n -> DOMAIN q] : types = [k \in 1..n |-> q[d[k]]]
  BY DEF TypeDraws, S
<1> HIDE DEF q
<1>6. types \in [1..n -> Type]
  BY <1>3, <1>4, <1>5
<1> QED
  BY <1>1, <1>6

(* A row of each type of a sequence, in one group. *)
LEMMA Filled ==
  ASSUME NEW i, NEW T \in Drawn(i), NEW G \in ToSet(T.groups), NEW seq \in Seq(Type)
  PROVE  Fold(LAMBDA U, type : AddRow(U, generate_resource(G.sub, G.name, type, U.seen)), seq, T)
            \in Drawn(i)
<1> DEFINE n == Len(seq)
           start == T
           Op(U, x) == AddRow(U, generate_resource(G.sub, G.name, x, U.seen))
           IsF(f) == f = [k \in 0..n |-> IF k = 0 THEN start ELSE Op(f[k - 1], seq[k])]
           F == CHOOSE f : IsF(f)
           P == {U \in Drawn(i) : U.groups = T.groups}
           step == [k \in 1..n |-> [U \in P |-> Op(U, seq[k])]]
<1>1. n \in Nat /\ \A k \in 1..n : seq[k] \in Type
  OBVIOUS
<1>2. ASSUME NEW U \in P, NEW x \in Type PROVE Op(U, x) \in P
  <2> DEFINE r == generate_resource(G.sub, G.name, x, U.seen)
             V == AddRow(U, r)
  <2>1. U \in Estate /\ Sound(U, {}) /\ G \in ToSet(U.groups) /\ x \in Type \ {}
    BY DEF Drawn
  <2> HIDE DEF r
  <2>2. V \in Estate /\ Sound(V, {}) /\ V.groups = U.groups
    BY <2>1, RowMinted DEF r
  <2> HIDE DEF V
  <2>3. V \in P
    BY <2>2 DEF Drawn
  <2> QED
    BY <2>3 DEF V, r
<1>3. start \in P
  OBVIOUS
<1> HIDE DEF Op, P, n, start
<1>4. step \in Steps(n, P) /\ \A k \in 1..n : \A U \in P : step[k][U] = Op(U, seq[k])
  BY <1>1, <1>2 DEF Steps
<1> HIDE DEF step
<1>5. IsF(F)
  <2>1. PICK f : Iterates(f, n, P, start, step)
    BY <1>1, <1>3, <1>4, RecursionDefined
  <2>2. \A k \in 1..n : k - 1 \in 0..n /\ f[k - 1] \in P
    BY <1>1, <2>1 DEF Iterates
  <2>3. \A k \in 1..n : f[k] = Op(f[k - 1], seq[k])
    BY <1>4, <2>1, <2>2 DEF Iterates
  <2>4. \A k \in 0..n : f[k] = IF k = 0 THEN start ELSE Op(f[k - 1], seq[k])
    BY <1>1, <2>1, <2>3 DEF Iterates
  <2>5. IsF(f)
    BY <2>1, <2>4 DEF Iterates
  <2> HIDE DEF IsF
  <2> QED
    BY <2>5
<1> HIDE DEF F
<1>6. F[0] = start /\ \A k \in 1..n : F[k] = Op(F[k - 1], seq[k])
  BY <1>1, <1>5
<1>7. \A k \in 0..n : F[k] \in P
  <2> DEFINE A == {k \in 0..n : F[k] \in P}
  <2>1. 0 \in A /\ \A k \in 1..n : k - 1 \in A => k \in A
    BY <1>1, <1>2, <1>3, <1>6
  <2> HIDE DEF A
  <2>2. \A k \in 0..n : k \in A
    BY <1>1, <2>1, BoundedInduction
  <2> QED
    BY <2>2 DEF A
<1> QED
  BY <1>1, <1>7 DEF Fold, F, Op, n, start, P

(* The rows of a new group. *)
LEMMA GroupFilled ==
  ASSUME NEW i, NEW T \in Drawn(i), NEW G \in ToSet(T.groups), NEW V \in _generate_rg_resources(T, G)
  PROVE  V \in Drawn(i)
<1> DEFINE fill(U, type) == AddRow(U, generate_resource(G.sub, G.name, type, U.seen))
<1>1. G.template \in Template
  BY Elements DEF Drawn, Group
<1>2. CASE V = T
  BY <1>2
<1>3. CASE V # T
  <2>1. PICK n, types : /\ n \in RcDraws[G.template] /\ types \in TypeDraws(G.template, n)
                        /\ V = Fold(fill, types, T)
    BY <1>3 DEF _generate_rg_resources
  <2>2. types \in Seq(Type)
    BY <1>1, <2>1, TypesDrawn
  <2> HIDE DEF fill
  <2>3. Fold(fill, types, T) \in Drawn(i)
    BY <2>2, Filled DEF fill
  <2> QED
    BY <2>1, <2>3
<1> QED
  BY <1>2, <1>3

(* The name of a new group is none of those of the subscription. *)
LEMMA NameFree ==
  ASSUME NEW T \in Estate, NEW token \in {label_map[t] : t \in Template},
         NEW name, name = resource_group_name(T, token)
  PROVE  /\ name \in Name /\ name.token = token
         /\ \A g \in DOMAIN T.groups : T.groups[g].name # name
<1> DEFINE used == {T.groups[g].name : g \in DOMAIN T.groups}
           m == Len(T.groups)
           called == [n \in 1..m + 1 |-> [token |-> token, number |-> n]]
           names == [g \in 1..m |-> T.groups[g].name]
           free == {n \in 1..m + 1 : called[n] \notin used}
<1>1. m \in Nat /\ DOMAIN T.groups = 1..m
  BY DEF Estate
<1>2. IsFiniteSet(used) /\ Cardinality(used) <= m
  <2>1. names \in Seq(used) /\ Len(names) = m
    BY <1>1
  <2>2. ToSet(names) = used
    BY <1>1 DEF ToSet
  <2> HIDE DEF names, used
  <2> QED
    BY <2>1, <2>2, ElementsFinite
<1>3. \A j, k \in 1..m + 1 : called[j] = called[k] => j = k
  BY <1>1
<1>4. \E n \in 1..m + 1 : called[n] \notin used
  <2> HIDE DEF used, m, called
  <2> QED
    BY <1>1, <1>2, <1>3, OneIsLeft
<1>5. free \in SUBSET Nat /\ free # {}
  <2> HIDE DEF used, called
  <2> QED
    BY <1>1, <1>4
<1>6. name = [token |-> token, number |-> Min(free)]
  <2>1. free = {n \in 1..m + 1 : [token |-> token, number |-> n] \notin used}
    OBVIOUS
  <2> HIDE DEF free
  <2> QED
    BY <2>1 DEF resource_group_name
<1> HIDE DEF free
<1>7. Min(free) \in free
  BY <1>5, MinIn
<1>8. Min(free) \in 1..m + 1 /\ name \notin used
  BY <1>6, <1>7 DEF free
<1>9. Min(free) \in Nat \ {0}
  <2> HIDE DEF m
  <2> QED
    BY <1>1, <1>8
<1> QED
  BY <1>6, <1>8, <1>9 DEF Name

(* One more group, with its rows. *)
LEMMA GroupDrawn ==
  ASSUME NEW i \in Subscriptions, NEW T \in Drawn(i), NEW V \in DrawGroup(T, i)
  PROVE  V \in Drawn(i)
<1> DEFINE GroupOf(t) == [sub |-> i, name |-> resource_group_name(T, label_map[t]), template |-> t]
           With(G) == [T EXCEPT !.groups = Append(T.groups, G)]
<1>1. PICK t \in Drawable[i] : V \in _generate_rg_resources(With(GroupOf(t)), GroupOf(t))
  BY DEF DrawGroup
<1>2. t \in Template
  BY ProfileAssumption, PipelineAssumption
<1> DEFINE G == GroupOf(t)
           W == With(G)
<1>3. T \in Estate /\ Sound(T, {}) /\ \A g \in DOMAIN T.groups : T.groups[g].sub = i
  BY DEF Drawn
<1>4. /\ G.sub = i /\ G.template = t /\ G.name \in Name /\ G.name.token = label_map[t]
      /\ \A g \in DOMAIN T.groups : T.groups[g].name # G.name
  BY <1>2, <1>3, NameFree
<1>5. G \in Group
  BY <1>2, <1>4 DEF Group
<1> HIDE DEF GroupOf
<1>6. /\ W.groups = Append(T.groups, G) /\ W.rows = T.rows /\ W.ref = T.ref /\ W.seen = T.seen
  BY <1>3 DEF Estate
<1>7. T.groups \in Seq(Group) /\ Len(T.groups) \in Nat /\ DOMAIN T.groups = 1..Len(T.groups)
  BY <1>3 DEF Estate
<1>8. /\ W.groups \in Seq(Group) /\ DOMAIN W.groups = (DOMAIN T.groups) \cup {Len(T.groups) + 1}
      /\ W.groups[Len(T.groups) + 1] = G /\ \A g \in DOMAIN T.groups : W.groups[g] = T.groups[g]
      /\ ToSet(W.groups) = ToSet(T.groups) \cup {G}
  <2> DEFINE gs == Append(T.groups, G)
  <2>1. /\ gs \in Seq(Group) /\ Len(gs) = Len(T.groups) + 1 /\ gs[Len(T.groups) + 1] = G
        /\ \A g \in 1..Len(T.groups) : gs[g] = T.groups[g]
        /\ ToSet(gs) = ToSet(T.groups) \cup {G}
    BY <1>5, <1>7, AppendFacts
  <2>2. gs = W.groups
    BY <1>6
  <2> HIDE DEF gs, W, G
  <2>3. DOMAIN gs = (1..Len(T.groups)) \cup {Len(T.groups) + 1}
    <3>1. DOMAIN gs = 1..Len(T.groups) + 1
      BY <2>1
    <3> QED
      BY <1>7, <3>1
  <2> QED
    BY <1>7, <2>1, <2>2, <2>3
<1>9. W \in Estate
  <2>1. Append(T.groups, G) \in Seq(Group)
    BY <1>6, <1>8
  <2> QED
    BY <1>3, <2>1 DEF Estate
<1> HIDE DEF W
<1>10. GroupsApart(W.groups)
  <2>1. ASSUME NEW g \in DOMAIN W.groups, NEW h \in DOMAIN W.groups, W.groups[g].name = W.groups[h].name,
               W.groups[g].sub = W.groups[h].sub
        PROVE  g = h
    <3> HIDE DEF G
    <3>1. CASE g \in DOMAIN T.groups /\ h \in DOMAIN T.groups
      BY <1>3, <1>8, <2>1, <3>1 DEF Sound, Solid, GroupsApart
    <3>2. CASE ~(g \in DOMAIN T.groups) \/ ~(h \in DOMAIN T.groups)
      BY <1>4, <1>8, <2>1, <3>2
    <3> QED
      BY <3>1, <3>2
  <2> QED
    BY <2>1 DEF GroupsApart
<1>11. Solid(W)
  BY <1>3, <1>6, <1>8, <1>10 DEF Sound, Solid
<1>12. ChildrenOwned(W) /\ Known(W, {})
  BY <1>3, <1>6 DEF Sound, ChildrenOwned, Known
<1>13. Labelled(W)
  BY <1>3, <1>4, <1>8 DEF Sound, Labelled
<1>14. W \in Drawn(i) /\ G \in ToSet(W.groups)
  BY <1>3, <1>4, <1>8, <1>9, <1>11, <1>12, <1>13 DEF Drawn, Sound
<1>15. V \in _generate_rg_resources(W, G)
  BY <1>1 DEF W, G
<1> HIDE DEF G
<1> QED
  BY <1>14, <1>15, GroupFilled

(* Any number of groups. *)
LEMMA GroupsDrawn ==
  ASSUME NEW i \in Subscriptions, NEW seq \in Seq({i}), NEW none \in Drawn(i)
  PROVE  ForEach(DrawGroup, seq, {none}) \subseteq Drawn(i)
<1> DEFINE n == Len(seq)
           start == {none}
           Op(Us, x) == UNION {DrawGroup(U, x) : U \in Us}
           IsF(f) == f = [k \in 0..n |-> IF k = 0 THEN start ELSE Op(f[k - 1], seq[k])]
           F == CHOOSE f : IsF(f)
           P == SUBSET Drawn(i)
           step == [k \in 1..n |-> [Us \in P |-> Op(Us, seq[k])]]
<1>1. n \in Nat /\ \A k \in 1..n : seq[k] \in {i}
  OBVIOUS
<1>2. ASSUME NEW Us \in P, NEW x \in {i} PROVE Op(Us, x) \in P
  BY GroupDrawn
<1>3. start \in P
  OBVIOUS
<1> HIDE DEF Op, P, n, start
<1>4. step \in Steps(n, P) /\ \A k \in 1..n : \A Us \in P : step[k][Us] = Op(Us, seq[k])
  BY <1>1, <1>2 DEF Steps
<1> HIDE DEF step
<1>5. IsF(F)
  <2>1. PICK f : Iterates(f, n, P, start, step)
    BY <1>1, <1>3, <1>4, RecursionDefined
  <2>2. \A k \in 1..n : k - 1 \in 0..n /\ f[k - 1] \in P
    BY <1>1, <2>1 DEF Iterates
  <2>3. \A k \in 1..n : f[k] = Op(f[k - 1], seq[k])
    BY <1>4, <2>1, <2>2 DEF Iterates
  <2>4. \A k \in 0..n : f[k] = IF k = 0 THEN start ELSE Op(f[k - 1], seq[k])
    BY <1>1, <2>1, <2>3 DEF Iterates
  <2>5. IsF(f)
    BY <2>1, <2>4 DEF Iterates
  <2> HIDE DEF IsF
  <2> QED
    BY <2>5
<1> HIDE DEF F
<1>6. F[0] = start /\ \A k \in 1..n : F[k] = Op(F[k - 1], seq[k])
  BY <1>1, <1>5
<1>7. \A k \in 0..n : F[k] \in P
  <2> DEFINE A == {k \in 0..n : F[k] \in P}
  <2>1. 0 \in A /\ \A k \in 1..n : k - 1 \in A => k \in A
    BY <1>1, <1>2, <1>3, <1>6
  <2> HIDE DEF A
  <2>2. \A k \in 0..n : k \in A
    BY <1>1, <2>1, BoundedInduction
  <2> QED
    BY <2>2 DEF A
<1>8. ForEach(DrawGroup, seq, {none}) = F[n]
  BY DEF ForEach, Fold, F, Op, n, start
<1> QED
  BY <1>1, <1>7, <1>8 DEF P

(* What a subscription may be built as: a sound estate of its own, in which *)
(* every machine has an interface.                                          *)
LEMMA SubscriptionBuilt ==
  ASSUME NEW i \in Subscriptions, NEW S \in _build_one_subscription(i)
  PROVE  \E V \in Drawn(i) : /\ S.groups = V.groups /\ S.rows = V.rows /\ S.ref = V.ref
                             /\ VMs(V) \subseteq Attached(V)
<1> DEFINE none == [groups |-> <<>>, rows |-> <<>>, ref |-> {}, seen |-> {}]
           drawn(n) == ForEach(DrawGroup, [k \in 1..n |-> i], {none})
<1>1. PICK n, U, V :
          /\ n \in RgDraws[i] /\ U \in drawn(n) /\ V \in wire_references(U, i)
          /\ S = [groups |-> V.groups, rows |-> V.rows, ref |-> V.ref]
  BY DEF _build_one_subscription
<1>2. n \in Nat
  BY <1>1, ProfileAssumption, PipelineAssumption
<1>3. none \in Drawn(i)
  <2>1. none \in Estate /\ ToSet(none.rows) = {} /\ DOMAIN none.groups = {} /\ none.ref = {}
        /\ IsInjective(none.rows) /\ IsFiniteSet(none.seen)
    <3>1. IsFiniteSet({})
      BY FS_EmptySet
    <3> QED
      BY <3>1 DEF Estate, ToSet, IsInjective
  <2> HIDE DEF none
  <2> QED
    BY <2>1 DEF Drawn, Sound, Solid, GroupsApart, ChildrenOwned, Labelled, Known
<1> HIDE DEF none
<1>4. U \in Drawn(i)
  <2>1. [k \in 1..n |-> i] \in Seq({i})
    BY <1>2
  <2> QED
    BY <1>1, <1>3, <2>1, GroupsDrawn
<1>5. U \in Estate /\ Sound(U, {})
  BY <1>4 DEF Drawn
<1>6. V \in Grown(U) /\ Pool(U, i, T_VM) \subseteq Attached(V)
  BY <1>1, <1>5, ReferencesWired
<1>7. V \in Drawn(i)
  BY <1>4, <1>6 DEF Grown, Drawn
<1>8. VMs(V) \subseteq Pool(U, i, T_VM)
  <2>1. ASSUME NEW r \in VMs(U) PROVE r.sub = i
    <3>1. r \in ToSet(U.rows)
      BY DEF VMs
    <3>2. PICK G \in ToSet(U.groups) : Holds(G, r)
      BY <1>5, <3>1 DEF Sound, Solid
    <3>3. G.sub = i
      BY <1>4 DEF Drawn, ToSet
    <3> QED
      BY <3>2, <3>3 DEF Holds
  <2>2. VMs(V) = VMs(U)
    BY <1>6 DEF Grown
  <2> QED
    BY <2>1, <2>2 DEF VMs, Pool
<1> QED
  BY <1>1, <1>6, <1>7, <1>8

-----------------------------------------------------------------------------
(* The subscriptions of the pool become one tenant.                         *)

(* A sequence whose elements have different keys.                           *)
Apart(s, key) == \A i, j \in DOMAIN s : key[s[i]] = key[s[j]] => i = j

(* The parts concatenated one after the other; parts whose elements all have *)
(* different keys.                                                          *)
Chain(F, part, m, D) ==
    /\ part \in [1..m -> Seq(D)]
    /\ F[0] = <<>> /\ \A k \in 1..m : F[k] = F[k - 1] \o part[k]
ApartParts(part, m, key) ==
    /\ \A k \in 1..m : Apart(part[k], key)
    /\ \A j, k \in 1..m : j # k => \A x \in ToSet(part[j]), y \in ToSet(part[k]) : key[x] # key[y]

(* The elements of the parts, and no others, with different keys.           *)
Joins(s, part, m, D, key) ==
    /\ s \in Seq(D) /\ Apart(s, key)
    /\ \A x : x \in ToSet(s) <=> \E k \in 1..m : x \in ToSet(part[k])

(* Two sequences, whose elements have different keys. *)
LEMMA ConcatApart ==
  ASSUME NEW D, NEW s \in Seq(D), NEW t \in Seq(D), NEW key, Apart(s, key), Apart(t, key),
         \A x \in ToSet(s), y \in ToSet(t) : key[x] # key[y]
  PROVE  Apart(s \o t, key)
<1>1. /\ s \o t \in Seq(D) /\ Len(s \o t) = Len(s) + Len(t) /\ Len(s) \in Nat /\ Len(t) \in Nat
      /\ \A i \in 1..Len(s) + Len(t) : (s \o t)[i] = IF i <= Len(s) THEN s[i] ELSE t[i - Len(s)]
  OBVIOUS
<1>2. ASSUME NEW i \in 1..Len(s) + Len(t), NEW j \in 1..Len(s) + Len(t), key[(s \o t)[i]] = key[(s \o t)[j]]
      PROVE  i = j
  <2>1. \A k \in 1..Len(s) : s[k] \in ToSet(s)
    BY DEF ToSet
  <2>2. \A k \in 1..Len(t) : t[k] \in ToSet(t)
    BY DEF ToSet
  <2>3. CASE i <= Len(s) /\ j <= Len(s)
    BY <1>1, <1>2, <2>3 DEF Apart
  <2>4. CASE i <= Len(s) /\ ~(j <= Len(s))
    <3>1. i \in 1..Len(s) /\ j - Len(s) \in 1..Len(t)
      BY <2>4
    <3> QED
      BY <1>1, <1>2, <2>1, <2>2, <2>4, <3>1
  <2>5. CASE ~(i <= Len(s)) /\ j <= Len(s)
    <3>1. j \in 1..Len(s) /\ i - Len(s) \in 1..Len(t)
      BY <2>5
    <3> QED
      BY <1>1, <1>2, <2>1, <2>2, <2>5, <3>1
  <2>6. CASE ~(i <= Len(s)) /\ ~(j <= Len(s))
    <3>1. i - Len(s) \in 1..Len(t) /\ j - Len(s) \in 1..Len(t)
      BY <2>6
    <3>2. key[t[i - Len(s)]] = key[t[j - Len(s)]]
      BY <1>1, <1>2, <2>6
    <3>3. i - Len(s) = j - Len(s)
      BY <3>1, <3>2 DEF Apart
    <3> QED
      BY <3>3
  <2> QED
    BY <2>3, <2>4, <2>5, <2>6
<1>3. DOMAIN (s \o t) = 1..Len(s) + Len(t)
  BY <1>1
<1> QED
  BY <1>2, <1>3 DEF Apart

(* Sequences are concatenated one after the other; their elements stay      *)
(* apart if those of different sequences are.                               *)
LEMMA Concatenated ==
  ASSUME NEW D, NEW m \in Nat, NEW part, NEW F, Chain(F, part, m, D),
         NEW key, ApartParts(part, m, key)
  PROVE  Joins(F[m], part, m, D, key)
<1> DEFINE Good(k) == /\ F[k] \in Seq(D) /\ Apart(F[k], key)
                      /\ \A x : x \in ToSet(F[k]) <=> \E j \in 1..k : x \in ToSet(part[j])
           A == {k \in 0..m : Good(k)}
<1>1. 0 \in A
  <2>1. F[0] = <<>>
    BY DEF Chain
  <2>2. F[0] \in Seq(D) /\ DOMAIN F[0] = {} /\ ToSet(F[0]) = {}
    BY <2>1 DEF ToSet
  <2>3. Apart(F[0], key) /\ \A j \in 1..0 : FALSE
    BY <2>2 DEF Apart
  <2>4. \A x : x \in ToSet(F[0]) <=> \E j \in 1..0 : x \in ToSet(part[j])
    BY <2>2, <2>3
  <2> QED
    BY <2>2, <2>3, <2>4
<1>2. ASSUME NEW k \in 1..m, k - 1 \in A PROVE k \in A
  <2> DEFINE s == F[k - 1]
             t == part[k]
  <2>1. F[k] = s \o t /\ s \in Seq(D) /\ t \in Seq(D) /\ k \in 0..m
    <3>1. F[k] = s \o t /\ t \in Seq(D)
      BY DEF Chain
    <3> QED
      BY <1>2, <3>1
  <2>2. \A j \in 1..k : j = k \/ j \in 1..k - 1
    OBVIOUS
  <2>3. \A j \in 1..k - 1 : j \in 1..m /\ j \in 1..k /\ j # k
    OBVIOUS
  <2>4. \A x : x \in ToSet(s) <=> \E j \in 1..k - 1 : x \in ToSet(part[j])
    BY <1>2
  <2>5. Apart(s, key) /\ Apart(t, key)
    BY <1>2 DEF ApartParts
  <2> HIDE DEF s
  <2>6. \A x \in ToSet(s), y \in ToSet(t) : key[x] # key[y]
    BY <2>3, <2>4 DEF ApartParts
  <2> HIDE DEF t
  <2>7. s \o t \in Seq(D) /\ ToSet(s \o t) = ToSet(s) \cup ToSet(t)
    BY <2>1, ConcatElements
  <2>8. Apart(s \o t, key)
    BY <2>1, <2>5, <2>6, ConcatApart
  <2>9. ASSUME NEW x PROVE x \in ToSet(F[k]) <=> \E j \in 1..k : x \in ToSet(part[j])
    <3>1. x \in ToSet(F[k]) <=> x \in ToSet(s) \/ x \in ToSet(part[k])
      BY <2>1, <2>7 DEF t
    <3>2. k \in 1..k
      OBVIOUS
    <3> QED
      BY <2>2, <2>3, <2>4, <3>1, <3>2
  <2> QED
    BY <2>1, <2>7, <2>8, <2>9
<1> HIDE DEF A
<1>3. \A k \in 0..m : k \in A
  BY <1>1, <1>2, BoundedInduction
<1>4. m \in A
  BY <1>3
<1> QED
  BY <1>4 DEF A, Joins

(* The groups of the subscriptions, one list after the other. *)
LEMMA GroupsFolded ==
  ASSUME NEW D, NEW m \in Nat, NEW seq \in Seq({S \in Outcome : S.groups \in Seq(D)}), Len(seq) = m
  PROVE  \E F : /\ F[0] = <<>> /\ \A k \in 1..m : F[k] = F[k - 1] \o seq[k].groups
                /\ Fold(LAMBDA all, S : all \o S.groups, seq, <<>>) = F[m]
<1> DEFINE n == Len(seq)
           start == <<>>
           Op(U, x) == U \o x.groups
           IsF(f) == f = [k \in 0..n |-> IF k = 0 THEN start ELSE Op(f[k - 1], seq[k])]
           F == CHOOSE f : IsF(f)
           P == Seq(D)
           step == [k \in 1..n |-> [U \in P |-> Op(U, seq[k])]]
<1>1. n \in Nat /\ \A k \in 1..n : seq[k] \in {S \in Outcome : S.groups \in Seq(D)}
  OBVIOUS
<1>2. ASSUME NEW U \in P, NEW x \in {S \in Outcome : S.groups \in Seq(D)} PROVE Op(U, x) \in P
  BY ConcatElements
<1>3. start \in P
  OBVIOUS
<1> HIDE DEF Op, P, n, start
<1>4. step \in Steps(n, P) /\ \A k \in 1..n : \A U \in P : step[k][U] = Op(U, seq[k])
  BY <1>1, <1>2 DEF Steps
<1> HIDE DEF step
<1>5. IsF(F)
  <2>1. PICK f : Iterates(f, n, P, start, step)
    BY <1>1, <1>3, <1>4, RecursionDefined
  <2>2. \A k \in 1..n : k - 1 \in 0..n /\ f[k - 1] \in P
    BY <1>1, <2>1 DEF Iterates
  <2>3. \A k \in 1..n : f[k] = Op(f[k - 1], seq[k])
    BY <1>4, <2>1, <2>2 DEF Iterates
  <2>4. \A k \in 0..n : f[k] = IF k = 0 THEN start ELSE Op(f[k - 1], seq[k])
    BY <1>1, <2>1, <2>3 DEF Iterates
  <2>5. IsF(f)
    BY <2>1, <2>4 DEF Iterates
  <2> HIDE DEF IsF
  <2> QED
    BY <2>5
<1> HIDE DEF F
<1>6. F[0] = start /\ \A k \in 1..n : F[k] = Op(F[k - 1], seq[k])
  BY <1>1, <1>5
<1>7. \A k \in 0..n : F[k] \in P
  <2> DEFINE A == {k \in 0..n : F[k] \in P}
  <2>1. 0 \in A /\ \A k \in 1..n : k - 1 \in A => k \in A
    BY <1>1, <1>2, <1>3, <1>6
  <2> HIDE DEF A
  <2>2. \A k \in 0..n : k \in A
    BY <1>1, <2>1, BoundedInduction
  <2> QED
    BY <2>2 DEF A
<1>8. Fold(LAMBDA all, S : all \o S.groups, seq, <<>>) = F[m]
  BY DEF Fold, F, Op, n, start
<1> QED
  BY <1>6, <1>8 DEF Op, n, start

(* And their rows. *)
LEMMA RowsFolded ==
  ASSUME NEW D, NEW m \in Nat, NEW seq \in Seq({S \in Outcome : S.rows \in Seq(D)}), Len(seq) = m
  PROVE  \E F : /\ F[0] = <<>> /\ \A k \in 1..m : F[k] = F[k - 1] \o seq[k].rows
                /\ Fold(LAMBDA all, S : all \o S.rows, seq, <<>>) = F[m]
<1> DEFINE n == Len(seq)
           start == <<>>
           Op(U, x) == U \o x.rows
           IsF(f) == f = [k \in 0..n |-> IF k = 0 THEN start ELSE Op(f[k - 1], seq[k])]
           F == CHOOSE f : IsF(f)
           P == Seq(D)
           step == [k \in 1..n |-> [U \in P |-> Op(U, seq[k])]]
<1>1. n \in Nat /\ \A k \in 1..n : seq[k] \in {S \in Outcome : S.rows \in Seq(D)}
  OBVIOUS
<1>2. ASSUME NEW U \in P, NEW x \in {S \in Outcome : S.rows \in Seq(D)} PROVE Op(U, x) \in P
  BY ConcatElements
<1>3. start \in P
  OBVIOUS
<1> HIDE DEF Op, P, n, start
<1>4. step \in Steps(n, P) /\ \A k \in 1..n : \A U \in P : step[k][U] = Op(U, seq[k])
  BY <1>1, <1>2 DEF Steps
<1> HIDE DEF step
<1>5. IsF(F)
  <2>1. PICK f : Iterates(f, n, P, start, step)
    BY <1>1, <1>3, <1>4, RecursionDefined
  <2>2. \A k \in 1..n : k - 1 \in 0..n /\ f[k - 1] \in P
    BY <1>1, <2>1 DEF Iterates
  <2>3. \A k \in 1..n : f[k] = Op(f[k - 1], seq[k])
    BY <1>4, <2>1, <2>2 DEF Iterates
  <2>4. \A k \in 0..n : f[k] = IF k = 0 THEN start ELSE Op(f[k - 1], seq[k])
    BY <1>1, <2>1, <2>3 DEF Iterates
  <2>5. IsF(f)
    BY <2>1, <2>4 DEF Iterates
  <2> HIDE DEF IsF
  <2> QED
    BY <2>5
<1> HIDE DEF F
<1>6. F[0] = start /\ \A k \in 1..n : F[k] = Op(F[k - 1], seq[k])
  BY <1>1, <1>5
<1>7. \A k \in 0..n : F[k] \in P
  <2> DEFINE A == {k \in 0..n : F[k] \in P}
  <2>1. 0 \in A /\ \A k \in 1..n : k - 1 \in A => k \in A
    BY <1>1, <1>2, <1>3, <1>6
  <2> HIDE DEF A
  <2>2. \A k \in 0..n : k \in A
    BY <1>1, <2>1, BoundedInduction
  <2> QED
    BY <2>2 DEF A
<1>8. Fold(LAMBDA all, S : all \o S.rows, seq, <<>>) = F[m]
  BY DEF Fold, F, Op, n, start
<1> QED
  BY <1>6, <1>8 DEF Op, n, start

(* Every machine has an interface.                                          *)
Wired(T) == VMs(T) \subseteq Attached(T)

(* The tenant that the subscriptions of the pool are merged into is sound.  *)
LEMMA Merged ==
  ASSUME PoolInv, Len(merged) = N, MergeSubscriptions
  PROVE  Tenant' \in Estate /\ Sound(Tenant', {}) /\ Wired(Tenant')
<1> DEFINE V(i) == CHOOSE V \in Drawn(i) :
                       /\ merged[i].groups = V.groups /\ merged[i].rows = V.rows
                       /\ merged[i].ref = V.ref /\ VMs(V) \subseteq Attached(V)
           T == Tenant'
<1>1. N \in Nat /\ merged \in Seq(Outcome)
  BY PoolAssumption DEF PoolInv, PoolTypeOK
<1>2. ASSUME NEW i \in Subscriptions
      PROVE  /\ V(i) \in Drawn(i)
             /\ merged[i].groups = V(i).groups /\ merged[i].rows = V(i).rows
             /\ merged[i].ref = V(i).ref /\ VMs(V(i)) \subseteq Attached(V(i))
  <2>1. merged[i] = sample[i] /\ sample[i] \in Builds[i]
    BY DEF PoolInv, PoolTypeOK, ReadInOrder, Subscriptions
  <2>2. merged[i] \in _build_one_subscription(i)
    BY <2>1, PipelineAssumption
  <2>3. \E W \in Drawn(i) : /\ merged[i].groups = W.groups /\ merged[i].rows = W.rows
                            /\ merged[i].ref = W.ref /\ VMs(W) \subseteq Attached(W)
    BY <2>2, SubscriptionBuilt
  <2> QED
    BY <2>3
<1> HIDE DEF V
<1>3. ASSUME NEW i \in Subscriptions
      PROVE  /\ V(i).groups \in Seq(Group) /\ V(i).rows \in Seq(Resource) /\ V(i).ref \in SUBSET Edge
             /\ V(i) \in Estate /\ Sound(V(i), {})
             /\ \A G \in ToSet(V(i).groups) : G.sub = i
             /\ \A r \in ToSet(V(i).rows) : r.sub = i
  <2>1. V(i) \in Estate /\ Sound(V(i), {}) /\ \A g \in DOMAIN V(i).groups : V(i).groups[g].sub = i
    BY <1>2 DEF Drawn
  <2>2. \A G \in ToSet(V(i).groups) : G.sub = i
    BY <2>1 DEF ToSet
  <2>3. \A r \in ToSet(V(i).rows) : r.sub = i
    BY <2>1, <2>2 DEF Sound, Solid, Holds
  <2> QED
    BY <2>1, <2>2, <2>3 DEF Estate
<1>4. /\ groups' \in Seq(Group) /\ GroupsApart(groups')
      /\ \A G : G \in ToSet(groups') <=> \E i \in Subscriptions : G \in ToSet(V(i).groups)
  <2> DEFINE key == [G \in Group |-> <<G.sub, G.name>>]
             part == [i \in 1..N |-> merged[i].groups]
  <2>1. merged \in Seq({S \in Outcome : S.groups \in Seq(Group)})
    BY <1>1, <1>2, <1>3 DEF Subscriptions
  <2>2. PICK F : /\ F[0] = <<>> /\ \A k \in 1..N : F[k] = F[k - 1] \o merged[k].groups
                 /\ Fold(LAMBDA all, S : all \o S.groups, merged, <<>>) = F[N]
    BY <1>1, <2>1, GroupsFolded
  <2>3. groups' = F[N]
    BY <2>2 DEF MergeSubscriptions
  <2>4. part \in [1..N -> Seq(Group)] /\ \A k \in 1..N : part[k] = V(k).groups
    BY <1>2, <1>3 DEF Subscriptions
  <2>5. \A k \in 1..N : F[k] = F[k - 1] \o part[k]
    BY <2>2
  <2>6. ASSUME NEW k \in 1..N PROVE Apart(part[k], key)
    <3>1. GroupsApart(V(k).groups) /\ \A g \in DOMAIN V(k).groups : V(k).groups[g] \in Group
      BY <1>3 DEF Sound, Solid, Subscriptions
    <3>2. \A g \in DOMAIN part[k] : key[part[k][g]] = <<part[k][g].sub, part[k][g].name>>
      BY <2>4, <3>1
    <3> HIDE DEF key, part
    <3>3. GroupsApart(part[k])
      BY <2>4, <3>1
    <3> QED
      BY <3>2, <3>3 DEF Apart, GroupsApart
  <2>7. ASSUME NEW j \in 1..N, NEW k \in 1..N, j # k, NEW x \in ToSet(part[j]), NEW y \in ToSet(part[k])
        PROVE  key[x] # key[y]
    <3>1. x.sub = j /\ y.sub = k
      BY <1>3, <2>4 DEF Subscriptions
    <3>2. x \in Group /\ y \in Group
      BY <2>4 DEF ToSet
    <3> QED
      BY <2>7, <3>1, <3>2
  <2> HIDE DEF part, key
  <2>10. Chain(F, part, N, Group)
    BY <2>2, <2>4, <2>5 DEF Chain
  <2>11. ApartParts(part, N, key)
    BY <2>6, <2>7 DEF ApartParts
  <2>8. /\ F[N] \in Seq(Group) /\ Apart(F[N], key)
        /\ \A x : x \in ToSet(F[N]) <=> \E k \in 1..N : x \in ToSet(part[k])
    <3>1. N \in Nat
      BY <1>1
    <3>2. Joins(F[N], part, N, Group, key)
      BY <2>10, <2>11, <3>1, Concatenated
    <3> QED
      BY <3>2 DEF Joins
  <2>9. GroupsApart(groups')
    <3>1. \A g \in DOMAIN F[N] : F[N][g] \in Group
      BY <2>8
    <3> QED
      BY <2>3, <2>8, <3>1 DEF Apart, GroupsApart, key
  <2> QED
    BY <2>3, <2>4, <2>8, <2>9 DEF Subscriptions
<1>5. /\ rows' \in Seq(Resource) /\ IsInjective(rows')
      /\ \A r : r \in ToSet(rows') <=> \E i \in Subscriptions : r \in ToSet(V(i).rows)
  <2> DEFINE key == [r \in Resource |-> r]
             part == [i \in 1..N |-> merged[i].rows]
  <2>1. merged \in Seq({S \in Outcome : S.rows \in Seq(Resource)})
    BY <1>1, <1>2, <1>3 DEF Subscriptions
  <2>2. PICK F : /\ F[0] = <<>> /\ \A k \in 1..N : F[k] = F[k - 1] \o merged[k].rows
                 /\ Fold(LAMBDA all, S : all \o S.rows, merged, <<>>) = F[N]
    BY <1>1, <2>1, RowsFolded
  <2>3. rows' = F[N]
    BY <2>2 DEF MergeSubscriptions
  <2>4. part \in [1..N -> Seq(Resource)] /\ \A k \in 1..N : part[k] = V(k).rows
    BY <1>2, <1>3 DEF Subscriptions
  <2>5. \A k \in 1..N : F[k] = F[k - 1] \o part[k]
    BY <2>2
  <2>6. ASSUME NEW k \in 1..N PROVE Apart(part[k], key)
    <3>1. IsInjective(V(k).rows) /\ \A g \in DOMAIN V(k).rows : V(k).rows[g] \in Resource
      BY <1>3 DEF Sound, Solid, Subscriptions
    <3> QED
      BY <2>4, <3>1 DEF Apart, IsInjective
  <2>7. ASSUME NEW j \in 1..N, NEW k \in 1..N, j # k, NEW x \in ToSet(part[j]), NEW y \in ToSet(part[k])
        PROVE  key[x] # key[y]
    <3>1. x.sub = j /\ y.sub = k
      BY <1>3, <2>4 DEF Subscriptions
    <3>2. x \in Resource /\ y \in Resource
      BY <2>4 DEF ToSet
    <3> QED
      BY <2>7, <3>1, <3>2
  <2> HIDE DEF part, key
  <2>10. Chain(F, part, N, Resource)
    BY <2>2, <2>4, <2>5 DEF Chain
  <2>11. ApartParts(part, N, key)
    BY <2>6, <2>7 DEF ApartParts
  <2>8. /\ F[N] \in Seq(Resource) /\ Apart(F[N], key)
        /\ \A x : x \in ToSet(F[N]) <=> \E k \in 1..N : x \in ToSet(part[k])
    <3>1. N \in Nat
      BY <1>1
    <3>2. Joins(F[N], part, N, Resource, key)
      BY <2>10, <2>11, <3>1, Concatenated
    <3> QED
      BY <3>2 DEF Joins
  <2>9. IsInjective(rows')
    <3>1. \A g \in DOMAIN F[N] : F[N][g] \in Resource
      BY <2>8
    <3> QED
      BY <2>3, <2>8, <3>1 DEF Apart, IsInjective, key
  <2> QED
    BY <2>3, <2>4, <2>8, <2>9 DEF Subscriptions
<1>6. ref' \in SUBSET Edge /\ \A e : e \in ref' <=> \E i \in Subscriptions : e \in V(i).ref
  <2>1. ref' = UNION {merged[i].ref : i \in Subscriptions}
    BY DEF MergeSubscriptions
  <2>2. \A e : e \in ref' <=> \E i \in Subscriptions : e \in merged[i].ref
    BY <2>1
  <2>3. \A e : e \in ref' <=> \E i \in Subscriptions : e \in V(i).ref
    BY <1>2, <2>2
  <2> QED
    BY <1>3, <2>3
<1>7. /\ T.groups = groups' /\ T.rows = rows' /\ T.ref = ref' /\ T.seen = ToSet(rows')
      /\ T \in Estate
  <2>1. seen' = ToSet(rows')
    BY DEF MergeSubscriptions, SeenAfterMerge
  <2>2. ToSet(rows') \in SUBSET Resource
    BY <1>5 DEF ToSet
  <2> QED
    BY <1>4, <1>5, <1>6, <2>1, <2>2 DEF Tenant, Estate
<1> HIDE DEF T
<1>8. Solid(T)
  <2>1. ASSUME NEW r \in ToSet(T.rows) PROVE \E G \in ToSet(T.groups) : Holds(G, r)
    <3>1. PICK i \in Subscriptions : r \in ToSet(V(i).rows)
      BY <1>5, <1>7
    <3>2. PICK G \in ToSet(V(i).groups) : Holds(G, r)
      BY <1>3, <3>1 DEF Sound, Solid
    <3> QED
      BY <1>4, <1>7, <3>2
  <2>2. ASSUME NEW e \in T.ref PROVE e.src \in ToSet(T.rows) /\ e.dst \in ToSet(T.rows)
    <3>1. PICK i \in Subscriptions : e \in V(i).ref
      BY <1>6, <1>7
    <3>2. e.src \in ToSet(V(i).rows) /\ e.dst \in ToSet(V(i).rows)
      BY <1>3, <3>1 DEF Sound, Solid
    <3> QED
      BY <1>5, <1>7, <3>2
  <2> QED
    BY <1>4, <1>5, <1>7, <2>1, <2>2 DEF Solid
<1>9. ChildrenOwned(T)
  <2>1. ASSUME NEW r \in ToSet(T.rows), ~(r.number > 0)
        PROVE  r.type = T_SUBNET /\ \E e \in T.ref : e.src = r /\ e.via = "managed_by"
    <3>1. PICK i \in Subscriptions : r \in ToSet(V(i).rows)
      BY <1>5, <1>7
    <3>2. r.type = T_SUBNET /\ \E e \in V(i).ref : e.src = r /\ e.via = "managed_by"
      BY <1>3, <2>1, <3>1 DEF Sound, ChildrenOwned
    <3> QED
      BY <1>6, <1>7, <3>2
  <2> QED
    BY <2>1 DEF ChildrenOwned
<1>10. Labelled(T)
  <2>1. ASSUME NEW G \in ToSet(T.groups) PROVE G.name.token = label_map[G.template]
    <3>1. PICK i \in Subscriptions : G \in ToSet(V(i).groups)
      BY <1>4, <1>7
    <3> QED
      BY <1>3, <3>1 DEF Sound, Labelled, ToSet
  <2> QED
    BY <2>1 DEF Labelled, ToSet
<1>11. Known(T, {})
  <2>1. IsFiniteSet(ToSet(rows'))
    BY <1>5, ElementsFinite
  <2> QED
    BY <1>7, <2>1 DEF Known
<1>12. Wired(T)
  <2>1. ASSUME NEW r \in VMs(T) PROVE r \in Attached(T)
    <3>1. PICK i \in Subscriptions : r \in ToSet(V(i).rows)
      BY <1>5, <1>7 DEF VMs
    <3>2. r \in Attached(V(i))
      BY <1>2, <3>1 DEF VMs
    <3> QED
      BY <1>6, <1>7, <3>2 DEF Attached
  <2> QED
    BY <2>1 DEF Wired
<1> QED
  BY <1>7, <1>8, <1>9, <1>10, <1>11, <1>12 DEF T, Sound

-----------------------------------------------------------------------------
(* calibrate.                                                               *)

(* Ranked by size, and by place among equals. *)
Ahead(n, size, g) == {h \in 1..n : size[h] > size[g] \/ (size[h] = size[g] /\ h < g)}
IsRanking(place, n, size) == \A g \in 1..n : place[g] = 1 + Cardinality(Ahead(n, size, g))
EachRankOnce(place, n) == /\ \A k \in 1..n : \E g \in 1..n : place[g] = k
                          /\ \A g \in 1..n : place[g] \in 1..n
                          /\ \A g, h \in 1..n : place[g] = place[h] => g = h

(* The ranks of 1..n are 1..n, each taken once. *)
LEMMA RanksFilled ==
  ASSUME NEW n \in Nat, NEW size \in [1..n -> Nat], NEW place \in [1..n -> Nat],
         IsRanking(place, n, size)
  PROVE  EachRankOnce(place, n)
<1> DEFINE ahead(g) == Ahead(n, size, g)
<1>1. \A g \in 1..n : place[g] = 1 + Cardinality(ahead(g))
  BY DEF IsRanking
<1>2. IsFiniteSet(1..n) /\ Cardinality(1..n) = n
  <2>1. Cardinality(1..n) = IF 1 > n THEN 0 ELSE n - 1 + 1
    BY FS_Interval
  <2> QED
    BY <2>1, FS_Interval
<1>3. ASSUME NEW g \in 1..n
      PROVE  IsFiniteSet(ahead(g)) /\ Cardinality(ahead(g)) \in Nat /\ Cardinality(ahead(g)) < n
  <2>1. ahead(g) \in SUBSET (1..n) /\ g \notin ahead(g)
    BY DEF Ahead
  <2> HIDE DEF ahead
  <2>2. IsFiniteSet(ahead(g)) /\ Cardinality(ahead(g)) <= Cardinality(1..n)
        /\ (Cardinality(ahead(g)) = Cardinality(1..n) => ahead(g) = 1..n)
    BY <1>2, <2>1, FS_Subset
  <2>3. Cardinality(ahead(g)) \in Nat
    BY <2>2, FS_CardinalityType
  <2> QED
    BY <1>2, <2>1, <2>2, <2>3
<1>4. ASSUME NEW g \in 1..n, NEW h \in 1..n, h \in ahead(g) PROVE place[h] < place[g]
  <2>1. ahead(h) \in SUBSET ahead(g) /\ h \notin ahead(h)
    BY <1>4 DEF Ahead
  <2> HIDE DEF ahead
  <2>2. Cardinality(ahead(h)) <= Cardinality(ahead(g))
        /\ (Cardinality(ahead(g)) = Cardinality(ahead(h)) => ahead(g) = ahead(h))
    BY <1>3, <2>1, FS_Subset
  <2>3. Cardinality(ahead(h)) < Cardinality(ahead(g))
    BY <1>3, <1>4, <2>1, <2>2
  <2> QED
    BY <1>1, <1>3, <2>3
<1>5. ASSUME NEW g \in 1..n, NEW h \in 1..n, place[g] = place[h] PROVE g = h
  <2>1. g \in ahead(h) \/ h \in ahead(g) \/ g = h
    BY DEF Ahead
  <2> HIDE DEF ahead
  <2> QED
    BY <1>4, <1>5, <2>1
<1>6. place \in [1..n -> 1..n]
  <2> HIDE DEF ahead
  <2>1. \A g \in 1..n : place[g] \in 1..n
    BY <1>1, <1>3
  <2> QED
    BY <2>1
<1>7. place \in Injection(1..n, 1..n)
  BY <1>5, <1>6 DEF Injection, IsInjective
<1>8. place \in Surjection(1..n, 1..n)
  BY <1>2, <1>7, FS_Injection
<1> QED
  BY <1>5, <1>6, <1>8 DEF Surjection, EachRankOnce

(* Sorted by size, the groups are still the groups of the tenant. *)
LEMMA BySizeFacts ==
  ASSUME NEW T \in Estate
  PROVE  BySize(T) \in Seq(ToSet(T.groups)) /\ ToSet(BySize(T)) = ToSet(T.groups)
<1> DEFINE n == Len(T.groups)
           size == [g \in DOMAIN T.groups |-> Cardinality(RowsIn(T, T.groups[g]))]
           rank(g) == 1 + Cardinality({h \in DOMAIN T.groups :
                             size[h] > size[g] \/ (size[h] = size[g] /\ h < g)})
           place == [g \in 1..n |-> rank(g)]
           pick(k) == CHOOSE g \in DOMAIN T.groups : rank(g) = k
<1>1. n \in Nat /\ DOMAIN T.groups = 1..n /\ T.rows \in Seq(Resource)
  BY DEF Estate
<1>2. size \in [1..n -> Nat]
  <2>1. IsFiniteSet(ToSet(T.rows))
    BY <1>1, ElementsFinite
  <2>2. \A g \in 1..n : RowsIn(T, T.groups[g]) \in SUBSET ToSet(T.rows)
    BY DEF RowsIn
  <2>3. \A g \in 1..n : Cardinality(RowsIn(T, T.groups[g])) \in Nat
    BY <2>1, <2>2, FS_Subset, FS_CardinalityType
  <2> QED
    BY <1>1, <2>3
<1> HIDE DEF size
<1>3. place \in [1..n -> Nat]
  <2>1. \A g \in 1..n : Cardinality({h \in 1..n : size[h] > size[g] \/ (size[h] = size[g] /\ h < g)}) \in Nat
    <3> TAKE g \in 1..n
    <3> DEFINE S == {h \in 1..n : size[h] > size[g] \/ (size[h] = size[g] /\ h < g)}
    <3>1. S \in SUBSET (1..n) /\ IsFiniteSet(1..n)
      BY <1>1, FS_Interval
    <3> HIDE DEF S
    <3>2. Cardinality(S) \in Nat
      BY <3>1, FS_Subset, FS_CardinalityType
    <3> QED
      BY <3>2 DEF S
  <2> QED
    BY <1>1, <2>1
<1>4. IsRanking(place, n, size)
  BY <1>1 DEF IsRanking, Ahead
<1>5. /\ \A k \in 1..n : \E g \in 1..n : place[g] = k
      /\ \A g \in 1..n : place[g] \in 1..n
      /\ \A g, h \in 1..n : place[g] = place[h] => g = h
  <2> HIDE DEF place, n
  <2>1. n \in Nat
    BY <1>1
  <2>2. EachRankOnce(place, n)
    BY <1>2, <1>3, <1>4, <2>1, RanksFilled
  <2> QED
    BY <2>2 DEF EachRankOnce
<1>6. \A k \in 1..n : pick(k) \in 1..n
  <2> HIDE DEF n, rank
  <2>1. \A k \in 1..n : \E g \in DOMAIN T.groups : rank(g) = k
    BY <1>1, <1>5
  <2> QED
    BY <1>1, <2>1
<1>7. \A g \in 1..n : pick(place[g]) = g
  <2> HIDE DEF n, rank
  <2> SUFFICES ASSUME NEW g \in 1..n PROVE pick(place[g]) = g
    OBVIOUS
  <2>1. \A h \in DOMAIN T.groups : rank(h) = place[h]
    BY <1>1
  <2>2. rank(pick(place[g])) = place[g] /\ pick(place[g]) \in 1..n
    BY <1>1, <2>1
  <2> HIDE DEF pick
  <2> QED
    BY <1>1, <1>5, <2>1, <2>2
<1>8. BySize(T) = [k \in DOMAIN T.groups |-> T.groups[pick(k)]]
  BY DEF BySize, size
<1> HIDE DEF pick
<1>9. \A k \in 1..n : T.groups[pick(k)] \in ToSet(T.groups)
  BY <1>1, <1>6 DEF ToSet
<1> HIDE DEF n
<1>10. BySize(T) \in [1..n -> ToSet(T.groups)]
  BY <1>1, <1>8, <1>9
<1>11. ASSUME NEW g \in 1..n PROVE T.groups[g] \in ToSet(BySize(T))
  <2>1. BySize(T)[place[g]] = T.groups[g]
    BY <1>1, <1>5, <1>8, <1>7
  <2>2. place[g] \in DOMAIN BySize(T)
    BY <1>5, <1>10
  <2> QED
    BY <2>1, <2>2 DEF ToSet
<1>12. ToSet(BySize(T)) = ToSet(T.groups)
  BY <1>1, <1>10, <1>11 DEF ToSet
<1> QED
  BY <1>1, <1>10, <1>12

(* The last row of a set of named rows is one of them. *)
LEMMA LastByIdIn ==
  ASSUME NEW S \in SUBSET Resource, IsFiniteSet(S), S # {}, \A r \in S : r.number > 0
  PROVE  LastById(S) \in S
<1> DEFINE rank(r) == CHOOSE k \in DOMAIN TypeOrder : TypeOrder[k] = r.type
           ranks == {rank(r) : r \in S}
           last == {r \in S : \A q \in S : rank(q) <= rank(r)}
           f == [r \in last |-> r.number]
           numbers == {r.number : r \in last}
<1>1. \A r \in S : r.type \in Type /\ r.number \in Nat
  BY DEF Resource
<1>2. \A r \in S : rank(r) \in DOMAIN TypeOrder
  <2>1. \A type \in Type : \E k \in DOMAIN TypeOrder : TypeOrder[k] = type
    BY PipelineAssumption DEF ToSet
  <2> QED
    BY <1>1, <2>1
<1> HIDE DEF rank
<1>3. ranks \in SUBSET Nat /\ IsFiniteSet(ranks) /\ ranks # {}
  <2>1. Len(TypeOrder) \in Nat /\ DOMAIN TypeOrder = 1..Len(TypeOrder)
    BY PipelineAssumption
  <2>2. ranks \in SUBSET (1..Len(TypeOrder)) /\ ranks # {}
    BY <1>2, <2>1
  <2> HIDE DEF ranks
  <2>4. IsFiniteSet(1..Len(TypeOrder))
    BY <2>1, FS_Interval
  <2>3. IsFiniteSet(ranks)
    BY <2>2, <2>4, FS_Subset
  <2> QED
    BY <2>1, <2>2, <2>3
<1>4. last # {}
  <2>1. PICK m \in ranks : \A k \in ranks : k <= m
    <3> HIDE DEF ranks
    <3> QED
      BY <1>3, GreatestNatural
  <2> QED
    BY <2>1
<1>5. IsFiniteSet(last) /\ last \subseteq S
  <2>1. last \in SUBSET S
    OBVIOUS
  <2> HIDE DEF last
  <2> QED
    BY <2>1, FS_Subset
<1> HIDE DEF last
<1>6. f \in Surjection(last, numbers)
  BY DEF Surjection
<1>7. numbers \in SUBSET Nat /\ numbers # {}
  BY <1>1, <1>4, <1>5
<1> HIDE DEF numbers, f
<1>8. IsFiniteSet(numbers)
  BY <1>5, <1>6, FS_Surjection
<1>9. PICK m \in numbers : \A k \in numbers : k <= m
  BY <1>7, <1>8, GreatestNatural
<1>10. \E r \in last : \A q \in last : q.number <= r.number
  BY <1>9 DEF numbers
<1>11. LastById(S) = CHOOSE r \in last : \A q \in last : q.number <= r.number
  BY DEF LastById, last, rank
<1> QED
  BY <1>5, <1>10, <1>11

(* What a pass of _trim may leave. *)
Trimmed(T) ==
    {U \in Estate : /\ Sound(U, {}) /\ Wired(U) /\ U.groups = T.groups
                    /\ U.ref \subseteq T.ref}

(* A row that nothing refers to, and that is no child, is dropped. *)
LEMMA RowDropped ==
  ASSUME NEW T \in Estate, NEW U \in Trimmed(T), NEW r \in Resource, r \notin _referenced_ids(T),
         ~_is_child_row(T, r)
  PROVE  DropRow(U, r) \in Trimmed(T)
<1> DEFINE V == DropRow(U, r)
           S == ToSet(U.rows) \ {r}
<1>1. /\ U \in Estate /\ Sound(U, {}) /\ Wired(U) /\ U.groups = T.groups /\ U.ref \subseteq T.ref
      /\ U.rows \in Seq(Resource) /\ U.ref \in SUBSET Edge /\ U.seen \in SUBSET Resource
      /\ U.groups \in Seq(Group)
  BY DEF Trimmed, Estate
<1>2. /\ V.groups = U.groups /\ V.rows = Keep(U.rows, S)
      /\ V.ref = {e \in U.ref : e.src # r} /\ V.seen = U.seen \ {r}
  BY <1>1 DEF DropRow, Estate
<1>3. Keep(U.rows, S) \in Seq(Resource) /\ ToSet(Keep(U.rows, S)) = ToSet(U.rows) \ {r}
      /\ IsInjective(Keep(U.rows, S))
  <2>1. /\ Keep(U.rows, S) \in Seq(Resource)
        /\ ToSet(Keep(U.rows, S)) = ToSet(U.rows) \cap S
        /\ IsInjective(U.rows) => IsInjective(Keep(U.rows, S))
    <3> HIDE DEF S
    <3> QED
      BY <1>1, KeepFacts
  <2> QED
    BY <1>1, <2>1 DEF Sound, Solid
<1>4. V \in Estate
  <2>1. {e \in U.ref : e.src # r} \in SUBSET Edge /\ U.seen \ {r} \in SUBSET Resource
    BY <1>1
  <2> HIDE DEF S
  <2> QED
    BY <1>1, <1>3, <2>1 DEF DropRow, Estate, S
<1> HIDE DEF V, S
<1>5. \A e \in V.ref : e \in U.ref /\ e.src # r /\ e.dst # r
  BY <1>1, <1>2 DEF _referenced_ids
<1>6. ToSet(V.rows) = ToSet(U.rows) \ {r}
  BY <1>2, <1>3
<1>7. Solid(V)
  BY <1>1, <1>2, <1>3, <1>5, <1>6 DEF Sound, Solid
<1>8. ChildrenOwned(V)
  BY <1>1, <1>2, <1>6 DEF Sound, ChildrenOwned
<1>9. Labelled(V)
  BY <1>1, <1>2 DEF Sound, Labelled
<1>10. Known(V, {})
  <2>1. IsFiniteSet(U.seen)
    BY <1>1 DEF Sound, Known
  <2>2. IsFiniteSet(V.seen)
    BY <1>2, <2>1, FS_RemoveElement
  <2> QED
    BY <1>1, <1>2, <1>6, <2>2 DEF Sound, Known
<1>11. Wired(V)
  BY <1>1, <1>2, <1>6 DEF Wired, VMs, Attached
<1>12. V.ref \subseteq T.ref
  BY <1>1, <1>5
<1> QED
  BY <1>1, <1>2, <1>4, <1>7, <1>8, <1>9, <1>10, <1>11, <1>12 DEF V, Trimmed, Sound

(* A row dropped is one row less, if it was there. *)
LEMMA DropCounted ==
  ASSUME NEW U \in Estate, Solid(U), NEW r
  PROVE  /\ _total(U) \in Nat /\ _total(DropRow(U, r)) \in Nat
         /\ _total(DropRow(U, r)) = IF r \in ToSet(U.rows) THEN _total(U) - 1 ELSE _total(U)
<1> DEFINE S == ToSet(U.rows) \ {r}
           kept == Keep(U.rows, S)
<1>1. U.rows \in Seq(Resource) /\ IsInjective(U.rows)
  BY DEF Estate, Solid
<1>2. DropRow(U, r).rows = kept
  BY DEF DropRow, Estate
<1>3. kept \in Seq(Resource) /\ ToSet(kept) = ToSet(U.rows) \cap S /\ IsInjective(kept)
  <2> HIDE DEF S
  <2> QED
    BY <1>1, KeepFacts
<1> HIDE DEF kept
<1>4. /\ IsFiniteSet(ToSet(U.rows)) /\ Cardinality(ToSet(U.rows)) = Len(U.rows)
      /\ Cardinality(ToSet(kept)) = Len(kept)
  BY <1>1, <1>3, LenIsCardinality
<1>5. ToSet(kept) = ToSet(U.rows) \ {r}
  BY <1>3
<1>6. Cardinality(ToSet(U.rows) \ {r}) =
          IF r \in ToSet(U.rows) THEN Cardinality(ToSet(U.rows)) - 1 ELSE Cardinality(ToSet(U.rows))
  BY <1>4, FS_RemoveElement
<1>7. Len(U.rows) \in Nat /\ Len(kept) \in Nat
  BY <1>1, <1>3
<1> QED
  BY <1>2, <1>4, <1>5, <1>6, <1>7 DEF _total

(* The row that _trim takes from a group is one that may be trimmed. *)
LEMMA VictimChosen ==
  ASSUME NEW T \in Estate, Sound(T, {}), NEW G, Trimmable(T, G) # {}
  PROVE  LET r == LastById(Trimmable(T, G)) IN r \in Trimmable(T, G) /\ r \in ToSet(T.rows)
<1> DEFINE S == Trimmable(T, G)
<1>1. S \in SUBSET ToSet(T.rows) /\ \A r \in S : ~_is_child_row(T, r)
  BY DEF Trimmable, RowsIn
<1>2. \A r \in S : r.number > 0
  BY <1>1 DEF Sound, ChildrenOwned, _is_child_row
<1>3. IsFiniteSet(ToSet(T.rows)) /\ ToSet(T.rows) \subseteq Resource
  BY Elements, ElementsFinite DEF Estate
<1> HIDE DEF S
<1>4. IsFiniteSet(S) /\ S \in SUBSET Resource /\ S # {}
  BY <1>1, <1>3, FS_Subset DEF S
<1>5. LastById(S) \in S
  BY <1>2, <1>4, LastByIdIn
<1> QED
  BY <1>1, <1>5 DEF S

(* Nothing of the tenant may be trimmed.                                    *)
Leafless(T) == \A G \in ToSet(T.groups) : Trimmable(T, G) = {}

(* A pass of _trim leaves a sound tenant; it never goes below its aim, and  *)
(* it removes nothing just when it is there or nothing may be trimmed.      *)
LEMMA PassTrimmed ==
  ASSUME NEW T \in Estate, Sound(T, {}), Wired(T)
  PROVE  /\ _trim(T) \in Trimmed(T)
         /\ _total(T) >= AimHigh => _total(_trim(T)) >= AimHigh
         /\ IF _total(T) <= AimHigh \/ Leafless(T) THEN _trim(T) = T
            ELSE _total(_trim(T)) < _total(T)
<1> DEFINE seq == BySize(T)
<1>1. seq \in Seq(ToSet(T.groups))
  BY BySizeFacts
<1>2. ToSet(seq) = ToSet(T.groups)
  BY BySizeFacts
<1> HIDE DEF seq
<1> DEFINE n == Len(seq)
           start == T
           Op(U, x) == LET S == Trimmable(T, x) IN
                         IF _total(U) <= AimHigh \/ S = {} THEN U ELSE DropRow(U, LastById(S))
           IsF(f) == f = [k \in 0..n |-> IF k = 0 THEN start ELSE Op(f[k - 1], seq[k])]
           F == CHOOSE f : IsF(f)
           P == Trimmed(T)
           step == [k \in 1..n |-> [U \in P |-> Op(U, seq[k])]]
<1>3. n \in Nat /\ \A k \in 1..n : seq[k] \in ToSet(T.groups)
  BY <1>1
<1>4. ASSUME NEW U \in P, NEW x \in ToSet(T.groups) PROVE Op(U, x) \in P
  <2> DEFINE S == Trimmable(T, x)
  <2>1. CASE _total(U) <= AimHigh \/ S = {}
    BY <2>1
  <2>2. CASE ~(_total(U) <= AimHigh \/ S = {})
    <3> HIDE DEF S
    <3>1. LastById(S) \in S
      BY <2>2, VictimChosen DEF S
    <3>2. /\ LastById(S) \in Resource /\ LastById(S) \notin _referenced_ids(T)
          /\ ~_is_child_row(T, LastById(S))
      BY <3>1, Elements DEF S, Trimmable, RowsIn
    <3>3. DropRow(U, LastById(S)) \in Trimmed(T)
      BY <3>2, RowDropped
    <3> QED
      BY <2>2, <3>3 DEF S
  <2> QED
    BY <2>1, <2>2
<1>5. start \in P
  BY DEF Trimmed
<1>6. AimHigh \in Int
  BY PipelineAssumption DEF AimHigh
<1>7. ASSUME NEW U \in P, NEW x \in ToSet(T.groups)
       PROVE  /\ _total(U) \in Nat /\ _total(Op(U, x)) \in Nat /\ _total(Op(U, x)) <= _total(U)
              /\ _total(U) >= AimHigh => _total(Op(U, x)) >= AimHigh
  <2>1. U \in Estate /\ Solid(U)
    BY DEF Trimmed, Sound
  <2> DEFINE r == LastById(Trimmable(T, x))
  <2>2. /\ _total(U) \in Nat /\ _total(DropRow(U, r)) \in Nat
        /\ _total(DropRow(U, r)) = IF r \in ToSet(U.rows) THEN _total(U) - 1 ELSE _total(U)
    BY <2>1, DropCounted
  <2>3. Op(U, x) = IF _total(U) <= AimHigh \/ Trimmable(T, x) = {} THEN U ELSE DropRow(U, r)
    OBVIOUS
  <2> HIDE DEF Op, r
  <2> QED
    BY <1>6, <2>2, <2>3
<1>8. ASSUME NEW x \in ToSet(T.groups)
       PROVE  IF _total(T) <= AimHigh \/ Trimmable(T, x) = {} THEN Op(T, x) = T
              ELSE _total(Op(T, x)) < _total(T)
  <2>1. CASE _total(T) <= AimHigh \/ Trimmable(T, x) = {}
    BY <2>1
  <2>2. CASE ~(_total(T) <= AimHigh \/ Trimmable(T, x) = {})
    <3> DEFINE r == LastById(Trimmable(T, x))
    <3>1. T \in Estate /\ Solid(T) /\ r \in ToSet(T.rows)
      BY <2>2, VictimChosen DEF Sound
    <3>2. _total(T) \in Nat /\ _total(DropRow(T, r)) = _total(T) - 1
      BY <3>1, DropCounted
    <3>3. Op(T, x) = DropRow(T, r)
      BY <2>2
    <3> HIDE DEF Op, r
    <3> QED
      BY <2>2, <3>2, <3>3
  <2> QED
    BY <2>1, <2>2
<1> HIDE DEF Op, P, n, start
<1>9. step \in Steps(n, P) /\ \A k \in 1..n : \A U \in P : step[k][U] = Op(U, seq[k])
  BY <1>3, <1>4 DEF Steps
<1> HIDE DEF step
<1>10. IsF(F)
  <2>1. PICK f : Iterates(f, n, P, start, step)
    BY <1>3, <1>5, <1>9, RecursionDefined
  <2>2. \A k \in 1..n : k - 1 \in 0..n /\ f[k - 1] \in P
    BY <1>3, <2>1 DEF Iterates
  <2>3. \A k \in 1..n : f[k] = Op(f[k - 1], seq[k])
    BY <1>9, <2>1, <2>2 DEF Iterates
  <2>4. \A k \in 0..n : f[k] = IF k = 0 THEN start ELSE Op(f[k - 1], seq[k])
    BY <1>3, <2>1, <2>3 DEF Iterates
  <2>5. IsF(f)
    BY <2>1, <2>4 DEF Iterates
  <2> HIDE DEF IsF
  <2> QED
    BY <2>5
<1> HIDE DEF F
<1>11. F[0] = start /\ \A k \in 1..n : F[k] = Op(F[k - 1], seq[k])
  BY <1>3, <1>10
<1>12. \A k \in 0..n : F[k] \in P
  <2> DEFINE A == {k \in 0..n : F[k] \in P}
  <2>1. 0 \in A /\ \A k \in 1..n : k - 1 \in A => k \in A
    BY <1>3, <1>4, <1>5, <1>11
  <2> HIDE DEF A
  <2>2. \A k \in 0..n : k \in A
    BY <1>3, <2>1, BoundedInduction
  <2> QED
    BY <2>2 DEF A
<1>13. _trim(T) = F[n]
  BY DEF _trim, Fold, F, Op, n, start, seq
<1> DEFINE Free(k) == \A j \in 1..k : Trimmable(T, seq[j]) = {}
           Told(k) == /\ _total(F[k]) \in Nat
                      /\ _total(T) >= AimHigh => _total(F[k]) >= AimHigh
                      /\ IF _total(T) <= AimHigh \/ Free(k) THEN F[k] = T
                         ELSE _total(F[k]) < _total(T)
           A == {k \in 0..n : Told(k)}
<1>14. 0 \in A
  <2>1. _total(T) \in Nat
    BY DEF _total, Estate
  <2> QED
    BY <1>3, <1>11, <2>1 DEF start
<1>15. ASSUME NEW k \in 1..n, k - 1 \in A PROVE k \in A
  <2>1. F[k - 1] \in P /\ seq[k] \in ToSet(T.groups) /\ F[k] = Op(F[k - 1], seq[k])
    BY <1>3, <1>11, <1>12
  <2>2. Free(k) <=> Free(k - 1) /\ Trimmable(T, seq[k]) = {}
    <3>1. 1..k = (1..k - 1) \cup {k}
      BY <1>3
    <3> QED
      BY <3>1
  <2>3. Told(k - 1)
    BY <1>15
  <2>4. /\ _total(F[k]) \in Nat /\ _total(F[k]) <= _total(F[k - 1]) /\ _total(F[k - 1]) \in Nat
        /\ _total(F[k - 1]) >= AimHigh => _total(F[k]) >= AimHigh
    BY <1>7, <2>1
  <2>5. _total(T) \in Nat
    BY DEF _total, Estate
  <2> HIDE DEF Free
  <2>6. CASE _total(T) <= AimHigh \/ Free(k - 1)
    <3>1. F[k] = Op(T, seq[k])
      BY <2>1, <2>3, <2>6
    <3>2. IF _total(T) <= AimHigh \/ Trimmable(T, seq[k]) = {} THEN F[k] = T
          ELSE _total(F[k]) < _total(T)
      BY <1>8, <2>1, <3>1
    <3> QED
      BY <2>2, <2>3, <2>4, <2>6, <3>2
  <2>7. CASE ~(_total(T) <= AimHigh \/ Free(k - 1))
    BY <2>2, <2>3, <2>4, <2>5, <2>7
  <2> QED
    BY <2>6, <2>7
<1> HIDE DEF A
<1>16. n \in A
  <2>1. \A k \in 0..n : k \in A
    BY <1>3, <1>14, <1>15, BoundedInduction
  <2> QED
    BY <1>3, <2>1
<1>17. Free(n) <=> Leafless(T)
  <2>1. ToSet(T.groups) = {seq[j] : j \in 1..n}
    <3>1. DOMAIN seq = 1..n
      BY <1>1 DEF n
    <3> QED
      BY <1>2, <3>1 DEF ToSet
  <2> QED
    BY <2>1 DEF Leafless
<1> HIDE DEF Free
<1>18. /\ _total(T) >= AimHigh => _total(F[n]) >= AimHigh
       /\ IF _total(T) <= AimHigh \/ Leafless(T) THEN F[n] = T
          ELSE _total(F[n]) < _total(T)
  BY <1>16, <1>17 DEF A
<1> QED
  BY <1>3, <1>12, <1>13, <1>18 DEF P

(* The subscriptions of a set, in order. *)
LEMMA InOrderFacts ==
  ASSUME NEW S \in SUBSET Subscriptions
  PROVE  InOrder(S) \in Seq(S) /\ ToSet(InOrder(S)) = S
<1> DEFINE all == [i \in 1..N |-> i]
           s == InOrder(S)
<1>1. all \in Seq(Nat) /\ DOMAIN all = 1..N /\ s = Keep(all, S)
  BY PoolAssumption DEF InOrder
<1>2. ToSet(all) = Subscriptions
  BY <1>1 DEF ToSet, Subscriptions
<1> HIDE DEF all, s
<1>3. s \in Seq(Nat) /\ ToSet(s) = ToSet(all) \cap S
  BY <1>1, KeepFacts
<1>4. s \in Seq(ToSet(s))
  BY <1>3 DEF ToSet
<1> QED
  BY <1>2, <1>3, <1>4 DEF s

(* A sound tenant in which machines of some subscriptions may lack an       *)
(* interface.                                                               *)
Pending(S) ==
    {U \in Estate : Sound(U, {}) /\ \A vm \in VMs(U) : vm \in Attached(U) \/ vm.sub \in S}

(* Wiring some of the subscriptions anew leaves none of their machines so,  *)
(* and takes no row away.                                                   *)
LEMMA SubscriptionsWired ==
  ASSUME NEW S, NEW Us \in SUBSET Pending(S), NEW seq \in Seq(Subscriptions),
         NEW V \in ForEach(wire_references, seq, Us)
  PROVE  /\ V \in Pending(S \ ToSet(seq))
         /\ \E U \in Us : ToSet(U.rows) \subseteq ToSet(V.rows)
<1> DEFINE n == Len(seq)
           start == Us
           Op(Ws, x) == UNION {wire_references(U, x) : U \in Ws}
           IsF(f) == f = [k \in 0..n |-> IF k = 0 THEN start ELSE Op(f[k - 1], seq[k])]
           F == CHOOSE f : IsF(f)
           P == SUBSET Pending(S)
           step == [k \in 1..n |-> [Ws \in P |-> Op(Ws, seq[k])]]
<1>1. n \in Nat /\ \A k \in 1..n : seq[k] \in Subscriptions
  OBVIOUS
<1>2. ASSUME NEW Ws \in P, NEW x \in Subscriptions PROVE Op(Ws, x) \in P
  <2>1. ASSUME NEW U \in Ws, NEW W \in wire_references(U, x) PROVE W \in Pending(S)
    <3>1. U \in Estate /\ Sound(U, {}) /\ \A vm \in VMs(U) : vm \in Attached(U) \/ vm.sub \in S
      BY DEF Pending
    <3>2. W \in Grown(U)
      BY <3>1, ReferencesWired
    <3> QED
      BY <3>1, <3>2 DEF Grown, Pending
  <2> QED
    BY <2>1
<1>3. start \in P
  OBVIOUS
<1> HIDE DEF Op, P, n, start
<1>4. step \in Steps(n, P) /\ \A k \in 1..n : \A Ws \in P : step[k][Ws] = Op(Ws, seq[k])
  BY <1>1, <1>2 DEF Steps
<1> HIDE DEF step
<1>5. IsF(F)
  <2>1. PICK f : Iterates(f, n, P, start, step)
    BY <1>1, <1>3, <1>4, RecursionDefined
  <2>2. f \in [0..n -> P] /\ \A k \in 1..n : k - 1 \in 0..n
    BY <1>1, <2>1 DEF Iterates
  <2>3. \A k \in 1..n : f[k] = Op(f[k - 1], seq[k])
    BY <1>4, <2>1, <2>2 DEF Iterates
  <2>4. \A k \in 0..n : f[k] = IF k = 0 THEN start ELSE Op(f[k - 1], seq[k])
    BY <1>1, <2>1, <2>3 DEF Iterates
  <2>5. IsF(f)
    BY <2>1, <2>4 DEF Iterates
  <2> HIDE DEF IsF
  <2> QED
    BY <2>5
<1> HIDE DEF F
<1>6. F[0] = start /\ \A k \in 1..n : F[k] = Op(F[k - 1], seq[k])
  BY <1>1, <1>5
<1>7. \A k \in 0..n : F[k] \in P
  <2> DEFINE A == {k \in 0..n : F[k] \in P}
  <2>1. 0 \in A /\ \A k \in 1..n : k - 1 \in A => k \in A
    BY <1>1, <1>2, <1>3, <1>6
  <2> HIDE DEF A
  <2>2. \A k \in 0..n : k \in A
    BY <1>1, <2>1, BoundedInduction
  <2> QED
    BY <2>2 DEF A
<1>8. ForEach(wire_references, seq, Us) = F[n]
  BY DEF ForEach, Fold, F, Op, n, start
<1> DEFINE Done(k) == \A U \in F[k] : \A vm \in VMs(U) :
                          vm \in Attached(U) \/ (vm.sub \in S /\ \A j \in 1..k : vm.sub # seq[j])
           A == {k \in 0..n : Done(k)}
<1>9. 0 \in A
  BY <1>1, <1>3, <1>6 DEF P, Pending
<1>10. ASSUME NEW k \in 1..n, k - 1 \in A PROVE k \in A
  <2>1. ASSUME NEW W \in F[k], NEW vm \in VMs(W), vm \notin Attached(W)
        PROVE  vm.sub \in S /\ \A j \in 1..k : vm.sub # seq[j]
    <3>1. PICK U \in F[k - 1] : W \in wire_references(U, seq[k])
      BY <1>6 DEF Op
    <3>2. U \in Pending(S) /\ seq[k] \in Subscriptions
      BY <1>1, <1>7 DEF P
    <3>3. U \in Estate /\ Sound(U, {})
      BY <3>2 DEF Pending
    <3>4. W \in Grown(U) /\ Pool(U, seq[k], T_VM) \subseteq Attached(W)
      BY <3>1, <3>3, ReferencesWired
    <3>5. vm \in VMs(U) /\ vm \notin Attached(U)
      BY <2>1, <3>4 DEF Grown
    <3>6. vm.sub # seq[k]
      BY <2>1, <3>4, <3>5 DEF VMs, Pool
    <3>7. vm.sub \in S /\ \A j \in 1..k - 1 : vm.sub # seq[j]
      BY <1>10, <3>1, <3>5
    <3>8. \A j \in 1..k : j = k \/ j \in 1..k - 1
      OBVIOUS
    <3> QED
      BY <3>6, <3>7, <3>8
  <2> QED
    BY <2>1
<1> HIDE DEF A
<1>11. n \in A
  <2>1. \A k \in 0..n : k \in A
    BY <1>1, <1>9, <1>10, BoundedInduction
  <2> QED
    BY <1>1, <2>1
<1>12. V \in Pending(S)
  BY <1>1, <1>7, <1>8 DEF P
<1>13. \A vm \in VMs(V) : vm \in Attached(V) \/ (vm.sub \in S /\ \A j \in 1..n : vm.sub # seq[j])
  BY <1>8, <1>11 DEF A
<1>14. ToSet(seq) = {seq[j] : j \in 1..n}
  BY DEF ToSet, n
<1> DEFINE B == {k \in 0..n : \A W \in F[k] : \E U \in Us : ToSet(U.rows) \subseteq ToSet(W.rows)}
<1>15. 0 \in B
  BY <1>1, <1>6 DEF start
<1>16. ASSUME NEW k \in 1..n, k - 1 \in B PROVE k \in B
  <2>1. ASSUME NEW W \in F[k] PROVE \E U \in Us : ToSet(U.rows) \subseteq ToSet(W.rows)
    <3>1. PICK U \in F[k - 1] : W \in wire_references(U, seq[k])
      BY <1>6 DEF Op
    <3>2. U \in Estate /\ Sound(U, {}) /\ seq[k] \in Subscriptions
      BY <1>1, <1>7, <3>1 DEF P, Pending
    <3>3. ToSet(U.rows) \subseteq ToSet(W.rows)
      BY <3>1, <3>2, ReferencesWired DEF Grown
    <3>4. PICK X \in Us : ToSet(X.rows) \subseteq ToSet(U.rows)
      BY <1>16, <3>1
    <3> QED
      BY <3>3, <3>4
  <2> QED
    BY <2>1
<1> HIDE DEF B
<1>17. n \in B
  <2>1. \A k \in 0..n : k \in B
    BY <1>1, <1>15, <1>16, BoundedInduction
  <2> QED
    BY <1>1, <2>1
<1>18. \E U \in Us : ToSet(U.rows) \subseteq ToSet(V.rows)
  BY <1>8, <1>17 DEF B
<1> QED
  BY <1>12, <1>13, <1>14, <1>18 DEF Pending

(* A row more in one of these subscriptions. *)
LEMMA PendingMinted ==
  ASSUME NEW S, NEW U \in Pending(S), NEW G \in ToSet(U.groups), G.sub \in S, NEW type \in Type,
         NEW V, V = AddRow(U, generate_resource(G.sub, G.name, type, U.seen))
  PROVE  V \in Pending(S) /\ V.groups = U.groups
<1> DEFINE r == generate_resource(G.sub, G.name, type, U.seen)
<1>1. V = AddRow(U, r)
  OBVIOUS
<1>2. /\ U \in Estate /\ Sound(U, {}) /\ type \in Type \ {}
      /\ \A vm \in VMs(U) : vm \in Attached(U) \/ vm.sub \in S
  BY DEF Pending
<1>3. r = generate_resource(G.sub, G.name, type, U.seen)
  OBVIOUS
<1> HIDE DEF r
<1>4. /\ V \in Estate /\ Sound(V, {}) /\ V.groups = U.groups /\ V.ref = U.ref
      /\ ToSet(V.rows) = ToSet(U.rows) \cup {r} /\ r.sub = G.sub
  BY <1>1, <1>2, <1>3, RowMinted
<1>5. \A vm \in VMs(V) : vm \in Attached(V) \/ vm.sub \in S
  BY <1>2, <1>4 DEF VMs, Attached
<1> QED
  BY <1>4, <1>5 DEF Pending

(* The subscriptions of the groups that m rows go to in turn.               *)
Touched(ordered, m) == {ordered[((k - 1) % Len(ordered)) + 1].sub : k \in 1..m}

(* Rows added to hosts in turn: as many as were asked for. *)
LEMMA RowsPadded ==
  ASSUME NEW T \in Estate, Sound(T, {}), Wired(T), NEW ordered \in Seq(ToSet(T.groups)), ordered # <<>>,
         NEW m \in Nat, NEW seq \in Seq(1..m)
  PROVE  LET host(k) == ordered[((k - 1) % Len(ordered)) + 1]
             add(U, k) == LET G == host(k) IN
                 {AddRow(U, generate_resource(G.sub, G.name, type, U.seen)) :
                     type \in sample_rg_types(G.template)}
         IN  /\ ForEach(add, seq, {T}) \subseteq Pending(Touched(ordered, m))
             /\ \A U \in ForEach(add, seq, {T}) : _total(U) = _total(T) + Len(seq)
<1> DEFINE S == Touched(ordered, m)
           host(k) == ordered[((k - 1) % Len(ordered)) + 1]
           add(U, k) == LET G == host(k) IN
                 {AddRow(U, generate_resource(G.sub, G.name, type, U.seen)) :
                     type \in sample_rg_types(G.template)}
<1>a. \A k \in 1..m : host(k) \in ToSet(T.groups) /\ host(k).sub \in S
  <2>1. Len(ordered) \in Nat /\ Len(ordered) # 0
    OBVIOUS
  <2>2. \A k \in 1..m : ((k - 1) % Len(ordered)) + 1 \in 1..Len(ordered)
    BY <2>1
  <2>3. \A k \in 1..m : host(k) \in ToSet(T.groups)
    BY <2>2
  <2>4. \A k \in 1..m : host(k).sub \in S
    BY DEF Touched
  <2> QED
    BY <2>3, <2>4
<1> HIDE DEF host, S
<1> DEFINE n == Len(seq)
           start == {T}
           Op(Us, x) == UNION {add(U, x) : U \in Us}
           IsF(f) == f = [k \in 0..n |-> IF k = 0 THEN start ELSE Op(f[k - 1], seq[k])]
           F == CHOOSE f : IsF(f)
           P == SUBSET {U \in Pending(S) : U.groups = T.groups}
           step == [k \in 1..n |-> [Us \in P |-> Op(Us, seq[k])]]
<1>1. n \in Nat /\ \A k \in 1..n : seq[k] \in 1..m
  OBVIOUS
<1>2. ASSUME NEW Us \in P, NEW x \in 1..m PROVE Op(Us, x) \in P
  <2>1. ASSUME NEW U \in Us, NEW V \in add(U, x) PROVE V \in Pending(S) /\ V.groups = T.groups
    <3> DEFINE G == host(x)
    <3>1. PICK type \in sample_rg_types(G.template) :
              V = AddRow(U, generate_resource(G.sub, G.name, type, U.seen))
      OBVIOUS
    <3>2. U \in Pending(S) /\ U.groups = T.groups
      OBVIOUS
    <3>3. G \in ToSet(U.groups) /\ G.sub \in S
      BY <1>a, <3>2
    <3>4. type \in Type
      <4>1. G.template \in Template
        BY <3>2, <3>3, Elements DEF Group, Pending
      <4> QED
        BY <4>1 DEF Type
    <3> HIDE DEF G, P, add
    <3> QED
      BY <3>1, <3>2, <3>3, <3>4, PendingMinted
  <2> QED
    BY <2>1
<1>3. start \in P
  BY DEF Pending, Wired
<1> HIDE DEF Op, P, n, start
<1>4. step \in Steps(n, P) /\ \A k \in 1..n : \A Us \in P : step[k][Us] = Op(Us, seq[k])
  BY <1>1, <1>2 DEF Steps
<1> HIDE DEF step
<1>5. IsF(F)
  <2>1. PICK f : Iterates(f, n, P, start, step)
    BY <1>1, <1>3, <1>4, RecursionDefined
  <2>2. f \in [0..n -> P] /\ \A k \in 1..n : k - 1 \in 0..n
    BY <1>1, <2>1 DEF Iterates
  <2>3. \A k \in 1..n : f[k] = Op(f[k - 1], seq[k])
    BY <1>4, <2>1, <2>2 DEF Iterates
  <2>4. \A k \in 0..n : f[k] = IF k = 0 THEN start ELSE Op(f[k - 1], seq[k])
    BY <1>1, <2>1, <2>3 DEF Iterates
  <2>5. IsF(f)
    BY <2>1, <2>4 DEF Iterates
  <2> HIDE DEF IsF
  <2> QED
    BY <2>5
<1> HIDE DEF F
<1>6. F[0] = start /\ \A k \in 1..n : F[k] = Op(F[k - 1], seq[k])
  BY <1>1, <1>5
<1>7. \A k \in 0..n : F[k] \in P
  <2> DEFINE A == {k \in 0..n : F[k] \in P}
  <2>1. 0 \in A /\ \A k \in 1..n : k - 1 \in A => k \in A
    BY <1>1, <1>2, <1>3, <1>6
  <2> HIDE DEF A
  <2>2. \A k \in 0..n : k \in A
    BY <1>1, <2>1, BoundedInduction
  <2> QED
    BY <2>2 DEF A
<1>8. ForEach(add, seq, {T}) = F[n]
  BY DEF ForEach, Fold, F, Op, n, start
<1>9. F[n] \subseteq Pending(S)
  BY <1>1, <1>7 DEF P
<1> DEFINE A == {k \in 0..n : \A U \in F[k] : _total(U) = _total(T) + k}
<1>10. 0 \in A
  <2>1. _total(T) \in Nat
    BY DEF _total, Estate
  <2> QED
    BY <1>1, <1>6, <2>1 DEF start
<1>11. ASSUME NEW k \in 1..n, k - 1 \in A PROVE k \in A
  <2>1. ASSUME NEW V \in F[k] PROVE _total(V) = _total(T) + k
    <3>1. PICK U \in F[k - 1] : V \in add(U, seq[k])
      BY <1>6 DEF Op
    <3>2. PICK r : V = AddRow(U, r)
      BY <3>1
    <3>3. U \in Estate
      <4>1. F[k - 1] \in P
        BY <1>1, <1>7
      <4> QED
        BY <3>1, <4>1 DEF P, Pending
    <3>4. _total(U) = _total(T) + (k - 1) /\ _total(T) \in Nat
      BY <1>11, <3>1 DEF _total, Estate
    <3>5. V.rows = Append(U.rows, r) /\ U.rows \in Seq(Resource)
      BY <3>2, <3>3 DEF AddRow, Estate
    <3>6. _total(V) = _total(U) + 1
      BY <3>5 DEF _total
    <3> QED
      BY <3>4, <3>6
  <2> QED
    BY <2>1
<1> HIDE DEF A
<1>12. n \in A
  <2>1. \A k \in 0..n : k \in A
    BY <1>1, <1>10, <1>11, BoundedInduction
  <2> QED
    BY <1>1, <2>1
<1>13. \A U \in F[n] : _total(U) = _total(T) + Len(seq)
  BY <1>12 DEF A, n
<1> QED
  BY <1>8, <1>9, <1>13 DEF host, S

(* No group of the tenant can grow.                                         *)
Barren(T) ==
    \A G \in ToSet(T.groups) : RowsIn(T, G) = {} \/ sample_rg_types(G.template) = {}

(* Of two solid tenants the one that holds the other's rows is as large.    *)
LEMMA TotalGrows ==
  ASSUME NEW U \in Estate, NEW V \in Estate, Solid(U), Solid(V), ToSet(U.rows) \subseteq ToSet(V.rows)
  PROVE  _total(U) <= _total(V)
<1>1. /\ U.rows \in Seq(Resource) /\ IsInjective(U.rows)
      /\ V.rows \in Seq(Resource) /\ IsInjective(V.rows)
  BY DEF Estate, Solid
<1>2. /\ Cardinality(ToSet(U.rows)) = Len(U.rows)
      /\ IsFiniteSet(ToSet(V.rows)) /\ Cardinality(ToSet(V.rows)) = Len(V.rows)
  BY <1>1, LenIsCardinality
<1>3. Cardinality(ToSet(U.rows)) <= Cardinality(ToSet(V.rows))
  BY <1>2, FS_Subset
<1> QED
  BY <1>2, <1>3 DEF _total

(* A round of padding leaves a sound tenant, with as many rows more at      *)
(* least as were asked for, unless no group can grow.                       *)
LEMMA BatchPadded ==
  ASSUME NEW T \in Estate, Sound(T, {}), Wired(T), NEW m \in Nat, NEW V \in _pad_batch(T, m)
  PROVE  /\ V \in Estate /\ Sound(V, {}) /\ Wired(V)
         /\ (V = T /\ Barren(T)) \/ _total(V) >= _total(T) + m
<1> DEFINE S == {G \in ToSet(T.groups) : RowsIn(T, G) # {} /\ sample_rg_types(G.template) # {}}
           ordered == Keep(BySize(T), S)
           host(k) == ordered[((k - 1) % Len(ordered)) + 1]
           touched == Touched(ordered, m)
           add(U, k) == LET G == host(k) IN
                 {AddRow(U, generate_resource(G.sub, G.name, type, U.seen)) :
                     type \in sample_rg_types(G.template)}
           Us == ForEach(add, [k \in 1..m |-> k], {T})
<1>1. \/ ordered = <<>> /\ V = T
      \/ ordered # <<>> /\ V \in ForEach(wire_references, InOrder(touched), Us)
  BY DEF _pad_batch, Touched
<1>2. CASE ordered = <<>> /\ V = T
  <2>1. ToSet(ordered) = ToSet(BySize(T)) \cap S /\ ToSet(BySize(T)) = ToSet(T.groups)
    <3> HIDE DEF S
    <3> QED
      BY BySizeFacts, KeepFacts
  <2>2. S = {}
    <3>1. S \subseteq ToSet(T.groups)
      OBVIOUS
    <3> HIDE DEF ordered, S
    <3>2. ToSet(ordered) = {}
      BY <1>2 DEF ToSet
    <3> QED
      BY <2>1, <3>1, <3>2
  <2>3. Barren(T)
    BY <2>2 DEF Barren
  <2> QED
    BY <1>2, <2>3
<1>3. CASE ordered # <<>> /\ V \in ForEach(wire_references, InOrder(touched), Us)
  <2>8. ordered # <<>>
    BY <1>3
  <2>1. ordered \in Seq(ToSet(T.groups))
    <3> HIDE DEF S
    <3> QED
      BY BySizeFacts, KeepFacts
  <2> HIDE DEF ordered
  <2>2. touched \subseteq Subscriptions
    <3>1. Len(ordered) \in Nat /\ Len(ordered) # 0
      BY <2>1, <2>8
    <3>2. \A k \in 1..m : ((k - 1) % Len(ordered)) + 1 \in 1..Len(ordered)
      BY <3>1
    <3>3. \A k \in 1..m : host(k) \in ToSet(T.groups)
      BY <2>1, <3>2
    <3> QED
      BY <3>3, Elements DEF Group, Touched
  <2>3. [k \in 1..m |-> k] \in Seq(1..m)
    OBVIOUS
  <2> HIDE DEF touched
  <2>5. Us \subseteq Pending(touched) /\ \A U \in Us : _total(U) = _total(T) + m
    <3>1. Len([k \in 1..m |-> k]) = m
      OBVIOUS
    <3> QED
      BY <2>1, <2>3, <2>8, <3>1, RowsPadded DEF touched
  <2> HIDE DEF Us
  <2>6. InOrder(touched) \in Seq(Subscriptions) /\ ToSet(InOrder(touched)) = touched
    <3>1. InOrder(touched) \in Seq(touched) /\ ToSet(InOrder(touched)) = touched
      BY <2>2, InOrderFacts
    <3> QED
      BY <2>2, <3>1
  <2>7. /\ V \in Pending(touched \ touched)
        /\ \E U \in Us : ToSet(U.rows) \subseteq ToSet(V.rows)
    BY <1>3, <2>5, <2>6, SubscriptionsWired
  <2>9. PICK U \in Us : ToSet(U.rows) \subseteq ToSet(V.rows)
    BY <2>7
  <2>10. _total(U) <= _total(V) /\ _total(U) = _total(T) + m
    BY <2>5, <2>7, <2>9, TotalGrows DEF Pending, Sound
  <2>11. _total(T) + m \in Nat /\ _total(V) \in Nat
    BY <2>7 DEF _total, Estate, Pending
  <2> QED
    BY <2>7, <2>10, <2>11 DEF Pending, Wired
<1> QED
  BY <1>1, <1>2, <1>3

-----------------------------------------------------------------------------
(* inject.                                                                  *)

Codes == {"TAG_MISSING_ENV", "VM_NO_BACKUP", "VM_PUBLIC_IP"}
ViolationRow == [code : Codes, resource_id : Resource, nic_id : Resource \cup {None},
                 public_ip_id : Resource \cup {None}]

(* What a violation says of the rows and references of a tenant.            *)
Exposed(v, links) ==
    /\ [src |-> v.resource_id, via |-> "nic", dst |-> v.nic_id] \in links
    /\ \E e \in links : e.src = v.nic_id /\ e.via = "pip"

(* What VM_PUBLIC_IP may have made of the references so far, with the       *)
(* addresses minted and the violations recorded.                            *)
PublicSoFar(T) ==
    {W \in [ref : SUBSET Edge, minted : Seq(Resource), rows : SUBSET ViolationRow] :
        /\ IsInjective(W.minted) /\ ToSet(W.minted) \cap ToSet(T.rows) = {}
        /\ \A r \in ToSet(W.minted) : /\ r.type = T_PIP /\ r.number > 0
                                      /\ \E G \in ToSet(T.groups) : Holds(G, r)
        /\ \A e \in W.ref : e.src \in ToSet(T.rows) /\ e.dst \in ToSet(T.rows) \cup ToSet(W.minted)
        /\ \A e : e.via # "pip" => (e \in W.ref <=> e \in T.ref)
        /\ \A v \in W.rows : /\ v.code = "VM_PUBLIC_IP" /\ {v.resource_id, v.nic_id} \subseteq ToSet(T.rows)
                             /\ v.public_ip_id \in ToSet(T.rows) \cup ToSet(W.minted)
                             /\ Exposed(v, W.ref)}

(* An interface of a machine gets one address, old or new. *)
LEMMA AddressSet ==
  ASSUME NEW T \in Estate, Solid(T), NEW W \in PublicSoFar(T), NEW vm \in ToSet(T.rows), NEW nic,
         [src |-> vm, via |-> "nic", dst |-> nic] \in W.ref, NEW minted \in Seq(Resource),
         NEW pip \in ToSet(T.rows) \cup ToSet(minted), ToSet(W.minted) \subseteq ToSet(minted),
         IsInjective(minted), ToSet(minted) \cap ToSet(T.rows) = {},
         \A r \in ToSet(minted) : /\ r.type = T_PIP /\ r.number > 0
                                  /\ \E G \in ToSet(T.groups) : Holds(G, r)
  PROVE  [ref |-> {e \in W.ref : e.src # nic \/ e.via # "pip"}
                      \cup {[src |-> nic, via |-> "pip", dst |-> pip]},
          minted |-> minted,
          rows |-> W.rows \cup {Violation("VM_PUBLIC_IP", vm, nic, pip)}] \in PublicSoFar(T)
<1> DEFINE new == [src |-> nic, via |-> "pip", dst |-> pip]
           links == {e \in W.ref : e.src # nic \/ e.via # "pip"} \cup {new}
           v0 == Violation("VM_PUBLIC_IP", vm, nic, pip)
           U == [ref |-> links, minted |-> minted, rows |-> W.rows \cup {v0}]
<1>1. /\ W.ref \in SUBSET Edge /\ W.minted \in Seq(Resource) /\ W.rows \in SUBSET ViolationRow
      /\ \A e \in W.ref : e.src \in ToSet(T.rows) /\ e.dst \in ToSet(T.rows) \cup ToSet(W.minted)
      /\ \A e : e.via # "pip" => (e \in W.ref <=> e \in T.ref)
      /\ \A v \in W.rows : /\ v.code = "VM_PUBLIC_IP" /\ {v.resource_id, v.nic_id} \subseteq ToSet(T.rows)
                           /\ v.public_ip_id \in ToSet(T.rows) \cup ToSet(W.minted)
                           /\ Exposed(v, W.ref)
  BY DEF PublicSoFar
<1>2. ToSet(T.rows) \subseteq Resource /\ ToSet(minted) \subseteq Resource
  BY Elements DEF ToSet
<1>3. nic \in ToSet(T.rows) /\ nic \in Resource /\ vm \in Resource /\ pip \in Resource
  <2>1. [src |-> vm, via |-> "nic", dst |-> nic] \in T.ref
    BY <1>1
  <2> QED
    BY <1>2, <2>1 DEF Solid
<1>4. new \in Edge /\ new.via = "pip" /\ new.src = nic /\ new.dst = pip
  BY <1>3 DEF Edge, Via
<1>5. v0 \in ViolationRow /\ v0.code = "VM_PUBLIC_IP" /\ v0.resource_id = vm /\ v0.nic_id = nic
      /\ v0.public_ip_id = pip
  BY <1>3 DEF Violation, ViolationRow, Codes
<1> HIDE DEF new, v0
<1>6. links \in SUBSET Edge
  BY <1>1, <1>4
<1>7. \A e \in links : e.src \in ToSet(T.rows) /\ e.dst \in ToSet(T.rows) \cup ToSet(minted)
  BY <1>1, <1>3, <1>4
<1>8. \A e : e.via # "pip" => (e \in links <=> e \in T.ref)
  BY <1>1, <1>4
<1>9. ASSUME NEW v \in W.rows \cup {v0}
      PROVE  /\ v.code = "VM_PUBLIC_IP" /\ {v.resource_id, v.nic_id} \subseteq ToSet(T.rows)
             /\ v.public_ip_id \in ToSet(T.rows) \cup ToSet(minted)
             /\ Exposed(v, links)
  <2>1. CASE v = v0
    BY <1>3, <1>4, <1>5, <2>1 DEF Exposed
  <2>2. CASE v \in W.rows
    <3>1. [src |-> v.resource_id, via |-> "nic", dst |-> v.nic_id] \in links
      BY <1>1, <2>2 DEF Exposed
    <3>2. PICK e \in W.ref : e.src = v.nic_id /\ e.via = "pip"
      BY <1>1, <2>2 DEF Exposed
    <3>3. e \in links \/ (new \in links /\ new.src = v.nic_id /\ new.via = "pip")
      BY <1>4, <3>2
    <3> HIDE DEF links
    <3>4. Exposed(v, links)
      BY <3>1, <3>2, <3>3 DEF Exposed
    <3> QED
      BY <1>1, <2>2, <3>4
  <2> QED
    BY <2>1, <2>2
<1> HIDE DEF links
<1>10. U \in PublicSoFar(T)
  <2>1. U \in [ref : SUBSET Edge, minted : Seq(Resource), rows : SUBSET ViolationRow]
    BY <1>1, <1>5, <1>6
  <2> QED
    BY <1>7, <1>8, <1>9, <2>1 DEF PublicSoFar
<1> QED
  BY <1>10 DEF U, links, new, v0

(* VM_PUBLIC_IP on one machine. *)
LEMMA VmExposed ==
  ASSUME Tenant \in Estate, Solid(Tenant), Wired(Tenant), NEW W \in PublicSoFar(Tenant),
         NEW vm \in VMs(Tenant), NEW U \in _wire_vm_public_ip(W, vm)
  PROVE  U \in PublicSoFar(Tenant)
<1> DEFINE T == Tenant
           all == ToSet(rows)
           pool == {r \in all : r.type = T_PIP}
           edge == CHOOSE e \in W.ref : e.src = vm /\ e.via = "nic"
           nic == edge.dst
           new == generate_resource(nic.sub, nic.rg, T_PIP, all \cup ToSet(W.minted))
           wired(pip) == [SetRef(W, nic, "pip", pip) EXCEPT
                             !.rows = @ \cup {Violation("VM_PUBLIC_IP", vm, nic, pip)}]
<1>1. /\ T.rows = rows /\ T.ref = ref /\ T.groups = groups
      /\ vm \in ToSet(T.rows) /\ T.rows \in Seq(Resource)
  BY DEF Tenant, VMs, Estate
<1>2. /\ W \in [ref : SUBSET Edge, minted : Seq(Resource), rows : SUBSET ViolationRow]
      /\ IsInjective(W.minted) /\ ToSet(W.minted) \cap ToSet(T.rows) = {}
      /\ \A r \in ToSet(W.minted) : /\ r.type = T_PIP /\ r.number > 0
                                    /\ \E G \in ToSet(T.groups) : Holds(G, r)
      /\ \A e : e.via # "pip" => (e \in W.ref <=> e \in T.ref)
  BY DEF PublicSoFar
<1>3. edge \in W.ref /\ edge.src = vm /\ edge.via = "nic"
  <2>1. \E e \in W.ref : e.src = vm /\ e.via = "nic"
    BY <1>2 DEF Wired, Attached
  <2> QED
    BY <2>1
<1> HIDE DEF edge
<1>4. nic \in ToSet(T.rows) /\ [src |-> vm, via |-> "nic", dst |-> nic] \in W.ref
  <2>1. edge \in T.ref /\ edge \in Edge
    BY <1>2, <1>3
  <2>2. edge = [src |-> edge.src, via |-> edge.via, dst |-> edge.dst]
    BY <2>1 DEF Edge
  <2> QED
    BY <1>3, <2>1, <2>2 DEF Solid
<1> HIDE DEF nic
<1>5. ASSUME NEW pip
      PROVE  wired(pip) = [ref |-> {e \in W.ref : e.src # nic \/ e.via # "pip"}
                                       \cup {[src |-> nic, via |-> "pip", dst |-> pip]},
                           minted |-> W.minted,
                           rows |-> W.rows \cup {Violation("VM_PUBLIC_IP", vm, nic, pip)}]
  <2> DEFINE links == {e \in W.ref : e.src # nic \/ e.via # "pip"}
                          \cup {[src |-> nic, via |-> "pip", dst |-> pip]}
             U0 == SetRef(W, nic, "pip", pip)
  <2>1. U0 = [W EXCEPT !.ref = links]
    BY DEF SetRef
  <2> HIDE DEF links, U0
  <2>2. U0 = [ref |-> links, minted |-> W.minted, rows |-> W.rows]
    BY <1>2, <2>1
  <2>3. [U0 EXCEPT !.rows = @ \cup {Violation("VM_PUBLIC_IP", vm, nic, pip)}]
          = [ref |-> links, minted |-> W.minted,
             rows |-> W.rows \cup {Violation("VM_PUBLIC_IP", vm, nic, pip)}]
    BY <2>2
  <2> QED
    BY <2>3 DEF U0, links
<1>6. CASE pool # {}
  <2>1. PICK pip \in pool : U = wired(pip)
    BY <1>6 DEF _wire_vm_public_ip, nic, edge
  <2>2. pip \in ToSet(T.rows) \cup ToSet(W.minted)
    BY <1>1
  <2> HIDE DEF wired, T
  <2> QED
    BY <1>1, <1>2, <1>4, <1>5, <2>1, <2>2, AddressSet DEF T
<1>7. CASE pool = {}
  <2> DEFINE minted == Append(W.minted, new)
  <2>1. U = [wired(new) EXCEPT !.minted = minted]
    <3>1. U = [wired(new) EXCEPT !.minted = Append(@, new)]
      BY <1>7 DEF _wire_vm_public_ip, nic, edge
    <3> HIDE DEF new, wired
    <3>2. wired(new).minted = W.minted
      BY <1>5
    <3> QED
      BY <3>1, <3>2
  <2>2. PICK G \in ToSet(T.groups) : Holds(G, nic)
    BY <1>4 DEF Solid
  <2>3. G \in Group /\ T_PIP \in Type
    BY <2>2, Elements, MintedTypes
  <2>4. all \cup ToSet(W.minted) \in SUBSET Resource /\ IsFiniteSet(all \cup ToSet(W.minted))
    <3>1. IsFiniteSet(all) /\ IsFiniteSet(ToSet(W.minted))
      BY <1>1, <1>2, ElementsFinite
    <3>2. all \in SUBSET Resource /\ ToSet(W.minted) \in SUBSET Resource
      BY <1>1, <1>2 DEF ToSet
    <3> HIDE DEF all
    <3> QED
      BY <3>1, <3>2, FS_Union
  <2>5. new = generate_resource(G.sub, G.name, T_PIP, all \cup ToSet(W.minted))
    BY <2>2 DEF Holds
  <2> HIDE DEF new
  <2>6. /\ new \in Resource /\ new \notin all \cup ToSet(W.minted) /\ new.type = T_PIP
        /\ new.number > 0 /\ Holds(G, new)
    <3> HIDE DEF all
    <3> QED
      BY <2>3, <2>4, <2>5, Generated
  <2>7. minted \in Seq(Resource) /\ ToSet(minted) = ToSet(W.minted) \cup {new} /\ IsInjective(minted)
    <3> HIDE DEF T, all
    <3> QED
      BY <1>2, <2>6, AppendFacts, AppendNew
  <2>8. U = [ref |-> {e \in W.ref : e.src # nic \/ e.via # "pip"}
                         \cup {[src |-> nic, via |-> "pip", dst |-> new]},
             minted |-> minted,
             rows |-> W.rows \cup {Violation("VM_PUBLIC_IP", vm, nic, new)}]
    <3> HIDE DEF minted, wired
    <3> QED
      BY <1>5, <2>1
  <2> HIDE DEF minted
  <2>9. ToSet(minted) \cap ToSet(T.rows) = {} /\ ToSet(W.minted) \subseteq ToSet(minted)
        /\ new \in ToSet(T.rows) \cup ToSet(minted)
        /\ \A r \in ToSet(minted) : /\ r.type = T_PIP /\ r.number > 0
                                    /\ \E H \in ToSet(T.groups) : Holds(H, r)
    BY <1>1, <1>2, <2>2, <2>6, <2>7
  <2> HIDE DEF T
  <2> QED
    BY <1>1, <1>4, <2>7, <2>8, <2>9, AddressSet DEF T
<1> QED
  BY <1>6, <1>7

(* VM_PUBLIC_IP on the machines of a sequence. *)
LEMMA VmsExposed ==
  ASSUME Tenant \in Estate, Solid(Tenant), Wired(Tenant), NEW seq \in Seq(VMs(Tenant)),
         NEW none \in PublicSoFar(Tenant)
  PROVE  ForEach(_wire_vm_public_ip, seq, {none}) \subseteq PublicSoFar(Tenant)
<1> DEFINE n == Len(seq)
           start == {none}
           Op(Us, x) == UNION {_wire_vm_public_ip(W, x) : W \in Us}
           IsF(f) == f = [k \in 0..n |-> IF k = 0 THEN start ELSE Op(f[k - 1], seq[k])]
           F == CHOOSE f : IsF(f)
           P == SUBSET PublicSoFar(Tenant)
           step == [k \in 1..n |-> [Us \in P |-> Op(Us, seq[k])]]
<1>1. n \in Nat /\ \A k \in 1..n : seq[k] \in VMs(Tenant)
  OBVIOUS
<1>2. ASSUME NEW Us \in P, NEW x \in VMs(Tenant) PROVE Op(Us, x) \in P
  BY VmExposed
<1>3. start \in P
  OBVIOUS
<1> HIDE DEF Op, P, n, start
<1>4. step \in Steps(n, P) /\ \A k \in 1..n : \A Us \in P : step[k][Us] = Op(Us, seq[k])
  BY <1>1, <1>2 DEF Steps
<1> HIDE DEF step
<1>5. IsF(F)
  <2>1. PICK f : Iterates(f, n, P, start, step)
    BY <1>1, <1>3, <1>4, RecursionDefined
  <2>2. f \in [0..n -> P] /\ \A k \in 1..n : k - 1 \in 0..n
    BY <1>1, <2>1 DEF Iterates
  <2>3. \A k \in 1..n : f[k] = Op(f[k - 1], seq[k])
    BY <1>4, <2>1, <2>2 DEF Iterates
  <2>4. \A k \in 0..n : f[k] = IF k = 0 THEN start ELSE Op(f[k - 1], seq[k])
    BY <1>1, <2>1, <2>3 DEF Iterates
  <2>5. IsF(f)
    BY <2>1, <2>4 DEF Iterates
  <2> HIDE DEF IsF
  <2> QED
    BY <2>5
<1> HIDE DEF F
<1>6. F[0] = start /\ \A k \in 1..n : F[k] = Op(F[k - 1], seq[k])
  BY <1>1, <1>5
<1>7. \A k \in 0..n : F[k] \in P
  <2> DEFINE A == {k \in 0..n : F[k] \in P}
  <2>1. 0 \in A /\ \A k \in 1..n : k - 1 \in A => k \in A
    BY <1>1, <1>2, <1>3, <1>6
  <2> HIDE DEF A
  <2>2. \A k \in 0..n : k \in A
    BY <1>1, <2>1, BoundedInduction
  <2> QED
    BY <2>2 DEF A
<1>8. ForEach(_wire_vm_public_ip, seq, {none}) = F[n]
  BY DEF ForEach, Fold, F, Op, n, start
<1> QED
  BY <1>1, <1>7, <1>8 DEF P

(* Every violation is about rows there are, and true of them.               *)
ViolationsTrue ==
    /\ violations \subseteq ViolationRow
    /\ \A v \in violations :
        /\ v.resource_id \in ToSet(rows)
        /\ {v.nic_id, v.public_ip_id} \subseteq ToSet(rows) \cup {None}
        /\ v.code = "TAG_MISSING_ENV" => v.resource_id \notin tagged
        /\ v.code = "VM_NO_BACKUP" => v.resource_id \in flagged
        /\ v.code = "VM_PUBLIC_IP" => v.nic_id # None /\ Exposed(v, ref)

(* The pass leaves a sound tenant and true violations. *)
LEMMA Injected ==
  ASSUME Tenant \in Estate, Sound(Tenant, {}), Wired(Tenant), tagged \subseteq ToSet(rows),
         flagged = {}, inject
  PROVE  /\ Tenant' \in Estate /\ Sound(Tenant', {T_PIP})
         /\ ViolationsTrue' /\ (tagged \cup flagged)' \subseteq ToSet(rows)'
<1> DEFINE T == Tenant
           none == [ref |-> ref, minted |-> <<>>, rows |-> {}]
<1>1. /\ T.groups = groups /\ T.rows = rows /\ T.ref = ref /\ T.seen = seen
      /\ groups \in Seq(Group) /\ rows \in Seq(Resource) /\ ref \in SUBSET Edge /\ seen \in SUBSET Resource
      /\ Solid(T) /\ ToSet(rows) \subseteq Resource
  BY Elements DEF Tenant, Estate, Sound
<1>2. none \in PublicSoFar(T)
  <2>1. <<>> \in Seq(Resource) /\ ToSet(<<>>) = {} /\ DOMAIN <<>> = {}
    BY DEF ToSet
  <2>2. IsInjective(<<>>)
    BY <2>1 DEF IsInjective
  <2>3. none \in [ref : SUBSET Edge, minted : Seq(Resource), rows : SUBSET ViolationRow]
    BY <1>1, <2>1
  <2>4. \A e \in ref : e.src \in ToSet(T.rows) /\ e.dst \in ToSet(T.rows)
    BY <1>1 DEF Solid
  <2> HIDE DEF T
  <2> QED
    BY <1>1, <2>1, <2>2, <2>3, <2>4 DEF PublicSoFar
<1>3. PICK untag, nobackup, public, W :
        /\ untag \in Draws(tagged) /\ nobackup \in Draws(VMs(T)) /\ public \in Draws(VMs(T))
        /\ W \in ForEach(_wire_vm_public_ip, Keep(rows, public), {none})
        /\ tagged' = tagged \ untag
        /\ flagged' = flagged \cup nobackup
        /\ ref' = W.ref
        /\ rows' = rows \o W.minted
        /\ violations' = {Violation("TAG_MISSING_ENV", r, None, None) : r \in untag}
                            \cup {Violation("VM_NO_BACKUP", r, None, None) : r \in nobackup}
                            \cup W.rows
  BY DEF inject, VMs, Tenant
<1>4. groups' = groups /\ seen' = seen
  BY DEF inject
<1> HIDE DEF none
<1>5. untag \subseteq tagged /\ nobackup \subseteq VMs(T) /\ public \subseteq VMs(T)
  BY <1>3 DEF Draws
<1>6. W \in PublicSoFar(T)
  <2>1. Keep(rows, public) \in Seq(Resource) /\ ToSet(Keep(rows, public)) = ToSet(rows) \cap public
    BY <1>1, KeepFacts
  <2> DEFINE s == Keep(rows, public)
  <2> HIDE DEF s
  <2>2. s \in Seq(ToSet(s)) /\ ToSet(s) \subseteq VMs(T)
    BY <1>5, <2>1 DEF ToSet, s
  <2>3. s \in Seq(VMs(T))
    BY <2>2
  <2> QED
    BY <1>1, <1>2, <1>3, <2>3, VmsExposed DEF s
<1>7. /\ W.ref \in SUBSET Edge /\ W.minted \in Seq(Resource) /\ W.rows \in SUBSET ViolationRow
      /\ IsInjective(W.minted) /\ ToSet(W.minted) \cap ToSet(rows) = {}
      /\ \A r \in ToSet(W.minted) : /\ r.type = T_PIP /\ r.number > 0
                                    /\ \E G \in ToSet(groups) : Holds(G, r)
      /\ \A e \in W.ref : e.src \in ToSet(rows) /\ e.dst \in ToSet(rows) \cup ToSet(W.minted)
      /\ \A e : e.via # "pip" => (e \in W.ref <=> e \in ref)
      /\ \A v \in W.rows : /\ v.code = "VM_PUBLIC_IP" /\ {v.resource_id, v.nic_id} \subseteq ToSet(rows)
                           /\ v.public_ip_id \in ToSet(rows) \cup ToSet(W.minted)
                           /\ Exposed(v, W.ref)
  BY <1>1, <1>6 DEF PublicSoFar
<1>8. rows' \in Seq(Resource) /\ ToSet(rows') = ToSet(rows) \cup ToSet(W.minted) /\ IsInjective(rows')
  <2> DEFINE key == [r \in Resource |-> r]
  <2>1. rows \o W.minted \in Seq(Resource) /\ ToSet(rows \o W.minted) = ToSet(rows) \cup ToSet(W.minted)
    BY <1>1, <1>7, ConcatElements
  <2>2. \A s \in Seq(Resource) : IsInjective(s) <=> Apart(s, key)
    <3> TAKE s \in Seq(Resource)
    <3>1. \A k \in DOMAIN s : key[s[k]] = s[k]
      OBVIOUS
    <3> HIDE DEF key
    <3> QED
      BY <3>1 DEF IsInjective, Apart
  <2>3. \A x \in ToSet(rows), y \in ToSet(W.minted) : key[x] # key[y]
    <3>1. ToSet(W.minted) \subseteq Resource
      BY <1>7 DEF ToSet
    <3> QED
      BY <1>1, <1>7, <3>1
  <2> HIDE DEF key, T
  <2>4. Apart(rows, key) /\ Apart(W.minted, key)
    BY <1>1, <1>7, <2>2 DEF Solid
  <2>5. Apart(rows \o W.minted, key)
    BY <1>1, <1>7, <2>3, <2>4, ConcatApart
  <2> QED
    BY <1>3, <2>1, <2>2, <2>5
<1> DEFINE V == Tenant'
<1>9. /\ V.groups = groups /\ V.rows = rows' /\ V.ref = W.ref /\ V.seen = seen /\ V \in Estate
  BY <1>1, <1>3, <1>4, <1>7, <1>8 DEF Tenant, Estate
<1> HIDE DEF T, V
<1>10. Solid(V)
  <2>1. GroupsApart(V.groups) /\ IsInjective(V.rows)
    BY <1>1, <1>8, <1>9 DEF Solid
  <2>2. \A r \in ToSet(V.rows) : \E G \in ToSet(V.groups) : Holds(G, r)
    BY <1>1, <1>7, <1>8, <1>9 DEF Solid
  <2>3. \A e \in V.ref : e.src \in ToSet(V.rows) /\ e.dst \in ToSet(V.rows)
    BY <1>7, <1>8, <1>9
  <2> QED
    BY <2>1, <2>2, <2>3 DEF Solid
<1>11. ChildrenOwned(V)
  <2>1. ASSUME NEW r \in ToSet(V.rows), ~(r.number > 0)
        PROVE  r.type = T_SUBNET /\ \E e \in V.ref : e.src = r /\ e.via = "managed_by"
    <3>1. r \in ToSet(T.rows)
      BY <1>1, <1>7, <1>8, <1>9, <2>1
    <3>2. r.type = T_SUBNET /\ \E e \in ref : e.src = r /\ e.via = "managed_by"
      BY <1>1, <2>1, <3>1 DEF Sound, ChildrenOwned, T
    <3> QED
      BY <1>7, <1>9, <3>2
  <2> QED
    BY <2>1 DEF ChildrenOwned
<1>12. Labelled(V) /\ Known(V, {T_PIP})
  BY <1>1, <1>7, <1>8, <1>9 DEF Sound, Labelled, Known, T
<1>13. (tagged \cup flagged)' \subseteq ToSet(rows)'
  <2>1. nobackup \subseteq ToSet(rows)
    BY <1>1, <1>5 DEF VMs
  <2> QED
    BY <1>3, <1>8, <2>1
<1>14. ViolationsTrue'
  <2> DEFINE Tag == {Violation("TAG_MISSING_ENV", r, None, None) : r \in untag}
             Backup == {Violation("VM_NO_BACKUP", r, None, None) : r \in nobackup}
             Good(v) == /\ v \in ViolationRow
                        /\ v.resource_id \in ToSet(rows')
                        /\ {v.nic_id, v.public_ip_id} \subseteq ToSet(rows') \cup {None}
                        /\ v.code = "TAG_MISSING_ENV" => v.resource_id \notin tagged'
                        /\ v.code = "VM_NO_BACKUP" => v.resource_id \in flagged'
                        /\ v.code = "VM_PUBLIC_IP" => v.nic_id # None /\ Exposed(v, ref')
  <2>1. untag \subseteq ToSet(rows) /\ nobackup \subseteq ToSet(rows) /\ ToSet(rows) \subseteq ToSet(rows')
    BY <1>1, <1>5, <1>8 DEF VMs
  <2>2. ASSUME NEW v \in Tag PROVE Good(v)
    <3>1. PICK r \in untag : v = Violation("TAG_MISSING_ENV", r, None, None)
      OBVIOUS
    <3>2. r \in ToSet(rows') /\ r \in Resource /\ r \notin tagged'
      BY <1>1, <1>3, <2>1
    <3> QED
      BY <3>1, <3>2 DEF Violation, ViolationRow, Codes
  <2>3. ASSUME NEW v \in Backup PROVE Good(v)
    <3>1. PICK r \in nobackup : v = Violation("VM_NO_BACKUP", r, None, None)
      OBVIOUS
    <3>2. r \in ToSet(rows') /\ r \in Resource /\ r \in flagged'
      BY <1>1, <1>3, <2>1
    <3> QED
      BY <3>1, <3>2 DEF Violation, ViolationRow, Codes
  <2>4. ASSUME NEW v \in W.rows PROVE Good(v)
    <3>1. /\ v.code = "VM_PUBLIC_IP" /\ {v.resource_id, v.nic_id} \subseteq ToSet(rows)
          /\ v.public_ip_id \in ToSet(rows') /\ Exposed(v, ref') /\ v \in ViolationRow
      BY <1>3, <1>7, <1>8
    <3>2. v.nic_id # None
      BY <1>1, <3>1, PipelineAssumption
    <3> QED
      BY <2>1, <3>1, <3>2
  <2> HIDE DEF Good, Tag, Backup
  <2>5. \A v \in violations' : Good(v)
    <3>1. violations' = (Tag \cup Backup) \cup W.rows
      BY <1>3 DEF Tag, Backup
    <3> QED
      BY <2>2, <2>3, <2>4, <3>1
  <2> QED
    BY <2>5 DEF Good, ViolationsTrue
<1> QED
  BY <1>9, <1>10, <1>11, <1>12, <1>13, <1>14 DEF V, Sound

-----------------------------------------------------------------------------
(* cross_sub.                                                               *)

DepTypes == {"vnet-peering", "shared-keyvault", "log-analytics", "private-endpoint", "shared-acr"}
DepRow == [type : DepTypes, source_resource_id : Resource, target_resource_id : Resource,
           source_subscription : Subscriptions, target_subscription : Subscriptions]

(* A dependency between rows of two subscriptions; a peering is from a hub  *)
(* to a spoke.                                                              *)
Crossing(d, ids, H) ==
    /\ d.source_resource_id \in ids /\ d.target_resource_id \in ids
    /\ d.source_subscription # d.target_subscription
    /\ d.source_resource_id.sub = d.source_subscription
    /\ d.target_resource_id.sub = d.target_subscription
    /\ d.type = "vnet-peering" => d.source_subscription \in H /\ d.target_subscription \notin H

(* What cross_sub may have made so far of tenant T0, with hubs H.           *)
Linked(T0, H) ==
    {D \in [T : Estate, deps : SUBSET DepRow] :
        /\ Sound(D.T, {T_PIP}) /\ D.T.groups = T0.groups /\ D.T.ref = T0.ref
        /\ ToSet(T0.rows) \subseteq ToSet(D.T.rows)
        /\ \A d \in D.deps : Crossing(d, ToSet(D.T.rows), H)}

(* A run with a row more. *)
LEMMA RowLinked ==
  ASSUME NEW T0, NEW H, NEW D \in Linked(T0, H), NEW G \in ToSet(D.T.groups),
         NEW type \in Type \ {T_PIP},
         NEW r, r = generate_resource(G.sub, G.name, type, D.T.seen)
  PROVE  LET E == [D EXCEPT !.T = AddRow(@, r)] IN
         /\ E \in Linked(T0, H) /\ ToSet(E.T.rows) = ToSet(D.T.rows) \cup {r}
         /\ r.sub = G.sub /\ r \in Resource
<1> DEFINE T == D.T
           U == AddRow(T, r)
           E == [D EXCEPT !.T = AddRow(@, r)]
<1>1. /\ D \in [T : Estate, deps : SUBSET DepRow]
      /\ Sound(T, {T_PIP}) /\ T.groups = T0.groups /\ T.ref = T0.ref
      /\ ToSet(T0.rows) \subseteq ToSet(T.rows)
      /\ \A d \in D.deps : Crossing(d, ToSet(T.rows), H)
  BY DEF Linked
<1>2. T \in Estate /\ G \in ToSet(T.groups) /\ r = generate_resource(G.sub, G.name, type, T.seen)
  BY <1>1
<1>3. E.T = U /\ E.deps = D.deps /\ E = [T |-> U, deps |-> D.deps]
  BY <1>1
<1> HIDE DEF T, E
<1>4. /\ U \in Estate /\ Sound(U, {T_PIP}) /\ U.groups = T.groups /\ U.ref = T.ref
      /\ ToSet(U.rows) = ToSet(T.rows) \cup {r}
      /\ r.type = type /\ r.sub = G.sub /\ Holds(G, r)
  BY <1>1, <1>2, RowMinted
<1>5. r \in Resource
  BY <1>4, Elements
<1> HIDE DEF U
<1>6. \A d \in D.deps : Crossing(d, ToSet(U.rows), H)
  BY <1>1, <1>4 DEF Crossing
<1>7. E \in [T : Estate, deps : SUBSET DepRow]
  BY <1>1, <1>3, <1>4
<1>8. E \in Linked(T0, H)
  BY <1>1, <1>3, <1>4, <1>6, <1>7 DEF Linked
<1> QED
  BY <1>3, <1>4, <1>5, <1>8 DEF E, T

(* A run with a dependency more. *)
LEMMA DepLinked ==
  ASSUME NEW T0, NEW H, NEW D \in Linked(T0, H), NEW d \in DepRow, Crossing(d, ToSet(D.T.rows), H)
  PROVE  AddDep(D, d) \in Linked(T0, H) /\ AddDep(D, d).T = D.T
<1> DEFINE E == AddDep(D, d)
<1>1. D \in [T : Estate, deps : SUBSET DepRow]
  BY DEF Linked
<1>2. E.T = D.T /\ E.deps = D.deps \cup {d} /\ E \in [T : Estate, deps : SUBSET DepRow]
  BY <1>1 DEF AddDep
<1> HIDE DEF E
<1>3. E \in Linked(T0, H)
  BY <1>1, <1>2 DEF Linked
<1> QED
  BY <1>2, <1>3 DEF E

(* The first row of a type, the first group of a subscription. *)
LEMMA FirstOfType ==
  ASSUME NEW T \in Estate, NEW sub, NEW type, Has(T, sub, type)
  PROVE  _first_of_type(T, sub, type) \in Pool(T, sub, type)
<1> DEFINE s == RowsOfType(T, sub, type)
<1>1. s \in Seq(Pool(T, sub, type)) /\ ToSet(s) = Pool(T, sub, type)
  BY RowsOfTypeFacts
<1> HIDE DEF s
<1>2. Len(s) > 0
  BY <1>1 DEF Has, ToSet
<1>3. s[1] \in Pool(T, sub, type)
  BY <1>1, <1>2
<1> QED
  BY <1>3 DEF s, _first_of_type

LEMMA FirstGroup ==
  ASSUME NEW T \in Estate, NEW sub, GroupsOf(T, sub) # <<>>
  PROVE  GroupsOf(T, sub)[1] \in ToSet(T.groups) /\ GroupsOf(T, sub)[1].sub = sub
<1> DEFINE S == {G \in ToSet(T.groups) : G.sub = sub}
           s == GroupsOf(T, sub)
<1>1. s = Keep(T.groups, S) /\ T.groups \in Seq(Group)
  BY DEF GroupsOf, Estate
<1> HIDE DEF s, S
<1>2. s \in Seq(Group) /\ ToSet(s) = ToSet(T.groups) \cap S
  BY <1>1, KeepFacts
<1>3. s # <<>>
  BY DEF s
<1>4. 1 \in DOMAIN s
  BY <1>2, <1>3
<1>5. s[1] \in ToSet(T.groups) \cap S
  BY <1>2, <1>4 DEF ToSet
<1> QED
  BY <1>5 DEF s, S

(* Anchors minted where they are missing. *)
LEMMA AnchorEnsured ==
  ASSUME NEW T0, NEW H, NEW D \in Linked(T0, H), NEW sub,
         NEW type \in {T_VNET, T_KV, T_LOG_ANALYTICS, T_ACR}
  PROVE  LET E == _ensure_anchor(D, sub, type) IN
         E \in Linked(T0, H) /\ ToSet(D.T.rows) \subseteq ToSet(E.T.rows)
<1> DEFINE E == _ensure_anchor(D, sub, type)
           G == GroupsOf(D.T, sub)[1]
           r == generate_resource(sub, G.name, type, D.T.seen)
<1>1. CASE E = D
  BY <1>1
<1>2. CASE E # D
  <2>1. GroupsOf(D.T, sub) # <<>> /\ E = [D EXCEPT !.T = AddRow(@, r)]
    BY <1>2 DEF _ensure_anchor
  <2>2. D.T \in Estate
    BY DEF Linked
  <2>3. G \in ToSet(D.T.groups) /\ G.sub = sub
    BY <2>1, <2>2, FirstGroup
  <2>4. r = generate_resource(G.sub, G.name, type, D.T.seen)
    BY <2>3
  <2>5. type \in Type \ {T_PIP}
    BY MintedTypes DEF T_VNET, T_KV, T_LOG_ANALYTICS, T_ACR, T_PIP
  <2> HIDE DEF r, G
  <2>6. [D EXCEPT !.T = AddRow(@, r)] \in Linked(T0, H)
        /\ ToSet([D EXCEPT !.T = AddRow(@, r)].T.rows) = ToSet(D.T.rows) \cup {r}
    BY <2>3, <2>4, <2>5, RowLinked
  <2> QED
    BY <2>1, <2>6
<1> QED
  BY <1>1, <1>2

LEMMA AnchorsEnsured ==
  ASSUME NEW T0, NEW H, NEW D \in Linked(T0, H), NEW hosts \in SUBSET Subscriptions,
         NEW type \in {T_VNET, T_KV, T_LOG_ANALYTICS, T_ACR}
  PROVE  Fold(LAMBDA E, i : _ensure_anchor(E, i, type), InOrder(hosts), D) \in Linked(T0, H)
<1> DEFINE seq == InOrder(hosts)
<1>a. seq \in Seq(hosts)
  BY InOrderFacts
<1> HIDE DEF seq
<1> DEFINE n == Len(seq)
           start == D
           Op(U, x) == _ensure_anchor(U, x, type)
           IsF(f) == f = [k \in 0..n |-> IF k = 0 THEN start ELSE Op(f[k - 1], seq[k])]
           F == CHOOSE f : IsF(f)
           P == Linked(T0, H)
           step == [k \in 1..n |-> [U \in P |-> Op(U, seq[k])]]
<1>1. n \in Nat /\ \A k \in 1..n : seq[k] \in hosts
  BY <1>a
<1>2. ASSUME NEW U \in P, NEW x \in hosts PROVE Op(U, x) \in P
  BY AnchorEnsured
<1>3. start \in P
  OBVIOUS
<1> HIDE DEF Op, P, n, start
<1>4. step \in Steps(n, P) /\ \A k \in 1..n : \A U \in P : step[k][U] = Op(U, seq[k])
  BY <1>1, <1>2 DEF Steps
<1> HIDE DEF step
<1>5. IsF(F)
  <2>1. PICK f : Iterates(f, n, P, start, step)
    BY <1>1, <1>3, <1>4, RecursionDefined
  <2>2. f \in [0..n -> P] /\ \A k \in 1..n : k - 1 \in 0..n
    BY <1>1, <2>1 DEF Iterates
  <2>3. \A k \in 1..n : f[k] = Op(f[k - 1], seq[k])
    BY <1>4, <2>1, <2>2 DEF Iterates
  <2>4. \A k \in 0..n : f[k] = IF k = 0 THEN start ELSE Op(f[k - 1], seq[k])
    BY <1>1, <2>1, <2>3 DEF Iterates
  <2>5. IsF(f)
    BY <2>1, <2>4 DEF Iterates
  <2> HIDE DEF IsF
  <2> QED
    BY <2>5
<1> HIDE DEF F
<1>6. F[0] = start /\ \A k \in 1..n : F[k] = Op(F[k - 1], seq[k])
  BY <1>1, <1>5
<1>7. \A k \in 0..n : F[k] \in P
  <2> DEFINE A == {k \in 0..n : F[k] \in P}
  <2>1. 0 \in A /\ \A k \in 1..n : k - 1 \in A => k \in A
    BY <1>1, <1>2, <1>3, <1>6
  <2> HIDE DEF A
  <2>2. \A k \in 0..n : k \in A
    BY <1>1, <2>1, BoundedInduction
  <2> QED
    BY <2>2 DEF A
<1>8. Fold(LAMBDA E, i : _ensure_anchor(E, i, type), InOrder(hosts), D) = F[n]
  BY DEF Fold, F, Op, n, start, seq
<1>9. F[n] \in Linked(T0, H)
  BY <1>1, <1>7 DEF P
<1> QED
  BY <1>8, <1>9

(* Hub and spokes. *)
LEMMA SpokesPeered ==
  ASSUME NEW T0, NEW H \in SUBSET Subscriptions, NEW hub \in H, NEW seq \in Seq(Subscriptions \ H),
         NEW D \in Linked(T0, H), Has(D.T, hub, T_VNET)
  PROVE  LET peer(h, E, spoke) ==
                 LET A == _ensure_anchor(E, spoke, T_VNET) IN
                 IF ~Has(A.T, spoke, T_VNET) THEN A
                 ELSE AddDep(A, Dep("vnet-peering", _first_of_type(A.T, h, T_VNET),
                                    _first_of_type(A.T, spoke, T_VNET), h, spoke))
         IN  Fold(LAMBDA A, spoke : peer(hub, A, spoke), seq, D) \in Linked(T0, H)
<1> DEFINE anchor(E, spoke) == _ensure_anchor(E, spoke, T_VNET)
           dep(A, spoke) == Dep("vnet-peering", _first_of_type(A.T, hub, T_VNET),
                                _first_of_type(A.T, spoke, T_VNET), hub, spoke)
           peer(E, spoke) ==
               LET A == anchor(E, spoke) IN
               IF ~Has(A.T, spoke, T_VNET) THEN A ELSE AddDep(A, dep(A, spoke))
<1> DEFINE n == Len(seq)
           start == D
           Op(U, x) == peer(U, x)
           IsF(f) == f = [k \in 0..n |-> IF k = 0 THEN start ELSE Op(f[k - 1], seq[k])]
           F == CHOOSE f : IsF(f)
           P == {E \in Linked(T0, H) : Has(E.T, hub, T_VNET)}
           step == [k \in 1..n |-> [U \in P |-> Op(U, seq[k])]]
<1>1. n \in Nat /\ \A k \in 1..n : seq[k] \in Subscriptions \ H
  OBVIOUS
<1>2. ASSUME NEW U \in P, NEW x \in Subscriptions \ H PROVE Op(U, x) \in P
  <2> DEFINE A == anchor(U, x)
             d == dep(A, x)
  <2>1. U \in Linked(T0, H) /\ Has(U.T, hub, T_VNET)
    OBVIOUS
  <2>2. A \in Linked(T0, H) /\ ToSet(U.T.rows) \subseteq ToSet(A.T.rows)
    BY <2>1, AnchorEnsured
  <2>3. A.T \in Estate
    BY <2>2 DEF Linked
  <2> HIDE DEF anchor
  <2>4. Has(A.T, hub, T_VNET)
    BY <2>1, <2>2 DEF Has, Pool
  <2>5. CASE ~Has(A.T, x, T_VNET)
    BY <2>2, <2>4, <2>5
  <2>6. CASE Has(A.T, x, T_VNET)
    <3>1. Op(U, x) = AddDep(A, d)
      BY <2>6
    <3>2. /\ _first_of_type(A.T, hub, T_VNET) \in Pool(A.T, hub, T_VNET)
          /\ _first_of_type(A.T, x, T_VNET) \in Pool(A.T, x, T_VNET)
      BY <2>3, <2>4, <2>6, FirstOfType
    <3>3. ToSet(A.T.rows) \subseteq Resource
      BY <2>3, Elements
    <3>4. hub \in Subscriptions /\ x \in Subscriptions /\ x \notin H /\ hub # x
      OBVIOUS
    <3> HIDE DEF A, P
    <3>5. d \in DepRow /\ Crossing(d, ToSet(A.T.rows), H)
      BY <3>2, <3>3, <3>4 DEF Dep, DepRow, DepTypes, Crossing, Pool
    <3> HIDE DEF d
    <3>6. AddDep(A, d) \in Linked(T0, H) /\ AddDep(A, d).T = A.T
      BY <2>2, <3>5, DepLinked
    <3> HIDE DEF Op
    <3> QED
      BY <2>4, <3>1, <3>6 DEF P
  <2> QED
    BY <2>5, <2>6
<1>3. start \in P
  OBVIOUS
<1> HIDE DEF Op, P, n, start
<1>4. step \in Steps(n, P) /\ \A k \in 1..n : \A U \in P : step[k][U] = Op(U, seq[k])
  BY <1>1, <1>2 DEF Steps
<1> HIDE DEF step
<1>5. IsF(F)
  <2>1. PICK f : Iterates(f, n, P, start, step)
    BY <1>1, <1>3, <1>4, RecursionDefined
  <2>2. f \in [0..n -> P] /\ \A k \in 1..n : k - 1 \in 0..n
    BY <1>1, <2>1 DEF Iterates
  <2>3. \A k \in 1..n : f[k] = Op(f[k - 1], seq[k])
    BY <1>4, <2>1, <2>2 DEF Iterates
  <2>4. \A k \in 0..n : f[k] = IF k = 0 THEN start ELSE Op(f[k - 1], seq[k])
    BY <1>1, <2>1, <2>3 DEF Iterates
  <2>5. IsF(f)
    BY <2>1, <2>4 DEF Iterates
  <2> HIDE DEF IsF
  <2> QED
    BY <2>5
<1> HIDE DEF F
<1>6. F[0] = start /\ \A k \in 1..n : F[k] = Op(F[k - 1], seq[k])
  BY <1>1, <1>5
<1>7. \A k \in 0..n : F[k] \in P
  <2> DEFINE A == {k \in 0..n : F[k] \in P}
  <2>1. 0 \in A /\ \A k \in 1..n : k - 1 \in A => k \in A
    BY <1>1, <1>2, <1>3, <1>6
  <2> HIDE DEF A
  <2>2. \A k \in 0..n : k \in A
    BY <1>1, <2>1, BoundedInduction
  <2> QED
    BY <2>2 DEF A
<1>8. Fold(LAMBDA A, spoke : peer(A, spoke), seq, D) = F[n]
  BY DEF Fold, F, Op, n, start
<1>9. F[n] \in Linked(T0, H)
  BY <1>1, <1>7 DEF P
<1> QED
  BY <1>8, <1>9

LEMMA HubsPeered ==
  ASSUME NEW T0, NEW H \in SUBSET Subscriptions, NEW D \in Linked(T0, H), NEW m
  PROVE  _build_vnet_peering(D, H, m) \subseteq Linked(T0, H)
<1> DEFINE peer(h, E, spoke) ==
                 LET A == _ensure_anchor(E, spoke, T_VNET) IN
                 IF ~Has(A.T, spoke, T_VNET) THEN A
                 ELSE AddDep(A, Dep("vnet-peering", _first_of_type(A.T, h, T_VNET),
                                    _first_of_type(A.T, spoke, T_VNET), h, spoke))
           peered(E, hub) ==
                 IF ~Has(E.T, hub, T_VNET) THEN {E}
                 ELSE {Fold(LAMBDA A, spoke : peer(hub, A, spoke), InOrder(spokes), E) :
                         spokes \in _select_hosts(_other_subs(H), m)}
           seq == InOrder(H)
<1>a. seq \in Seq(H)
  BY InOrderFacts
<1> HIDE DEF seq
<1> DEFINE n == Len(seq)
           start == {D}
           Op(Us, x) == UNION {peered(U, x) : U \in Us}
           IsF(f) == f = [k \in 0..n |-> IF k = 0 THEN start ELSE Op(f[k - 1], seq[k])]
           F == CHOOSE f : IsF(f)
           P == SUBSET Linked(T0, H)
           step == [k \in 1..n |-> [Us \in P |-> Op(Us, seq[k])]]
<1>1. n \in Nat /\ \A k \in 1..n : seq[k] \in H
  BY <1>a
<1>2. ASSUME NEW Us \in P, NEW x \in H PROVE Op(Us, x) \in P
  <2>1. ASSUME NEW U \in Us, NEW V \in peered(U, x) PROVE V \in Linked(T0, H)
    <3>1. U \in Linked(T0, H)
      OBVIOUS
    <3>2. CASE ~Has(U.T, x, T_VNET)
      BY <3>1, <3>2
    <3>3. CASE Has(U.T, x, T_VNET)
      <4>1. PICK spokes \in _select_hosts(_other_subs(H), m) :
                V = Fold(LAMBDA A, spoke : peer(x, A, spoke), InOrder(spokes), U)
        BY <3>3
      <4>2. spokes \subseteq Subscriptions \ H
        BY DEF _select_hosts, _other_subs
      <4> HIDE DEF P, peered
      <4>3. InOrder(spokes) \in Seq(spokes)
        BY <4>2, InOrderFacts
      <4>4. InOrder(spokes) \in Seq(Subscriptions \ H)
        BY <4>2, <4>3
      <4> QED
        BY <3>1, <3>3, <4>1, <4>4, SpokesPeered
    <3> QED
      BY <3>2, <3>3
  <2> QED
    BY <2>1
<1>3. start \in P
  OBVIOUS
<1> HIDE DEF Op, P, n, start
<1>4. step \in Steps(n, P) /\ \A k \in 1..n : \A Us \in P : step[k][Us] = Op(Us, seq[k])
  BY <1>1, <1>2 DEF Steps
<1> HIDE DEF step
<1>5. IsF(F)
  <2>1. PICK f : Iterates(f, n, P, start, step)
    BY <1>1, <1>3, <1>4, RecursionDefined
  <2>2. f \in [0..n -> P] /\ \A k \in 1..n : k - 1 \in 0..n
    BY <1>1, <2>1 DEF Iterates
  <2>3. \A k \in 1..n : f[k] = Op(f[k - 1], seq[k])
    BY <1>4, <2>1, <2>2 DEF Iterates
  <2>4. \A k \in 0..n : f[k] = IF k = 0 THEN start ELSE Op(f[k - 1], seq[k])
    BY <1>1, <2>1, <2>3 DEF Iterates
  <2>5. IsF(f)
    BY <2>1, <2>4 DEF Iterates
  <2> HIDE DEF IsF
  <2> QED
    BY <2>5
<1> HIDE DEF F
<1>6. F[0] = start /\ \A k \in 1..n : F[k] = Op(F[k - 1], seq[k])
  BY <1>1, <1>5
<1>7. \A k \in 0..n : F[k] \in P
  <2> DEFINE A == {k \in 0..n : F[k] \in P}
  <2>1. 0 \in A /\ \A k \in 1..n : k - 1 \in A => k \in A
    BY <1>1, <1>2, <1>3, <1>6
  <2> HIDE DEF A
  <2>2. \A k \in 0..n : k \in A
    BY <1>1, <2>1, BoundedInduction
  <2> QED
    BY <2>2 DEF A
<1>8. ForEach(peered, InOrder(H), {D}) = F[n]
  BY DEF ForEach, Fold, F, Op, n, start, seq
<1>9. F[n] \subseteq Linked(T0, H)
  BY <1>1, <1>7 DEF P
<1>10. _build_vnet_peering(D, H, m) = ForEach(peered, InOrder(H), {D})
  BY DEF _build_vnet_peering
<1> QED
  BY <1>8, <1>9, <1>10

(* Services shared from some subscriptions to others. *)
LEMMA ServiceShared ==
  ASSUME NEW T0, NEW H \in SUBSET Subscriptions, NEW D \in Linked(T0, H),
         NEW dep_type \in DepTypes, dep_type # "vnet-peering", NEW type,
         NEW hosts \in SUBSET Subscriptions, NEW m
  PROVE  SharedService(D, dep_type, type, hosts, m) \subseteq Linked(T0, H)
<1> DEFINE central == {h \in hosts : Has(D.T, h, type)}
           source(i) == Keep(D.T.rows, {r \in ToSet(D.T.rows) : r.sub = i})
           use(E, i) ==
               IF source(i) = <<>> THEN {E}
               ELSE {AddDep(E, Dep(dep_type, source(i)[1], _first_of_type(D.T, h, type), i, h)) :
                       h \in central}
<1>a. D.T \in Estate /\ D.T.rows \in Seq(Resource) /\ ToSet(D.T.rows) \subseteq Resource
  <2>1. D.T \in Estate
    BY DEF Linked
  <2> QED
    BY <2>1, Elements DEF Estate
<1>b. ASSUME NEW i, source(i) # <<>>
      PROVE  source(i)[1] \in ToSet(D.T.rows) /\ source(i)[1].sub = i
  <2> DEFINE S == {r \in ToSet(D.T.rows) : r.sub = i}
             s == Keep(D.T.rows, S)
  <2>1. s # <<>>
    BY <1>b
  <2> HIDE DEF S
  <2>2. s \in Seq(Resource) /\ ToSet(s) = ToSet(D.T.rows) \cap S
    BY <1>a, KeepFacts
  <2> HIDE DEF s
  <2>3. 1 \in DOMAIN s
    BY <2>1, <2>2
  <2>4. s[1] \in ToSet(D.T.rows) \cap S
    BY <2>2, <2>3 DEF ToSet
  <2> QED
    BY <2>4 DEF s, S
<1> HIDE DEF source
<1>c. ASSUME NEW consumers \in _select_hosts(_other_subs(hosts), m)
      PROVE  ForEach(use, InOrder(consumers), {D}) \subseteq Linked(T0, H)
  <2> DEFINE Q == {E \in Linked(T0, H) : E.T = D.T}
  <2>a. consumers \subseteq Subscriptions \ hosts
    BY DEF _select_hosts, _other_subs
  <2> SUFFICES ASSUME NEW seq \in Seq(Subscriptions \ hosts)
               PROVE  ForEach(use, seq, {D}) \subseteq Linked(T0, H)
    <3> HIDE DEF use, Q, central
    <3>3. consumers \in SUBSET Subscriptions
      BY <2>a
    <3>1. InOrder(consumers) \in Seq(consumers)
      BY <3>3, InOrderFacts
    <3>2. InOrder(consumers) \in Seq(Subscriptions \ hosts)
      BY <2>a, <3>1
    <3> QED
      BY <3>2
  <2>b. ASSUME NEW E \in Q, NEW i \in Subscriptions \ hosts, NEW V \in use(E, i) PROVE V \in Q
    <3>1. CASE source(i) = <<>>
      BY <2>b, <3>1
    <3>2. CASE source(i) # <<>>
      <4>1. PICK h \in central :
                V = AddDep(E, Dep(dep_type, source(i)[1], _first_of_type(D.T, h, type), i, h))
        BY <2>b, <3>2
      <4>2. source(i)[1] \in ToSet(D.T.rows) /\ source(i)[1].sub = i
        BY <1>b, <3>2
      <4>3. _first_of_type(D.T, h, type) \in Pool(D.T, h, type)
        BY <1>a, FirstOfType
      <4>4. h \in Subscriptions /\ i \in Subscriptions /\ h # i
        OBVIOUS
      <4> DEFINE d == Dep(dep_type, source(i)[1], _first_of_type(D.T, h, type), i, h)
      <4>5. d \in DepRow /\ Crossing(d, ToSet(D.T.rows), H)
        BY <1>a, <4>2, <4>3, <4>4 DEF Dep, DepRow, Crossing, Pool
      <4> HIDE DEF d
      <4>6. E.T = D.T /\ E \in Linked(T0, H) /\ V = AddDep(E, d)
        BY <4>1 DEF d
      <4> HIDE DEF use, Q
      <4>7. V \in Linked(T0, H) /\ V.T = E.T
        BY <4>5, <4>6, DepLinked
      <4> QED
        BY <4>6, <4>7 DEF Q
    <3> QED
      BY <3>1, <3>2
  <2> HIDE DEF use
  <2> DEFINE n == Len(seq)
             start == {D}
             Op(Us, x) == UNION {use(U, x) : U \in Us}
             IsF(f) == f = [k \in 0..n |-> IF k = 0 THEN start ELSE Op(f[k - 1], seq[k])]
             F == CHOOSE f : IsF(f)
             P == SUBSET Q
             step == [k \in 1..n |-> [Us \in P |-> Op(Us, seq[k])]]
  <2>1. n \in Nat /\ \A k \in 1..n : seq[k] \in Subscriptions \ hosts
    OBVIOUS
  <2>2. ASSUME NEW Us \in P, NEW x \in Subscriptions \ hosts PROVE Op(Us, x) \in P
    BY <2>b
  <2>3. start \in P
    BY DEF Q
  <2> HIDE DEF Op, P, n, start
  <2>4. step \in Steps(n, P) /\ \A k \in 1..n : \A Us \in P : step[k][Us] = Op(Us, seq[k])
    BY <2>1, <2>2 DEF Steps
  <2> HIDE DEF step
  <2>5. IsF(F)
    <3>1. PICK f : Iterates(f, n, P, start, step)
      BY <2>1, <2>3, <2>4, RecursionDefined
    <3>2. f \in [0..n -> P] /\ \A k \in 1..n : k - 1 \in 0..n
      BY <2>1, <3>1 DEF Iterates
    <3>3. \A k \in 1..n : f[k] = Op(f[k - 1], seq[k])
      BY <2>4, <3>1, <3>2 DEF Iterates
    <3>4. \A k \in 0..n : f[k] = IF k = 0 THEN start ELSE Op(f[k - 1], seq[k])
      BY <2>1, <3>1, <3>3 DEF Iterates
    <3>5. IsF(f)
      BY <3>1, <3>4 DEF Iterates
    <3> HIDE DEF IsF
    <3> QED
      BY <3>5
  <2> HIDE DEF F
  <2>6. F[0] = start /\ \A k \in 1..n : F[k] = Op(F[k - 1], seq[k])
    BY <2>1, <2>5
  <2>7. \A k \in 0..n : F[k] \in P
    <3> DEFINE A == {k \in 0..n : F[k] \in P}
    <3>1. 0 \in A /\ \A k \in 1..n : k - 1 \in A => k \in A
      BY <2>1, <2>2, <2>3, <2>6
    <3> HIDE DEF A
    <3>2. \A k \in 0..n : k \in A
      BY <2>1, <3>1, BoundedInduction
    <3> QED
      BY <3>2 DEF A
  <2>8. ForEach(use, seq, {D}) = F[n]
    BY DEF ForEach, Fold, F, Op, n, start
  <2>9. F[n] \subseteq Linked(T0, H)
    BY <2>1, <2>7 DEF P, Q
  <2> QED
    BY <2>8, <2>9
<1>d. ASSUME NEW V \in SharedService(D, dep_type, type, hosts, m) PROVE V \in Linked(T0, H)
  <2>1. V = D \/ \E consumers \in _select_hosts(_other_subs(hosts), m) :
                    V \in ForEach(use, InOrder(consumers), {D})
    BY <1>d DEF SharedService, source
  <2> HIDE DEF use
  <2> QED
    BY <1>c, <2>1
<1> QED
  BY <1>d

(* Private endpoints to the rows of some types. *)
LEMMA EndpointsBuilt ==
  ASSUME NEW T0, NEW H, NEW D \in Linked(T0, H)
  PROVE  _build_private_endpoints(D) \subseteq Linked(T0, H)
<1> DEFINE consumers(r) == {i \in Subscriptions \ {r.sub} : GroupsOf(D.T, i) # <<>>}
           endpoint(E, r, i) ==
               LET pe == generate_resource(i, GroupsOf(E.T, i)[1].name, T_PE, E.T.seen)
               IN  AddDep([E EXCEPT !.T = AddRow(@, pe)],
                          Dep("private-endpoint", pe, r, i, r.sub))
           reach(E, type) ==
               LET targets == {r \in ToSet(E.T.rows) : r.type = type /\ consumers(r) # {}} IN
               IF targets = {} THEN {E}
               ELSE UNION {{endpoint(E, r, i) : i \in consumers(r)} : r \in targets}
           seq == <<Storage, "Sql/servers", T_KV>>
           kinds == {Storage, "Sql/servers", T_KV}
<1>a. ASSUME NEW E \in Linked(T0, H), NEW type, NEW V \in reach(E, type) PROVE V \in Linked(T0, H)
  <2>1. CASE V = E
    BY <2>1
  <2>2. CASE V # E
    <3>1. PICK r \in ToSet(E.T.rows), i \in Subscriptions :
              i # r.sub /\ GroupsOf(D.T, i) # <<>> /\ V = endpoint(E, r, i)
      BY <1>a, <2>2
    <3> DEFINE G == GroupsOf(E.T, i)[1]
               pe == generate_resource(i, G.name, T_PE, E.T.seen)
               A == [E EXCEPT !.T = AddRow(@, pe)]
               d == Dep("private-endpoint", pe, r, i, r.sub)
    <3>2. E.T \in Estate /\ E.T.groups = D.T.groups
      BY DEF Linked
    <3>3. GroupsOf(E.T, i) # <<>>
      BY <3>1, <3>2 DEF GroupsOf
    <3>4. G \in ToSet(E.T.groups) /\ G.sub = i
      BY <3>2, <3>3, FirstGroup
    <3>5. T_PE \in Type \ {T_PIP}
      BY MintedTypes DEF T_PE, T_PIP
    <3>6. V = AddDep(A, d)
      BY <3>1
    <3>7. pe = generate_resource(G.sub, G.name, T_PE, E.T.seen)
      BY <3>4
    <3>8. r \in Resource /\ r.sub \in Subscriptions
      <4>1. r \in Resource
        BY <3>2, Elements
      <4> QED
        BY <4>1 DEF Resource
    <3> HIDE DEF reach, endpoint, G, pe
    <3>9. A \in Linked(T0, H) /\ ToSet(A.T.rows) = ToSet(E.T.rows) \cup {pe} /\ pe.sub = i /\ pe \in Resource
      BY <3>4, <3>5, <3>7, RowLinked
    <3>10. d \in DepRow /\ Crossing(d, ToSet(A.T.rows), H)
      <4> HIDE DEF A
      <4> QED
        BY <3>1, <3>8, <3>9 DEF Dep, DepRow, DepTypes, Crossing
    <3> HIDE DEF A, d
    <3> QED
      BY <3>6, <3>9, <3>10, DepLinked
  <2> QED
    BY <2>1, <2>2
<1>b. seq \in Seq(kinds)
  OBVIOUS
<1> HIDE DEF reach, seq, kinds
<1> DEFINE n == Len(seq)
           start == {D}
           Op(Us, x) == UNION {reach(U, x) : U \in Us}
           IsF(f) == f = [k \in 0..n |-> IF k = 0 THEN start ELSE Op(f[k - 1], seq[k])]
           F == CHOOSE f : IsF(f)
           P == SUBSET Linked(T0, H)
           step == [k \in 1..n |-> [Us \in P |-> Op(Us, seq[k])]]
<1>1. n \in Nat /\ \A k \in 1..n : seq[k] \in kinds
  BY <1>b
<1>2. ASSUME NEW Us \in P, NEW x \in kinds PROVE Op(Us, x) \in P
  BY <1>a
<1>3. start \in P
  OBVIOUS
<1> HIDE DEF Op, P, n, start
<1>4. step \in Steps(n, P) /\ \A k \in 1..n : \A Us \in P : step[k][Us] = Op(Us, seq[k])
  BY <1>1, <1>2 DEF Steps
<1> HIDE DEF step
<1>5. IsF(F)
  <2>1. PICK f : Iterates(f, n, P, start, step)
    BY <1>1, <1>3, <1>4, RecursionDefined
  <2>2. f \in [0..n -> P] /\ \A k \in 1..n : k - 1 \in 0..n
    BY <1>1, <2>1 DEF Iterates
  <2>3. \A k \in 1..n : f[k] = Op(f[k - 1], seq[k])
    BY <1>4, <2>1, <2>2 DEF Iterates
  <2>4. \A k \in 0..n : f[k] = IF k = 0 THEN start ELSE Op(f[k - 1], seq[k])
    BY <1>1, <2>1, <2>3 DEF Iterates
  <2>5. IsF(f)
    BY <2>1, <2>4 DEF Iterates
  <2> HIDE DEF IsF
  <2> QED
    BY <2>5
<1> HIDE DEF F
<1>6. F[0] = start /\ \A k \in 1..n : F[k] = Op(F[k - 1], seq[k])
  BY <1>1, <1>5
<1>7. \A k \in 0..n : F[k] \in P
  <2> DEFINE A == {k \in 0..n : F[k] \in P}
  <2>1. 0 \in A /\ \A k \in 1..n : k - 1 \in A => k \in A
    BY <1>1, <1>2, <1>3, <1>6
  <2> HIDE DEF A
  <2>2. \A k \in 0..n : k \in A
    BY <1>1, <2>1, BoundedInduction
  <2> QED
    BY <2>2 DEF A
<1>8. _build_private_endpoints(D) = F[n]
  BY DEF _build_private_endpoints, reach, seq, ForEach, Fold, F, Op, n, start
<1> QED
  BY <1>1, <1>7, <1>8 DEF P

(* Clusters that pull from a shared registry. *)
LEMMA AcrShared ==
  ASSUME NEW T0, NEW H, NEW D \in Linked(T0, H), NEW hosts \in SUBSET Subscriptions
  PROVE  _build_shared_acr(D, hosts) \subseteq Linked(T0, H)
<1> DEFINE registries == {h \in hosts : Has(D.T, h, T_ACR)}
           S == {r \in ToSet(D.T.rows) : r.type = T_AKS /\ r.sub \notin hosts}
           clusters == Keep(D.T.rows, S)
           pull(E, aks) == {AddDep(E, Dep("shared-acr", aks, _first_of_type(D.T, h, T_ACR),
                                          aks.sub, h)) : h \in registries}
           Q == {E \in Linked(T0, H) : E.T = D.T}
<1>a. D.T \in Estate /\ D.T.rows \in Seq(Resource) /\ ToSet(D.T.rows) \subseteq Resource
  <2>1. D.T \in Estate
    BY DEF Linked
  <2> QED
    BY <2>1, Elements DEF Estate
<1>b. ASSUME NEW E \in Q, NEW aks \in S, NEW V \in pull(E, aks) PROVE V \in Q
  <2>1. PICK h \in registries :
            V = AddDep(E, Dep("shared-acr", aks, _first_of_type(D.T, h, T_ACR), aks.sub, h))
    BY <1>b
  <2>2. _first_of_type(D.T, h, T_ACR) \in Pool(D.T, h, T_ACR)
    BY <1>a, FirstOfType
  <2>3. aks \in ToSet(D.T.rows) /\ aks \in Resource /\ aks.sub # h /\ h \in Subscriptions
    BY <1>a
  <2>4. aks.sub \in Subscriptions
    BY <2>3 DEF Resource
  <2> DEFINE d == Dep("shared-acr", aks, _first_of_type(D.T, h, T_ACR), aks.sub, h)
  <2>5. d \in DepRow /\ Crossing(d, ToSet(D.T.rows), H)
    BY <1>a, <2>2, <2>3, <2>4 DEF Dep, DepRow, DepTypes, Crossing, Pool
  <2> HIDE DEF d
  <2>6. E.T = D.T /\ E \in Linked(T0, H) /\ V = AddDep(E, d)
    BY <2>1 DEF d
  <2> HIDE DEF pull, Q
  <2>7. V \in Linked(T0, H) /\ V.T = E.T
    BY <2>5, <2>6, DepLinked
  <2> QED
    BY <2>6, <2>7 DEF Q
<1>c. clusters \in Seq(S)
  <2>1. S \subseteq ToSet(D.T.rows)
    OBVIOUS
  <2> HIDE DEF S
  <2>2. clusters \in Seq(Resource) /\ ToSet(clusters) = ToSet(D.T.rows) \cap S
    BY <1>a, KeepFacts
  <2> HIDE DEF clusters
  <2>3. clusters \in Seq(ToSet(clusters)) /\ ToSet(clusters) \subseteq S
    BY <2>2 DEF ToSet
  <2> QED
    BY <2>3
<1> HIDE DEF clusters, pull, S
<1> DEFINE n == Len(clusters)
           start == {D}
           Op(Us, x) == UNION {pull(U, x) : U \in Us}
           IsF(f) == f = [k \in 0..n |-> IF k = 0 THEN start ELSE Op(f[k - 1], clusters[k])]
           F == CHOOSE f : IsF(f)
           P == SUBSET Q
           step == [k \in 1..n |-> [Us \in P |-> Op(Us, clusters[k])]]
<1>1. n \in Nat /\ \A k \in 1..n : clusters[k] \in S
  BY <1>c
<1>2. ASSUME NEW Us \in P, NEW x \in S PROVE Op(Us, x) \in P
  BY <1>b
<1>3. start \in P
  OBVIOUS
<1> HIDE DEF Op, P, n, start
<1>4. step \in Steps(n, P) /\ \A k \in 1..n : \A Us \in P : step[k][Us] = Op(Us, clusters[k])
  BY <1>1, <1>2 DEF Steps
<1> HIDE DEF step
<1>5. IsF(F)
  <2>1. PICK f : Iterates(f, n, P, start, step)
    BY <1>1, <1>3, <1>4, RecursionDefined
  <2>2. f \in [0..n -> P] /\ \A k \in 1..n : k - 1 \in 0..n
    BY <1>1, <2>1 DEF Iterates
  <2>3. \A k \in 1..n : f[k] = Op(f[k - 1], clusters[k])
    BY <1>4, <2>1, <2>2 DEF Iterates
  <2>4. \A k \in 0..n : f[k] = IF k = 0 THEN start ELSE Op(f[k - 1], clusters[k])
    BY <1>1, <2>1, <2>3 DEF Iterates
  <2>5. IsF(f)
    BY <2>1, <2>4 DEF Iterates
  <2> HIDE DEF IsF
  <2> QED
    BY <2>5
<1> HIDE DEF F
<1>6. F[0] = start /\ \A k \in 1..n : F[k] = Op(F[k - 1], clusters[k])
  BY <1>1, <1>5
<1>7. \A k \in 0..n : F[k] \in P
  <2> DEFINE A == {k \in 0..n : F[k] \in P}
  <2>1. 0 \in A /\ \A k \in 1..n : k - 1 \in A => k \in A
    BY <1>1, <1>2, <1>3, <1>6
  <2> HIDE DEF A
  <2>2. \A k \in 0..n : k \in A
    BY <1>1, <2>1, BoundedInduction
  <2> QED
    BY <2>2 DEF A
<1>8. ForEach(pull, clusters, {D}) = F[n]
  BY DEF ForEach, Fold, F, Op, n, start
<1>9. F[n] \subseteq Linked(T0, H)
  BY <1>1, <1>7 DEF P
<1>10. _build_shared_acr(D, hosts) = IF registries = {} THEN {D} ELSE ForEach(pull, clusters, {D})
  BY DEF _build_shared_acr, pull, clusters, S
<1> HIDE DEF registries
<1> QED
  BY <1>8, <1>9, <1>10

(* The whole of build_cross_sub. *)
LEMMA CrossSubBuilt ==
  ASSUME NEW T0, T0 = Tenant, T0 \in Estate, Sound(T0, {T_PIP}), NEW t,
         NEW hubs \in SUBSET Subscriptions, NEW kvs \in SUBSET Subscriptions,
         NEW logs \in SUBSET Subscriptions, NEW acrs \in SUBSET Subscriptions,
         NEW D \in build_cross_sub(t, hubs, kvs, logs, acrs)
  PROVE  D \in Linked(T0, hubs)
<1> DEFINE ensure(E0, hosts, type) ==
               Fold(LAMBDA E, i : _ensure_anchor(E, i, type), InOrder(hosts), E0)
           D0 == [T |-> T0, deps |-> {}]
           D1 == ensure(D0, hubs, T_VNET)
           D2 == ensure(D1, kvs, T_KV)
           D3 == ensure(D2, logs, T_LOG_ANALYTICS)
           D4 == ensure(D3, acrs, T_ACR)
           peered == _build_vnet_peering(D4, hubs, t.spokes_per_hub)
           vaults == UNION {SharedService(E, "shared-keyvault", T_KV, kvs, t.kv_consumers) : E \in peered}
           logged == UNION {SharedService(E, "log-analytics", T_LOG_ANALYTICS, logs, N) : E \in vaults}
           linked == UNION {_build_private_endpoints(E) : E \in logged}
<1>a. D \in UNION {_build_shared_acr(E, acrs) : E \in linked}
  BY DEF build_cross_sub
<1> HIDE DEF D4
<1>2. PICK D5, D6, D7, D8 :
          /\ D5 \in _build_vnet_peering(D4, hubs, t.spokes_per_hub)
          /\ D6 \in SharedService(D5, "shared-keyvault", T_KV, kvs, t.kv_consumers)
          /\ D7 \in SharedService(D6, "log-analytics", T_LOG_ANALYTICS, logs, N)
          /\ D8 \in _build_private_endpoints(D7) /\ D \in _build_shared_acr(D8, acrs)
  BY <1>a
<1>3. D0 \in Linked(T0, hubs)
  BY DEF Linked
<1> HIDE DEF D0
<1>4. D1 \in Linked(T0, hubs)
  BY <1>3, AnchorsEnsured
<1> HIDE DEF D1
<1>5. D2 \in Linked(T0, hubs)
  BY <1>4, AnchorsEnsured
<1> HIDE DEF D2
<1>6. D3 \in Linked(T0, hubs)
  BY <1>5, AnchorsEnsured
<1> HIDE DEF D3
<1>7. D4 \in Linked(T0, hubs)
  BY <1>6, AnchorsEnsured DEF D4
<1>8. D5 \in Linked(T0, hubs)
  BY <1>2, <1>7, HubsPeered
<1>9. D6 \in Linked(T0, hubs)
  <2>1. "shared-keyvault" \in DepTypes /\ "shared-keyvault" # "vnet-peering"
    BY DEF DepTypes
  <2> QED
    BY <1>2, <1>8, <2>1, ServiceShared
<1>10. D7 \in Linked(T0, hubs)
  <2>1. "log-analytics" \in DepTypes /\ "log-analytics" # "vnet-peering"
    BY DEF DepTypes
  <2> QED
    BY <1>2, <1>9, <2>1, ServiceShared
<1>11. D8 \in Linked(T0, hubs)
  BY <1>2, <1>10, EndpointsBuilt
<1> QED
  BY <1>2, <1>11, AcrShared

(* Dependencies cross between subscriptions, and are between rows there are. *)
DepsTrue ==
    /\ deps \subseteq DepRow
    /\ \E H \in SUBSET Subscriptions : \A d \in deps : Crossing(d, ToSet(rows), H)

(* The pass leaves a sound tenant, whose references and groups are those it *)
(* found, and true dependencies; its assertion never fails.                 *)
LEMMA CrossSubLinked ==
  ASSUME Tenant \in Estate, Sound(Tenant, {T_PIP}), CrossSub
  PROVE  /\ Tenant' \in Estate /\ Sound(Tenant', {T_PIP}) /\ groups' = groups
         /\ ref' = ref /\ ToSet(rows) \subseteq ToSet(rows)' /\ DepsTrue' /\ EndPass
<1> DEFINE T0 == Tenant
<1>1. PICK t, hubs, kvs, logs, acrs, D :
        /\ {hubs, kvs, logs, acrs} \subseteq SUBSET Subscriptions
        /\ D \in build_cross_sub(t, hubs, kvs, logs, acrs)
        /\ IsTenant(D.T) /\ deps' = D.deps
        /\ IF {d.source_resource_id : d \in D.deps} \cup {d.target_resource_id : d \in D.deps}
                  \subseteq ToSet(D.T.rows)
           THEN EndPass ELSE phase' = "failed"
  <2>1. \A k : _select_hosts(Subscriptions, k) \subseteq SUBSET Subscriptions
    BY DEF _select_hosts
  <2> QED
    BY <2>1 DEF CrossSub
<1>2. D \in Linked(T0, hubs)
  BY <1>1, CrossSubBuilt
<1>3. /\ D.T \in Estate /\ D.deps \subseteq DepRow
      /\ Sound(D.T, {T_PIP}) /\ D.T.groups = T0.groups /\ D.T.ref = T0.ref
      /\ ToSet(T0.rows) \subseteq ToSet(D.T.rows)
      /\ \A d \in D.deps : Crossing(d, ToSet(D.T.rows), hubs)
  BY <1>2 DEF Linked
<1>4. T0.rows = rows /\ T0.ref = ref /\ T0.groups = groups
  BY DEF Tenant
<1> HIDE DEF T0
<1>5. Tenant' = D.T
  <2>1. D.T = [groups |-> D.T.groups, rows |-> D.T.rows, ref |-> D.T.ref, seen |-> D.T.seen]
    BY <1>3 DEF Estate
  <2> QED
    BY <1>1, <2>1 DEF Tenant, IsTenant
<1>6. rows' = D.T.rows /\ ref' = D.T.ref /\ groups' = D.T.groups
  BY <1>1 DEF IsTenant
<1>7. EndPass
  BY <1>1, <1>3 DEF Crossing
<1>8. DepsTrue'
  BY <1>1, <1>3, <1>6 DEF DepsTrue
<1> QED
  BY <1>3, <1>4, <1>5, <1>6, <1>7, <1>8

-----------------------------------------------------------------------------
(* _confirm_and_rename.                                                     *)

(* The names in used are those of some of n things, and not of g. *)
HeldByOthers(n, g, names, B, used) ==
    /\ n \in Nat /\ g \in 1..n /\ B \in SUBSET (1..n) /\ g \notin B
    /\ \A x \in used : \E h \in B : names[h] = x

(* One of n numbers is then free for g, whatever the token. *)
LEMMA NumberFree ==
  ASSUME NEW n, NEW g, NEW names, NEW B, NEW used, HeldByOthers(n, g, names, B, used), NEW token
  PROVE  \E k \in 1..n : [token |-> token, number |-> k] \notin used
<1>a. /\ n \in Nat /\ g \in 1..n /\ B \in SUBSET (1..n) /\ g \notin B
      /\ \A x \in used : \E h \in B : names[h] = x
  BY DEF HeldByOthers
<1> DEFINE called == [k \in 1..n |-> [token |-> token, number |-> k]]
           m == n - 1
           S == (1..n) \ {g}
<1>1. m \in Nat /\ m + 1 = n
  BY <1>a
<1>2. IsFiniteSet(1..n) /\ Cardinality(1..n) = n
  <2>1. IsFiniteSet(1..n) /\ Cardinality(1..n) = IF 1 > n THEN 0 ELSE n - 1 + 1
    BY <1>a, FS_Interval
  <2> QED
    BY <1>a, <2>1
<1>3. IsFiniteSet(S) /\ Cardinality(S) = m
  <2>1. IsFiniteSet(S) /\ Cardinality(S) = Cardinality(1..n) - 1
    BY <1>a, <1>2, FS_RemoveElement
  <2> QED
    BY <1>2, <2>1
<1>4. IsFiniteSet(B) /\ Cardinality(B) \in Nat /\ Cardinality(B) <= m
  <2>1. B \in SUBSET S
    BY <1>a
  <2> HIDE DEF S
  <2>2. IsFiniteSet(B) /\ Cardinality(B) <= Cardinality(S)
    BY <1>3, <2>1, FS_Subset
  <2>3. Cardinality(B) \in Nat
    BY <2>2, FS_CardinalityType
  <2> QED
    BY <1>3, <2>2, <2>3
<1>5. IsFiniteSet(used) /\ Cardinality(used) <= m
  <2> DEFINE f == [h \in B |-> names[h]]
             image == {f[h] : h \in B}
  <2>1. f \in Surjection(B, image)
    BY DEF Surjection
  <2>2. used \in SUBSET image
    BY <1>a
  <2> HIDE DEF f, image
  <2>3. IsFiniteSet(image) /\ Cardinality(image) <= Cardinality(B)
    BY <1>4, <2>1, FS_Surjection
  <2>4. IsFiniteSet(used) /\ Cardinality(used) <= Cardinality(image)
    BY <2>2, <2>3, FS_Subset
  <2>5. Cardinality(image) \in Nat /\ Cardinality(used) \in Nat
    BY <2>3, <2>4, FS_CardinalityType
  <2> HIDE DEF m
  <2> QED
    BY <1>1, <1>4, <2>3, <2>4, <2>5
<1>6. \A i, j \in 1..m + 1 : called[i] = called[j] => i = j
  <2>1. \A i \in 1..n : called[i] = [token |-> token, number |-> i]
    OBVIOUS
  <2>2. \A i \in 1..n : called[i].number = i
    BY <2>1
  <2> HIDE DEF called, m
  <2> QED
    BY <1>1, <2>2
<1>7. \E k \in 1..m + 1 : called[k] \notin used
  <2> HIDE DEF called, m
  <2> QED
    BY <1>1, <1>5, <1>6, OneIsLeft
<1> QED
  BY <1>1, <1>7

(* The confirmed names: each group bears the token its rows bear out, and   *)
(* no other group of its subscription has its name.                         *)
Confirmed(names) ==
    /\ names \in [DOMAIN groups -> Name]
    /\ \A g, h \in DOMAIN groups : groups[g].sub = groups[h].sub /\ names[g] = names[h] => g = h
    /\ \A g \in DOMAIN groups :
        names[g].token = confirm_token(label_map[groups[g].template], Types(Tenant, groups[g]))

LEMMA NamesConfirmed ==
  ASSUME groups \in Seq(Group), GroupsApart(groups), Labelled(Tenant)
  PROVE  Confirmed(ConfirmedNames)
<1> DEFINE label(g) == label_map[groups[g].template]
           token(g) == confirm_token(label(g), Types(Tenant, groups[g]))
           others(g) == {h \in DOMAIN groups : h # g /\ groups[h].sub = groups[g].sub}
           taken(names, g) == {names[h] : h \in others(g)}
           called(g, k) == [token |-> token(g), number |-> k]
           _next_free(names, g) ==
               LET used == taken(names, g) IN
               IF called(g, groups[g].name.number) \notin used THEN called(g, groups[g].name.number)
               ELSE called(g, Min({k \in 1..Len(groups) : called(g, k) \notin used}))
           renamed(names, g) ==
               IF token(g) = label(g) THEN names ELSE [names EXCEPT ![g] = _next_free(names, g)]
           seq == [g \in DOMAIN groups |-> g]
           N0 == 1..Len(groups)
<1>a. /\ Len(groups) \in Nat /\ DOMAIN groups = N0 /\ seq \in Seq(N0) /\ Len(seq) = Len(groups)
      /\ \A k \in N0 : seq[k] = k
  OBVIOUS
<1>b. \A g \in N0 : groups[g] \in Group
  OBVIOUS
<1>c. ASSUME NEW g \in N0
      PROVE  /\ token(g) \in Generic \cup {label_map[t] : t \in Template}
             /\ groups[g].name \in Name /\ groups[g].name.number \in Nat \ {0}
             /\ groups[g].name.token = label(g)
  <2>1. groups[g].name \in Name /\ label(g) \in {label_map[t] : t \in Template}
    BY <1>b DEF Group
  <2>2. token(g) \in Generic \cup {label(g)}
    BY DEF confirm_token, Generic
  <2>3. groups[g].name.token = label(g)
    BY <1>a DEF Labelled, Tenant
  <2> HIDE DEF token, label
  <2> QED
    BY <2>1, <2>2, <2>3 DEF Name
<1> HIDE DEF token, label, seq, N0
<1>d. ASSUME NEW names \in [N0 -> Name], NEW g \in N0
      PROVE  /\ _next_free(names, g) \in Name /\ _next_free(names, g).token = token(g)
             /\ \A h \in others(g) : names[h] # _next_free(names, g)
  <2> DEFINE used == taken(names, g)
             low == Min({k \in 1..Len(groups) : called(g, k) \notin used})
  <2>1. CASE called(g, groups[g].name.number) \notin used
    BY <1>c, <2>1 DEF Name
  <2>2. CASE called(g, groups[g].name.number) \in used
    <3>1. others(g) \in SUBSET (1..Len(groups)) /\ g \notin others(g) /\ g \in 1..Len(groups)
      BY <1>a DEF N0
    <3>2. \E k \in 1..Len(groups) : called(g, k) \notin used
      <4> DEFINE B == others(g)
                 u == used
                 tk == token(g)
      <4>1. \A x \in u : \E h \in B : names[h] = x
        OBVIOUS
      <4>2. B \in SUBSET (1..Len(groups)) /\ g \notin B
        BY <3>1
      <4> HIDE DEF B, u, tk
      <4>3. HeldByOthers(Len(groups), g, names, B, u)
        BY <1>a, <3>1, <4>1, <4>2 DEF HeldByOthers
      <4>4. \E k \in 1..Len(groups) : [token |-> tk, number |-> k] \notin u
        BY <4>3, NumberFree
      <4> QED
        BY <4>4 DEF u, tk
    <3>3. low \in 1..Len(groups) /\ called(g, low) \notin used
      <4> DEFINE free == {k \in 1..Len(groups) : called(g, k) \notin used}
      <4>1. free \in SUBSET Nat /\ free # {}
        <5> HIDE DEF used, called
        <5>1. PICK k \in 1..Len(groups) : called(g, k) \notin used
          BY <3>2
        <5>2. free \in SUBSET (1..Len(groups)) /\ k \in free
          BY <5>1
        <5>3. 1..Len(groups) \in SUBSET Nat
          BY <1>a
        <5> HIDE DEF free
        <5> QED
          BY <5>2, <5>3
      <4>2. Min(free) \in free
        <5> HIDE DEF free
        <5> QED
          BY <4>1, MinIn
      <4> QED
        BY <4>2
    <3>4. _next_free(names, g) = called(g, low)
      BY <2>2
    <3> HIDE DEF low, _next_free
    <3>5. low \in Nat \ {0}
      BY <1>a, <3>3
    <3>6. called(g, low) \in Name /\ called(g, low).token = token(g)
      BY <1>c, <3>5 DEF Name
    <3> QED
      BY <3>3, <3>4, <3>6
  <2> QED
    BY <2>1, <2>2
<1> HIDE DEF _next_free
<1> DEFINE n == Len(seq)
           start == [g \in DOMAIN groups |-> groups[g].name]
           Op(U, x) == renamed(U, x)
           IsF(f) == f = [k \in 0..n |-> IF k = 0 THEN start ELSE Op(f[k - 1], seq[k])]
           F == CHOOSE f : IsF(f)
           P == [N0 -> Name]
           step == [k \in 1..n |-> [U \in P |-> Op(U, seq[k])]]
<1>1. n \in Nat /\ \A k \in 1..n : seq[k] \in N0
  BY <1>a
<1>2. ASSUME NEW U \in P, NEW x \in N0 PROVE Op(U, x) \in P
  BY <1>a, <1>d
<1>3. start \in P
  BY <1>a, <1>c
<1> HIDE DEF Op, P, n, start
<1>4. step \in Steps(n, P) /\ \A k \in 1..n : \A U \in P : step[k][U] = Op(U, seq[k])
  BY <1>1, <1>2 DEF Steps
<1> HIDE DEF step
<1>5. IsF(F)
  <2>1. PICK f : Iterates(f, n, P, start, step)
    BY <1>1, <1>3, <1>4, RecursionDefined
  <2>2. f \in [0..n -> P] /\ \A k \in 1..n : k - 1 \in 0..n
    BY <1>1, <2>1 DEF Iterates
  <2>3. \A k \in 1..n : f[k] = Op(f[k - 1], seq[k])
    BY <1>4, <2>1, <2>2 DEF Iterates
  <2>4. \A k \in 0..n : f[k] = IF k = 0 THEN start ELSE Op(f[k - 1], seq[k])
    BY <1>1, <2>1, <2>3 DEF Iterates
  <2>5. IsF(f)
    BY <2>1, <2>4 DEF Iterates
  <2> HIDE DEF IsF
  <2> QED
    BY <2>5
<1> HIDE DEF F
<1>6. F[0] = start /\ \A k \in 1..n : F[k] = Op(F[k - 1], seq[k])
  BY <1>1, <1>5
<1>7. \A k \in 0..n : F[k] \in P
  <2> DEFINE A == {k \in 0..n : F[k] \in P}
  <2>1. 0 \in A /\ \A k \in 1..n : k - 1 \in A => k \in A
    BY <1>1, <1>2, <1>3, <1>6
  <2> HIDE DEF A
  <2>2. \A k \in 0..n : k \in A
    BY <1>1, <2>1, BoundedInduction
  <2> QED
    BY <2>2 DEF A
<1> DEFINE Good(k) ==
               /\ \A g, h \in N0 : groups[g].sub = groups[h].sub /\ F[k][g] = F[k][h] => g = h
               /\ \A g \in 1..k : F[k][g].token = token(g)
               /\ \A g \in N0 : g > k => F[k][g].token = label(g)
<1>8. n = Len(groups) /\ 1..n = N0
  BY <1>a DEF n, N0
<1>9. Good(0)
  <2>1. \A g \in N0 : F[0][g] = groups[g].name
    BY <1>a, <1>6 DEF start
  <2>2. \A g, h \in N0 : groups[g].sub = groups[h].sub /\ F[0][g] = F[0][h] => g = h
    BY <1>a, <2>1 DEF GroupsApart
  <2> QED
    BY <1>c, <2>1, <2>2
<1>10. ASSUME NEW k \in 1..n, Good(k - 1) PROVE Good(k)
  <2> DEFINE names == F[k - 1]
             new == _next_free(names, k)
  <2>1. k \in N0 /\ seq[k] = k /\ k - 1 \in 0..n /\ names \in [N0 -> Name]
    BY <1>1, <1>7, <1>8, <1>a DEF P
  <2>2. F[k] = renamed(names, k)
    BY <1>6, <2>1 DEF Op
  <2>3. \A g, h \in N0 : groups[g].sub = groups[h].sub /\ names[g] = names[h] => g = h
    BY <1>10
  <2>4. \A g \in 1..k - 1 : names[g].token = token(g)
    BY <1>10
  <2>5. \A g \in N0 : g > k - 1 => names[g].token = label(g)
    BY <1>10
  <2>6. n \in Nat /\ k \in Nat /\ (\A g \in 1..k : g = k \/ g \in 1..k - 1) /\ (1..k \subseteq N0)
        /\ \A g \in N0 : g \in Nat
    BY <1>1, <1>8
  <2>7. CASE token(k) = label(k)
    <3>1. F[k] = names
      BY <2>2, <2>7
    <3>2. names[k].token = token(k)
      BY <2>1, <2>5, <2>6, <2>7
    <3> HIDE DEF names
    <3> QED
      BY <2>3, <2>4, <2>5, <2>6, <3>1, <3>2
  <2>8. CASE token(k) # label(k)
    <3>1. F[k] = [names EXCEPT ![k] = new]
      BY <2>2, <2>8
    <3>2. /\ new \in Name /\ new.token = token(k)
          /\ \A h \in N0 : h # k /\ groups[h].sub = groups[k].sub => names[h] # new
      <4> HIDE DEF names, others
      <4>1. new \in Name /\ new.token = token(k) /\ \A h \in others(k) : names[h] # new
        BY <1>d, <2>1
      <4> HIDE DEF new
      <4> QED
        BY <1>a, <4>1 DEF others
    <3> HIDE DEF names, new
    <3>3. F[k][k] = new /\ \A h \in N0 : h # k => F[k][h] = names[h]
      BY <2>1, <3>1
    <3>4. \A g, h \in N0 : groups[g].sub = groups[h].sub /\ F[k][g] = F[k][h] => g = h
      BY <2>3, <3>2, <3>3
    <3>5. \A g \in 1..k : F[k][g].token = token(g)
      <4> TAKE g \in 1..k
      <4>1. CASE g = k
        BY <3>2, <3>3, <4>1
      <4>2. CASE g # k
        BY <2>4, <2>6, <3>3, <4>2
      <4> QED
        BY <4>1, <4>2
    <3>6. \A g \in N0 : g > k => F[k][g].token = label(g)
      BY <2>5, <2>6, <3>3
    <3> QED
      BY <3>4, <3>5, <3>6
  <2> QED
    BY <2>7, <2>8
<1>11. Good(n)
  <2> DEFINE A == {k \in 0..n : Good(k)}
  <2> HIDE DEF Good
  <2>1. 0 \in A /\ \A k \in 1..n : k - 1 \in A => k \in A
    BY <1>1, <1>9, <1>10
  <2> HIDE DEF A
  <2>2. n \in A
    <3>1. n \in 0..n
      BY <1>1
    <3> QED
      BY <1>1, <2>1, <3>1, BoundedInduction
  <2> QED
    BY <2>2 DEF A
<1>12. ConfirmedNames = F[n]
  BY DEF ConfirmedNames, Fold, F, Op, n, start, seq, renamed, _next_free, taken, others, called, token, label
<1>13. F[n] \in [N0 -> Name]
  BY <1>1, <1>7 DEF P
<1>14. Confirmed(F[n])
  BY <1>8, <1>11, <1>13, <1>a DEF Confirmed, token, label
<1> QED
  BY <1>12, <1>14

(* What the sweep does, to names of groups and, by M, to ids of rows.       *)
Swept(names, M) ==
    /\ Confirmed(names)
    /\ M \in [ToSet(rows) -> Resource]
    /\ \A r, q \in ToSet(rows) : M[r] = M[q] => r = q
    /\ \A r \in ToSet(rows) : M[r].type = r.type /\ M[r].sub = r.sub
    /\ \A r \in ToSet(rows), g \in DOMAIN groups :
        Holds(groups[g], r) <=> groups[g].sub = M[r].sub /\ names[g] = M[r].rg
    /\ groups' = [g \in DOMAIN groups |-> [groups[g] EXCEPT !.name = names[g]]]
    /\ rows' = [k \in DOMAIN rows |-> M[rows[k]]]
    /\ ref' = {[src |-> M[e.src], via |-> e.via, dst |-> M[e.dst]] : e \in ref}
    /\ seen' = seen

(* The rows of a violation and those of a dependency are swept too.         *)
RowsSwept(M) ==
    /\ tagged' = {M[r] : r \in tagged} /\ flagged' = {M[r] : r \in flagged}
    /\ \A w \in violations' : \E v \in violations :
        /\ w \in ViolationRow /\ w.code = v.code /\ w.resource_id = M[v.resource_id]
        /\ w.nic_id = IF v.nic_id = None THEN None ELSE M[v.nic_id]
        /\ w.public_ip_id = IF v.public_ip_id = None THEN None ELSE M[v.public_ip_id]
    /\ \A c \in deps' : \E d \in deps :
        /\ c \in DepRow /\ c.type = d.type
        /\ c.source_resource_id = M[d.source_resource_id]
        /\ c.target_resource_id = M[d.target_resource_id]
        /\ c.source_subscription = d.source_subscription
        /\ c.target_subscription = d.target_subscription

(* Move gives a row of a group the group's new name.                        *)
Moves(Move, names) ==
    \A r \in Resource, g \in DOMAIN groups : Holds(groups[g], r) =>
        Move[r] = [r EXCEPT !.rg = names[g]]

(* A row lies in one group, whose new name its new id has; no two rows get  *)
(* one id.                                                                  *)
LEMMA RowsMove ==
  ASSUME Tenant \in Estate, Solid(Tenant), NEW names, Confirmed(names), NEW Move, Moves(Move, names)
  PROVE  LET M == [r \in ToSet(rows) |-> Move[r]] IN
         /\ M \in [ToSet(rows) -> Resource]
         /\ \A r, q \in ToSet(rows) : M[r] = M[q] => r = q
         /\ \A r \in ToSet(rows) : M[r].type = r.type /\ M[r].sub = r.sub
         /\ \A r \in ToSet(rows), g \in DOMAIN groups :
             Holds(groups[g], r) <=> groups[g].sub = M[r].sub /\ names[g] = M[r].rg
<1> DEFINE M == [r \in ToSet(rows) |-> Move[r]]
<1>1. /\ groups \in Seq(Group) /\ GroupsApart(groups) /\ ToSet(rows) \subseteq Resource
      /\ \A r \in ToSet(rows) : \E g \in DOMAIN groups : Holds(groups[g], r)
  <2>1. Tenant.groups = groups /\ Tenant.rows = rows
    BY DEF Tenant
  <2>2. \A r \in ToSet(rows) : \E G \in ToSet(groups) : Holds(G, r)
    BY <2>1 DEF Solid
  <2>3. groups \in Seq(Group) /\ GroupsApart(groups) /\ ToSet(rows) \subseteq Resource
    BY <2>1, Elements DEF Estate, Solid
  <2>4. \A G \in ToSet(groups) : \E g \in DOMAIN groups : groups[g] = G
    BY DEF ToSet
  <2> QED
    BY <2>2, <2>3, <2>4
<1>2. /\ names \in [DOMAIN groups -> Name]
      /\ \A g, h \in DOMAIN groups : groups[g].sub = groups[h].sub /\ names[g] = names[h] => g = h
      /\ \A g, h \in DOMAIN groups : groups[g].sub = groups[h].sub /\ groups[g].name = groups[h].name => g = h
  BY <1>1 DEF Confirmed, GroupsApart
<1>3. ASSUME NEW r \in ToSet(rows), NEW g \in DOMAIN groups, Holds(groups[g], r)
      PROVE  /\ M[r] = [r EXCEPT !.rg = names[g]] /\ M[r] \in Resource /\ M[r].rg = names[g]
             /\ M[r].type = r.type /\ M[r].sub = r.sub /\ M[r].number = r.number
             /\ r.sub = groups[g].sub /\ r.rg = groups[g].name
             /\ r = [sub |-> r.sub, rg |-> r.rg, type |-> r.type, number |-> r.number]
  <2>1. M[r] = [r EXCEPT !.rg = names[g]] /\ r \in Resource /\ names[g] \in Name
    BY <1>1, <1>2, <1>3 DEF Moves
  <2> HIDE DEF M
  <2> QED
    BY <1>3, <2>1 DEF Resource, Holds
<1> HIDE DEF M
<1>4. ASSUME NEW r \in ToSet(rows), NEW q \in ToSet(rows), M[r] = M[q] PROVE r = q
  <2>1. PICK g \in DOMAIN groups : Holds(groups[g], r)
    BY <1>1
  <2>2. PICK h \in DOMAIN groups : Holds(groups[h], q)
    BY <1>1
  <2>3. /\ M[r].rg = names[g] /\ M[r].sub = r.sub /\ r.sub = groups[g].sub /\ r.rg = groups[g].name
        /\ M[r].type = r.type /\ M[r].number = r.number
        /\ r = [sub |-> r.sub, rg |-> r.rg, type |-> r.type, number |-> r.number]
    BY <1>3, <2>1
  <2>4. /\ M[q].rg = names[h] /\ M[q].sub = q.sub /\ q.sub = groups[h].sub /\ q.rg = groups[h].name
        /\ M[q].type = q.type /\ M[q].number = q.number
        /\ q = [sub |-> q.sub, rg |-> q.rg, type |-> q.type, number |-> q.number]
    BY <1>3, <2>2
  <2>5. g = h
    BY <1>2, <1>4, <2>3, <2>4
  <2> QED
    BY <1>4, <2>3, <2>4, <2>5
<1>5. M \in [ToSet(rows) -> Resource]
  <2>1. \A r \in ToSet(rows) : M[r] \in Resource
    BY <1>1, <1>3
  <2>2. DOMAIN M = ToSet(rows) /\ M = [r \in ToSet(rows) |-> M[r]]
    BY DEF M
  <2> QED
    BY <2>1, <2>2
<1>6. ASSUME NEW r \in ToSet(rows), NEW g \in DOMAIN groups
      PROVE  Holds(groups[g], r) <=> groups[g].sub = M[r].sub /\ names[g] = M[r].rg
  <2>1. PICK h \in DOMAIN groups : Holds(groups[h], r)
    BY <1>1
  <2>2. M[r].rg = names[h] /\ M[r].sub = groups[h].sub /\ r.sub = groups[h].sub /\ r.rg = groups[h].name
    BY <1>3, <2>1
  <2> QED
    BY <1>2, <2>2 DEF Holds
<1>7. \A r \in ToSet(rows) : M[r].type = r.type /\ M[r].sub = r.sub
  BY <1>1, <1>3
<1> QED
  BY <1>4, <1>5, <1>6, <1>7 DEF M

(* The pass is such a sweep. *)
LEMMA SweepDone ==
  ASSUME Tenant \in Estate, Sound(Tenant, {T_PIP}), (tagged \cup flagged) \subseteq ToSet(rows),
         ViolationsTrue, DepsTrue, ConfirmAndRename
  PROVE  \E names, M : Swept(names, M) /\ RowsSwept(M)
<1> DEFINE names == ConfirmedNames
           gs(sub, rg) == {g \in DOMAIN groups : groups[g].sub = sub /\ groups[g].name = rg}
           moved(sub, rg) == IF gs(sub, rg) = {} THEN rg ELSE names[CHOOSE g \in gs(sub, rg) : TRUE]
           Moved(r) == [r EXCEPT !.rg = moved(r.sub, r.rg)]
           Move == [r \in Resource |-> Moved(r)]
           M == [r \in ToSet(rows) |-> Move[r]]
           swept(v) == [v EXCEPT !.resource_id = Moved(@),
                                 !.nic_id = IF @ = None THEN @ ELSE Moved(@),
                                 !.public_ip_id = IF @ = None THEN @ ELSE Moved(@)]
           linked(d) == [d EXCEPT !.source_resource_id = Moved(@),
                                  !.target_resource_id = Moved(@)]
<1>1. /\ groups \in Seq(Group) /\ rows \in Seq(Resource) /\ ref \in SUBSET Edge
      /\ GroupsApart(groups) /\ Solid(Tenant) /\ Labelled(Tenant)
      /\ \A e \in ref : e.src \in ToSet(rows) /\ e.dst \in ToSet(rows)
      /\ ToSet(rows) \subseteq Resource
  <2>1. Tenant.groups = groups /\ Tenant.rows = rows /\ Tenant.ref = ref
    BY DEF Tenant
  <2> QED
    BY <2>1, Elements DEF Estate, Sound, Solid
<1>2. /\ groups' = [g \in DOMAIN groups |-> [groups[g] EXCEPT !.name = names[g]]]
      /\ rows' = [k \in DOMAIN rows |-> Moved(rows[k])]
      /\ ref' = {[src |-> Moved(e.src), via |-> e.via, dst |-> Moved(e.dst)] : e \in ref}
      /\ tagged' = {Moved(r) : r \in tagged} /\ flagged' = {Moved(r) : r \in flagged}
      /\ deps' = {linked(d) : d \in deps}
      /\ seen' = seen
  BY DEF ConfirmAndRename
<1>3. violations' = {swept(v) : v \in violations}
  BY DEF ConfirmAndRename, RewriteViolation
<1>4. Confirmed(names)
  BY <1>1, NamesConfirmed
<1> HIDE DEF names
<1>5. ASSUME NEW r \in Resource, NEW g \in DOMAIN groups, Holds(groups[g], r)
      PROVE  Move[r] = [r EXCEPT !.rg = names[g]]
  <2>1. gs(r.sub, r.rg) = {g}
    BY <1>1, <1>5 DEF GroupsApart, Holds
  <2>2. moved(r.sub, r.rg) = names[g]
    BY <2>1
  <2> HIDE DEF moved
  <2> QED
    BY <2>2
<1> HIDE DEF moved
<1>6. \A r \in ToSet(rows) : Moved(r) = M[r]
  BY <1>1
<1>7. /\ M \in [ToSet(rows) -> Resource]
      /\ \A r, q \in ToSet(rows) : M[r] = M[q] => r = q
      /\ \A r \in ToSet(rows) : M[r].type = r.type /\ M[r].sub = r.sub
      /\ \A r \in ToSet(rows), g \in DOMAIN groups :
          Holds(groups[g], r) <=> groups[g].sub = M[r].sub /\ names[g] = M[r].rg
  <2> HIDE DEF Move
  <2>1. Moves(Move, names)
    BY <1>5 DEF Moves
  <2> QED
    BY <1>1, <1>4, <2>1, RowsMove
<1> HIDE DEF M, Moved
<1>8. rows' = [k \in DOMAIN rows |-> M[rows[k]]]
  <2>1. \A k \in DOMAIN rows : rows[k] \in ToSet(rows)
    BY <1>1 DEF ToSet
  <2> QED
    BY <1>2, <1>6, <2>1
<1>9. ref' = {[src |-> M[e.src], via |-> e.via, dst |-> M[e.dst]] : e \in ref}
  BY <1>1, <1>2, <1>6
<1>10. tagged' = {M[r] : r \in tagged} /\ flagged' = {M[r] : r \in flagged}
  BY <1>2, <1>6
<1>11. ASSUME NEW w \in violations'
       PROVE  \E v \in violations :
                /\ w \in ViolationRow /\ w.code = v.code /\ w.resource_id = M[v.resource_id]
                /\ w.nic_id = IF v.nic_id = None THEN None ELSE M[v.nic_id]
                /\ w.public_ip_id = IF v.public_ip_id = None THEN None ELSE M[v.public_ip_id]
  <2>1. PICK v \in violations : w = swept(v)
    BY <1>3, <1>11
  <2>2. /\ v \in ViolationRow /\ v.resource_id \in ToSet(rows)
        /\ v.nic_id \in ToSet(rows) \cup {None} /\ v.public_ip_id \in ToSet(rows) \cup {None}
    BY DEF ViolationsTrue
  <2> DEFINE nic == IF v.nic_id = None THEN None ELSE M[v.nic_id]
             pip == IF v.public_ip_id = None THEN None ELSE M[v.public_ip_id]
  <2>3. w = [v EXCEPT !.resource_id = M[v.resource_id], !.nic_id = nic, !.public_ip_id = pip]
    BY <1>6, <2>1, <2>2
  <2>4. M[v.resource_id] \in Resource /\ nic \in Resource \cup {None} /\ pip \in Resource \cup {None}
    BY <1>7, <2>2
  <2> HIDE DEF nic, pip
  <2>5. /\ w \in ViolationRow /\ w.code = v.code /\ w.resource_id = M[v.resource_id]
        /\ w.nic_id = nic /\ w.public_ip_id = pip
    BY <2>2, <2>3, <2>4 DEF ViolationRow
  <2> QED
    BY <2>5 DEF nic, pip
<1>12. ASSUME NEW c \in deps'
       PROVE  \E d \in deps :
                /\ c \in DepRow /\ c.type = d.type
                /\ c.source_resource_id = M[d.source_resource_id]
                /\ c.target_resource_id = M[d.target_resource_id]
                /\ c.source_subscription = d.source_subscription
                /\ c.target_subscription = d.target_subscription
  <2>1. PICK d \in deps : c = linked(d)
    BY <1>2, <1>12
  <2>2. d \in DepRow /\ d.source_resource_id \in ToSet(rows) /\ d.target_resource_id \in ToSet(rows)
    BY DEF DepsTrue, Crossing
  <2>3. c = [d EXCEPT !.source_resource_id = M[d.source_resource_id],
                      !.target_resource_id = M[d.target_resource_id]]
    BY <1>6, <2>1, <2>2
  <2>4. M[d.source_resource_id] \in Resource /\ M[d.target_resource_id] \in Resource
    BY <1>7, <2>2
  <2> QED
    BY <2>2, <2>3, <2>4 DEF DepRow
<1>13. Swept(names, M)
  BY <1>2, <1>4, <1>7, <1>8, <1>9 DEF Swept
<1>14. RowsSwept(M)
  BY <1>10, <1>11, <1>12 DEF RowsSwept
<1> QED
  BY <1>13, <1>14

(* A group bears the token of its template only if its rows bear it out.    *)
Honest(T) ==
    \A G \in ToSet(T.groups) : G.name.token = confirm_token(label_map[G.template], Types(T, G))

(* The sweep leaves unique ids, resolved references and honest names. *)
LEMMA SweptSolid ==
  ASSUME Tenant \in Estate, Solid(Tenant), NEW names, NEW M, Swept(names, M)
  PROVE  Tenant' \in Estate /\ Solid(Tenant') /\ Honest(Tenant')
<1> DEFINE T == Tenant'
<1>1. /\ groups \in Seq(Group) /\ rows \in Seq(Resource) /\ ref \in SUBSET Edge
      /\ seen \in SUBSET Resource /\ IsInjective(rows)
      /\ \A r \in ToSet(rows) : \E g \in DOMAIN groups : Holds(groups[g], r)
      /\ \A e \in ref : e.src \in ToSet(rows) /\ e.dst \in ToSet(rows)
      /\ \A k \in DOMAIN rows : rows[k] \in ToSet(rows)
      /\ \A r \in ToSet(rows) : \E k \in DOMAIN rows : rows[k] = r
  <2>1. Tenant.groups = groups /\ Tenant.rows = rows /\ Tenant.ref = ref /\ Tenant.seen = seen
    BY DEF Tenant
  <2>2. /\ groups \in Seq(Group) /\ rows \in Seq(Resource) /\ ref \in SUBSET Edge
        /\ seen \in SUBSET Resource
    BY <2>1 DEF Estate
  <2>3. /\ IsInjective(rows) /\ \A r \in ToSet(rows) : \E G \in ToSet(groups) : Holds(G, r)
        /\ \A e \in ref : e.src \in ToSet(rows) /\ e.dst \in ToSet(rows)
    BY <2>1 DEF Solid
  <2>4. /\ \A G \in ToSet(groups) : \E g \in DOMAIN groups : groups[g] = G
        /\ \A k \in DOMAIN rows : rows[k] \in ToSet(rows)
        /\ \A r \in ToSet(rows) : \E k \in DOMAIN rows : rows[k] = r
    BY DEF ToSet
  <2> QED
    BY <2>2, <2>3, <2>4
<1>2. /\ names \in [DOMAIN groups -> Name]
      /\ \A g, h \in DOMAIN groups : groups[g].sub = groups[h].sub /\ names[g] = names[h] => g = h
      /\ \A g \in DOMAIN groups :
          names[g].token = confirm_token(label_map[groups[g].template], Types(Tenant, groups[g]))
  BY DEF Swept, Confirmed
<1>3. /\ M \in [ToSet(rows) -> Resource]
      /\ \A r, q \in ToSet(rows) : M[r] = M[q] => r = q
      /\ \A r \in ToSet(rows) : M[r].type = r.type /\ M[r].sub = r.sub
      /\ \A r \in ToSet(rows), g \in DOMAIN groups :
          Holds(groups[g], r) <=> groups[g].sub = M[r].sub /\ names[g] = M[r].rg
  BY DEF Swept
<1>4. /\ T.groups = [g \in DOMAIN groups |-> [groups[g] EXCEPT !.name = names[g]]]
      /\ T.rows = [k \in DOMAIN rows |-> M[rows[k]]]
      /\ T.ref = {[src |-> M[e.src], via |-> e.via, dst |-> M[e.dst]] : e \in ref}
      /\ T.seen = seen
      /\ T = [groups |-> T.groups, rows |-> T.rows, ref |-> T.ref, seen |-> T.seen]
  BY DEF Swept, Tenant
<1> HIDE DEF T
<1>5. ASSUME NEW g \in DOMAIN groups
      PROVE  /\ T.groups[g] \in Group /\ T.groups[g].name = names[g]
             /\ T.groups[g].sub = groups[g].sub /\ T.groups[g].template = groups[g].template
  <2>1. T.groups[g] = [groups[g] EXCEPT !.name = names[g]] /\ groups[g] \in Group /\ names[g] \in Name
    BY <1>1, <1>2, <1>4
  <2> QED
    BY <2>1 DEF Group
<1>6. T.groups \in Seq(Group) /\ DOMAIN T.groups = DOMAIN groups
  <2>1. DOMAIN T.groups = DOMAIN groups /\ T.groups = [g \in DOMAIN groups |-> T.groups[g]]
    BY <1>4
  <2>2. T.groups \in [DOMAIN groups -> Group]
    BY <1>5, <2>1
  <2>3. DOMAIN groups = 1..Len(groups) /\ Len(groups) \in Nat
    BY <1>1
  <2> QED
    BY <2>1, <2>2, <2>3
<1>7. T.rows \in Seq(Resource) /\ DOMAIN T.rows = DOMAIN rows
  <2>1. /\ DOMAIN T.rows = DOMAIN rows /\ T.rows = [k \in DOMAIN rows |-> T.rows[k]]
        /\ \A k \in DOMAIN rows : T.rows[k] = M[rows[k]]
    BY <1>4
  <2>2. \A k \in DOMAIN rows : T.rows[k] \in Resource
    BY <1>1, <1>3, <2>1
  <2>3. T.rows \in [DOMAIN rows -> Resource]
    BY <2>1, <2>2
  <2>4. DOMAIN rows = 1..Len(rows) /\ Len(rows) \in Nat
    BY <1>1
  <2> QED
    BY <2>1, <2>3, <2>4
<1>8. ToSet(T.rows) = {M[r] : r \in ToSet(rows)}
  <2>1. DOMAIN T.rows = DOMAIN rows /\ \A k \in DOMAIN rows : T.rows[k] = M[rows[k]]
    BY <1>4
  <2>2. ToSet(T.rows) = {T.rows[k] : k \in DOMAIN T.rows} /\ ToSet(rows) = {rows[k] : k \in DOMAIN rows}
    BY DEF ToSet
  <2>3. \A x : x \in ToSet(T.rows) <=> \E k \in DOMAIN rows : x = M[rows[k]]
    BY <2>1, <2>2
  <2>4. \A x : x \in {M[r] : r \in ToSet(rows)} <=> \E k \in DOMAIN rows : x = M[rows[k]]
    BY <2>2
  <2> QED
    BY ONLY <2>3, <2>4
<1>9. T.ref \in SUBSET Edge
  <2>1. \A e \in ref : [src |-> M[e.src], via |-> e.via, dst |-> M[e.dst]] \in Edge
    BY <1>1, <1>3 DEF Edge
  <2> QED
    BY <1>4, <2>1
<1>10. T \in Estate
  BY <1>1, <1>4, <1>6, <1>7, <1>9 DEF Estate
<1>11. GroupsApart(T.groups)
  BY <1>2, <1>5, <1>6 DEF GroupsApart
<1>12. IsInjective(T.rows)
  <2>1. \A k \in DOMAIN rows : T.rows[k] = M[rows[k]]
    BY <1>4
  <2> QED
    BY <1>1, <1>3, <1>7, <2>1 DEF IsInjective
<1>13. ASSUME NEW q \in ToSet(T.rows) PROVE \E G \in ToSet(T.groups) : Holds(G, q)
  <2>1. PICK r \in ToSet(rows) : q = M[r]
    BY <1>8
  <2>2. PICK g \in DOMAIN groups : Holds(groups[g], r)
    BY <1>1
  <2>3. Holds(T.groups[g], q)
    BY <1>3, <1>5, <2>1, <2>2 DEF Holds
  <2> QED
    BY <1>6, <2>3 DEF ToSet
<1>14. ASSUME NEW f \in T.ref PROVE f.src \in ToSet(T.rows) /\ f.dst \in ToSet(T.rows)
  <2>1. PICK e \in ref : f.src = M[e.src] /\ f.dst = M[e.dst]
    BY <1>4
  <2> QED
    BY <1>1, <1>8, <2>1
<1>15. ASSUME NEW G \in ToSet(T.groups)
       PROVE  G.name.token = confirm_token(label_map[G.template], Types(T, G))
  <2>1. PICK g \in DOMAIN groups : G = T.groups[g]
    BY <1>6 DEF ToSet
  <2>2. G.name = names[g] /\ G.sub = groups[g].sub /\ G.template = groups[g].template
    BY <1>5, <2>1
  <2>3. \A r \in ToSet(rows) : Holds(G, M[r]) <=> Holds(groups[g], r)
    BY <1>3, <2>2 DEF Holds
  <2>4. \A type : type \in Types(T, G) <=> type \in Types(Tenant, groups[g])
    <3>1. Tenant.rows = rows
      BY DEF Tenant
    <3>2. \A type : type \in Types(T, G) <=> \E q \in ToSet(T.rows) : Holds(G, q) /\ q.type = type
      BY DEF Types, RowsIn
    <3>3. \A type : type \in Types(Tenant, groups[g]) <=>
              \E r \in ToSet(rows) : Holds(groups[g], r) /\ r.type = type
      BY <3>1 DEF Types, RowsIn
    <3> QED
      BY <1>3, <1>8, <2>3, <3>2, <3>3
  <2>5. Types(T, G) = Types(Tenant, groups[g])
    <3> DEFINE A == Types(T, G)
               B == Types(Tenant, groups[g])
    <3>1. \A type : type \in A <=> type \in B
      BY <2>4
    <3> HIDE DEF A, B
    <3>2. A = B
      BY <3>1
    <3> QED
      BY <3>2 DEF A, B
  <2> QED
    BY <1>2, <2>2, <2>5
<1> QED
  BY <1>10, <1>11, <1>12, <1>13, <1>14, <1>15 DEF Solid, Honest, T

(* What the rows of the other tables say stays true. *)
LEMMA SweptTrue ==
  ASSUME Tenant \in Estate, (tagged \cup flagged) \subseteq ToSet(rows), ViolationsTrue, DepsTrue,
         NEW names, NEW M, Swept(names, M), RowsSwept(M)
  PROVE  /\ (tagged \cup flagged)' \subseteq ToSet(rows)' /\ ViolationsTrue' /\ DepsTrue'
<1>1. /\ M \in [ToSet(rows) -> Resource]
      /\ \A r, q \in ToSet(rows) : M[r] = M[q] => r = q
      /\ \A r \in ToSet(rows) : M[r].type = r.type /\ M[r].sub = r.sub
      /\ rows' = [k \in DOMAIN rows |-> M[rows[k]]]
      /\ ref' = {[src |-> M[e.src], via |-> e.via, dst |-> M[e.dst]] : e \in ref}
  BY DEF Swept
<1>2. /\ tagged' = {M[r] : r \in tagged} /\ flagged' = {M[r] : r \in flagged}
      /\ \A w \in violations' : \E v \in violations :
          /\ w \in ViolationRow /\ w.code = v.code /\ w.resource_id = M[v.resource_id]
          /\ w.nic_id = IF v.nic_id = None THEN None ELSE M[v.nic_id]
          /\ w.public_ip_id = IF v.public_ip_id = None THEN None ELSE M[v.public_ip_id]
      /\ \A c \in deps' : \E d \in deps :
          /\ c \in DepRow /\ c.type = d.type
          /\ c.source_resource_id = M[d.source_resource_id]
          /\ c.target_resource_id = M[d.target_resource_id]
          /\ c.source_subscription = d.source_subscription
          /\ c.target_subscription = d.target_subscription
  BY DEF RowsSwept
<1>3. \A r \in ToSet(rows) : M[r] \in ToSet(rows') /\ M[r] \in Resource
  <2>1. \A r \in ToSet(rows) : \E k \in DOMAIN rows : rows[k] = r
    BY DEF ToSet
  <2>2. rows \in Seq(Resource)
    BY DEF Tenant, Estate
  <2>3. DOMAIN rows' = DOMAIN rows /\ \A k \in DOMAIN rows : rows'[k] = M[rows[k]]
    BY <1>1
  <2>4. \A k \in DOMAIN rows : rows'[k] \in ToSet(rows')
    BY <2>3 DEF ToSet
  <2> QED
    BY <1>1, <2>1, <2>3, <2>4
<1>4. (tagged \cup flagged)' \subseteq ToSet(rows)'
  BY <1>2, <1>3
<1>5. ASSUME NEW w \in violations'
      PROVE  /\ w \in ViolationRow /\ w.resource_id \in ToSet(rows')
             /\ {w.nic_id, w.public_ip_id} \subseteq ToSet(rows') \cup {None}
             /\ w.code = "TAG_MISSING_ENV" => w.resource_id \notin tagged'
             /\ w.code = "VM_NO_BACKUP" => w.resource_id \in flagged'
             /\ w.code = "VM_PUBLIC_IP" => w.nic_id # None /\ Exposed(w, ref')
  <2>1. PICK v \in violations :
          /\ w \in ViolationRow /\ w.code = v.code /\ w.resource_id = M[v.resource_id]
          /\ w.nic_id = IF v.nic_id = None THEN None ELSE M[v.nic_id]
          /\ w.public_ip_id = IF v.public_ip_id = None THEN None ELSE M[v.public_ip_id]
    BY <1>2
  <2>2. /\ v.resource_id \in ToSet(rows)
        /\ v.nic_id \in ToSet(rows) \cup {None} /\ v.public_ip_id \in ToSet(rows) \cup {None}
        /\ v.code = "TAG_MISSING_ENV" => v.resource_id \notin tagged
        /\ v.code = "VM_NO_BACKUP" => v.resource_id \in flagged
        /\ v.code = "VM_PUBLIC_IP" => v.nic_id # None /\ Exposed(v, ref)
    BY DEF ViolationsTrue
  <2>3. w.resource_id \in ToSet(rows') /\ {w.nic_id, w.public_ip_id} \subseteq ToSet(rows') \cup {None}
    BY <1>3, <2>1, <2>2
  <2>4. w.code = "TAG_MISSING_ENV" => w.resource_id \notin tagged'
    BY <1>1, <1>2, <2>1, <2>2
  <2>5. w.code = "VM_NO_BACKUP" => w.resource_id \in flagged'
    BY <1>2, <2>1, <2>2
  <2>6. ASSUME w.code = "VM_PUBLIC_IP" PROVE w.nic_id # None /\ Exposed(w, ref')
    <3>1. v.nic_id # None /\ v.nic_id \in ToSet(rows) /\ Exposed(v, ref)
      BY <2>1, <2>2, <2>6
    <3>2. w.nic_id = M[v.nic_id] /\ w.nic_id \in Resource
      BY <1>3, <2>1, <3>1
    <3>3. w.nic_id # None
      BY <3>2, PipelineAssumption
    <3>4. [src |-> v.resource_id, via |-> "nic", dst |-> v.nic_id] \in ref
      BY <3>1 DEF Exposed
    <3>5. \A e \in ref : [src |-> M[e.src], via |-> e.via, dst |-> M[e.dst]] \in ref'
      BY <1>1
    <3>6. [src |-> w.resource_id, via |-> "nic", dst |-> w.nic_id] \in ref'
      BY <2>1, <3>2, <3>4, <3>5
    <3>7. PICK e \in ref : e.src = v.nic_id /\ e.via = "pip"
      BY <3>1 DEF Exposed
    <3>8. \E f \in ref' : f.src = w.nic_id /\ f.via = "pip"
      BY <3>2, <3>5, <3>7
    <3> QED
      BY <3>3, <3>6, <3>8 DEF Exposed
  <2> QED
    BY <2>1, <2>3, <2>4, <2>5, <2>6
<1>6. PICK H \in SUBSET Subscriptions : \A d \in deps : Crossing(d, ToSet(rows), H)
  BY DEF DepsTrue
<1>7. ASSUME NEW c \in deps' PROVE c \in DepRow /\ Crossing(c, ToSet(rows'), H)
  <2>1. PICK d \in deps :
          /\ c \in DepRow /\ c.type = d.type
          /\ c.source_resource_id = M[d.source_resource_id]
          /\ c.target_resource_id = M[d.target_resource_id]
          /\ c.source_subscription = d.source_subscription
          /\ c.target_subscription = d.target_subscription
    BY <1>2
  <2>2. Crossing(d, ToSet(rows), H)
    BY <1>6
  <2> QED
    BY <1>1, <1>3, <2>1, <2>2 DEF Crossing
<1> QED
  BY <1>4, <1>5, <1>6, <1>7 DEF ViolationsTrue, DepsTrue

-----------------------------------------------------------------------------
(* The inductive invariant.                                                 *)

(* The pass that ends hands over to the next one. *)
LEMMA NextPass ==
  ASSUME EndPass
  PROVE  /\ phase = "calibrate" => phase' = "tags"
         /\ phase = "tags" => phase' = "violations"
         /\ phase = "violations" => phase' = "cross_sub"
         /\ phase = "cross_sub" => phase' = "confirm"
         /\ phase = "confirm" => phase' = "cost"
         /\ phase = "cost" => phase' = "identity"
         /\ phase = "identity" => phase' = "done"
<1> DEFINE k == CHOOSE k \in DOMAIN PassOrder : PassOrder[k] = phase
<1>1. phase' = PassOrder[k + 1]
  BY DEF EndPass
<1>2. ASSUME NEW j \in 1..8, PassOrder[j] = phase PROVE k = j
  <2>1. DOMAIN PassOrder = 1..8
    BY DEF PassOrder
  <2>2. k \in 1..8 /\ PassOrder[k] = phase
    BY <1>2, <2>1
  <2> HIDE DEF k
  <2> QED
    BY <1>2, <2>2 DEF PassOrder
<1>3. /\ PassOrder[1] = "calibrate" /\ PassOrder[2] = "tags" /\ PassOrder[3] = "violations"
      /\ PassOrder[4] = "cross_sub" /\ PassOrder[5] = "confirm" /\ PassOrder[6] = "cost"
      /\ PassOrder[7] = "identity" /\ PassOrder[8] = "done"
  BY DEF PassOrder
<1> HIDE DEF k
<1> QED
  BY <1>1, <1>2, <1>3

Passes == {"calibrate", "tags", "violations", "cross_sub", "confirm", "cost", "identity", "done"}

(* The tenant before each pass: its group names are the labels until they   *)
(* are confirmed, and generate_resource knows every id until inject mints   *)
(* addresses by hand.                                                       *)
TenantSound ==
    /\ phase \in {"calibrate", "tags", "violations"} => Sound(Tenant, {}) /\ Wired(Tenant)
    /\ phase \in {"cross_sub", "confirm"} => Sound(Tenant, {T_PIP})
    /\ phase \in {"cost", "identity", "done"} => Solid(Tenant) /\ Honest(Tenant)

(* The tables: empty before the pass that fills them, and then about the    *)
(* rows of the tenant.                                                      *)
TablesSound ==
    /\ phase \in {"pool", "calibrate", "tags"} => tagged = {}
    /\ phase \in {"pool", "calibrate", "tags", "violations"} => flagged = {} /\ violations = {}
    /\ phase \in Passes \ {"confirm", "cost", "identity", "done"} => deps = {}
    /\ phase \in Passes \ {"identity", "done"} => cost = {}
    /\ phase \in Passes \ {"done"} => scopes = {}
    /\ phase = "pool" => deps = {} /\ cost = {} /\ scopes = {}
    /\ tagged \cup flagged \cup cost \subseteq ToSet(rows)
    /\ ViolationsTrue /\ DepsTrue
    /\ scopes \subseteq _scope_pools(Tenant)

PipelineInv ==
    /\ PoolInv /\ (status = "built" => Len(merged) = N)
    /\ phase \in {"pool"} \cup Passes
    /\ round \in 0..Rounds /\ before \in Nat
    /\ phase = "pool" => groups = <<>> /\ rows = <<>> /\ ref = {} /\ seen = {}
    /\ Tenant \in Estate
    /\ TenantSound /\ TablesSound

(* The pool's part when a pass leaves the pool alone. *)
LEMMA PoolKept ==
  ASSUME PoolInv, status = "built" => Len(merged) = N, UNCHANGED poolVars
  PROVE  PoolInv' /\ (status' = "built" => Len(merged') = N)
<1>1. PoolInv'
  BY StepRefines
<1> QED
  BY <1>1 DEF poolVars

(* The tables while nothing is in them. *)
LEMMA TablesEmpty ==
  ASSUME tagged' = {}, flagged' = {}, violations' = {}, deps' = {}, cost' = {}, scopes' = {}
  PROVE  TablesSound'
BY DEF TablesSound, ViolationsTrue, DepsTrue

LEMMA InitSound == Init => PipelineInv
<1> SUFFICES ASSUME Init PROVE PipelineInv
  OBVIOUS
<1>1. /\ phase = "pool" /\ groups = <<>> /\ rows = <<>> /\ ref = {} /\ seen = {}
      /\ round = 0 /\ before = 0 /\ PoolInit
  BY DEF Init
<1>2. tagged = {} /\ flagged = {} /\ violations = {} /\ deps = {} /\ cost = {} /\ scopes = {}
  BY DEF Init
<1>3. PoolInv /\ status = "building"
  BY <1>1, InitInvariant DEF PoolInit
<1>4. TablesSound
  BY <1>2 DEF TablesSound, ViolationsTrue, DepsTrue
<1>5. Tenant \in Estate
  BY <1>1 DEF Tenant, Estate
<1>6. TenantSound
  BY <1>1 DEF TenantSound
<1>7. round \in 0..Rounds /\ before \in Nat
  BY <1>1, PipelineAssumption
<1> QED
  BY <1>1, <1>3, <1>4, <1>5, <1>6, <1>7 DEF PipelineInv

LEMMA PoolSteps == PipelineInv /\ Pooled(PoolNext) => PipelineInv'
<1> SUFFICES ASSUME PipelineInv, Pooled(PoolNext) PROVE PipelineInv'
  OBVIOUS
<1>1. phase = "pool" /\ PoolNext /\ UNCHANGED <<phase, tenant, calibration, tables>>
  BY DEF Pooled
<1>2. PoolInv'
  BY <1>1, StepRefines DEF PipelineInv
<1>3. status' = "built" => Len(merged') = N
  BY <1>1 DEF PoolNext, PoolStep, BuildInProcess, Read, Merge, WorkerStep, Claim, _pool_worker, Deliver, Crash
<1>4. Tenant' = Tenant
  BY <1>1 DEF Tenant, tenant
<1>5. TablesSound'
  BY <1>1, TablesEmpty DEF PipelineInv, TablesSound, tables
<1>6. TenantSound'
  BY <1>1 DEF TenantSound
<1> QED
  BY <1>1, <1>2, <1>3, <1>4, <1>5, <1>6 DEF PipelineInv, tenant, calibration

LEMMA MergeStepSound == PipelineInv /\ MergeSubscriptions => PipelineInv'
<1> SUFFICES ASSUME PipelineInv, MergeSubscriptions PROVE PipelineInv'
  OBVIOUS
<1>1. phase = "pool" /\ status = "built" /\ UNCHANGED <<poolVars, calibration, tables>>
      /\ phase' = "calibrate"
  BY DEF MergeSubscriptions, PassOrder
<1>2. PoolInv' /\ (status' = "built" => Len(merged') = N)
  BY <1>1, PoolKept DEF PipelineInv
<1>3. Tenant' \in Estate /\ Sound(Tenant', {}) /\ Wired(Tenant')
  BY <1>1, Merged DEF PipelineInv
<1>4. TablesSound'
  BY <1>1, TablesEmpty DEF PipelineInv, TablesSound, tables
<1>5. TenantSound'
  BY <1>1, <1>3 DEF TenantSound
<1> QED
  BY <1>1, <1>2, <1>3, <1>4, <1>5 DEF PipelineInv, Passes, calibration

(* The passes up to tags leave a sound tenant and empty tables. *)
LEMMA CalibrateSteps ==
  PipelineInv /\ (TrimRound \/ TrimPass \/ PadRound \/ Calibrated) => PipelineInv'
<1> SUFFICES ASSUME PipelineInv, TrimRound \/ TrimPass \/ PadRound \/ Calibrated PROVE PipelineInv'
  OBVIOUS
<1>1. phase = "calibrate" /\ UNCHANGED <<poolVars, tables>> /\ (EndPass \/ phase' = phase)
  BY DEF TrimRound, TrimPass, PadRound, Calibrated
<1>2. phase' \in {"calibrate", "tags"}
  BY <1>1, NextPass
<1>3. PoolInv' /\ (status' = "built" => Len(merged') = N)
  BY <1>1, PoolKept DEF PipelineInv
<1>4. TablesSound'
  BY <1>1, TablesEmpty DEF PipelineInv, TablesSound, Passes, tables
<1>5. /\ Tenant \in Estate /\ Sound(Tenant, {}) /\ Wired(Tenant)
      /\ round \in 0..Rounds /\ before \in Nat /\ _total(Tenant) \in Nat /\ Rounds \in Nat
  <2>1. Tenant \in Estate /\ Sound(Tenant, {}) /\ Wired(Tenant)
    BY <1>1 DEF PipelineInv, TenantSound
  <2>2. _total(Tenant) \in Nat
    BY <2>1 DEF _total, Estate
  <2> QED
    BY <2>1, <2>2, PipelineAssumption DEF PipelineInv
<1>6. \A T : T \in Estate /\ IsTenant(T) => Tenant' = T
  <2> TAKE T
  <2>1. T \in Estate => T = [groups |-> T.groups, rows |-> T.rows, ref |-> T.ref, seen |-> T.seen]
    BY DEF Estate
  <2> QED
    BY <2>1 DEF Tenant, IsTenant
<1>7. /\ Tenant' \in Estate /\ Sound(Tenant', {}) /\ Wired(Tenant')
      /\ round' \in 0..Rounds /\ before' \in Nat
  <2>1. CASE TrimRound
    <3>1. Tenant' = Tenant /\ round' = round + 1 /\ round < Rounds /\ before' = _total(Tenant)
      BY <2>1 DEF TrimRound, tenant, Tenant
    <3> QED
      BY <1>5, <3>1
  <2>2. CASE TrimPass
    <3> DEFINE T == _trim(Tenant)
    <3>1. T \in Trimmed(Tenant)
      BY <1>5, PassTrimmed
    <3>2. IsTenant(T) /\ before' \in {0, before} /\ round' = round
      BY <2>2 DEF TrimPass
    <3> HIDE DEF T
    <3>3. T \in Estate /\ Sound(T, {}) /\ Wired(T)
      BY <3>1 DEF Trimmed
    <3> QED
      BY <1>5, <1>6, <3>2, <3>3
  <2>3. CASE PadRound
    <3> DEFINE m == Max({1, AimLow - _total(Tenant)})
    <3>1. PICK T \in _pad_batch(Tenant, m) : IsTenant(T)
      BY <2>3 DEF PadRound
    <3>2. round' = round + 1 /\ round < Rounds /\ before' = before
      BY <2>3 DEF PadRound
    <3>3. m \in Nat
      <4>1. AimLow \in Int
        BY PipelineAssumption DEF AimLow
      <4> DEFINE d == AimLow - _total(Tenant)
      <4>2. d \in Int
        BY <1>5, <4>1
      <4> HIDE DEF d
      <4>3. \E x \in {1, d} : \A y \in {1, d} : x >= y
        BY <4>2
      <4>4. Max({1, d}) \in {1, d} /\ \A y \in {1, d} : Max({1, d}) >= y
        BY <4>3 DEF Max
      <4>5. Max({1, d}) \in Nat
        BY <4>2, <4>4
      <4> QED
        BY <4>5 DEF d
    <3> HIDE DEF m
    <3>4. T \in Estate /\ Sound(T, {}) /\ Wired(T)
      BY <1>5, <3>1, <3>3, BatchPadded
    <3> QED
      BY <1>5, <1>6, <3>1, <3>2, <3>4
  <2>4. CASE Calibrated
    <3>1. Tenant' = Tenant /\ round' = round /\ before' = before
      BY <2>4 DEF Calibrated, tenant, calibration, Tenant
    <3> QED
      BY <1>5, <3>1
  <2> QED
    BY <2>1, <2>2, <2>3, <2>4
<1>8. TenantSound'
  BY <1>2, <1>7 DEF TenantSound
<1> QED
  BY <1>2, <1>3, <1>4, <1>7, <1>8 DEF PipelineInv, Passes

LEMMA TagsStep == PipelineInv /\ assign_tags => PipelineInv'
<1> SUFFICES ASSUME PipelineInv, assign_tags PROVE PipelineInv'
  OBVIOUS
<1>1. phase = "tags" /\ UNCHANGED <<poolVars, tenant, calibration>> /\ tagged' \subseteq ToSet(rows)
      /\ UNCHANGED <<flagged, violations, deps, cost, scopes>>
  BY DEF assign_tags
<1>2. phase' = "violations"
  BY <1>1, NextPass DEF assign_tags
<1>3. PoolInv' /\ (status' = "built" => Len(merged') = N)
  BY <1>1, PoolKept DEF PipelineInv
<1>4. Tenant' = Tenant /\ rows' = rows
  BY <1>1 DEF Tenant, tenant
<1>5. TenantSound'
  BY <1>1, <1>2, <1>4 DEF PipelineInv, TenantSound
<1>6. flagged = {} /\ violations = {} /\ deps = {} /\ cost = {} /\ scopes = {}
  BY <1>1 DEF PipelineInv, TablesSound, Passes
<1>7. TablesSound'
  BY <1>1, <1>2, <1>4, <1>6 DEF TablesSound, ViolationsTrue, DepsTrue
<1> QED
  BY <1>1, <1>2, <1>3, <1>4, <1>5, <1>7 DEF PipelineInv, Passes, calibration

LEMMA InjectStep == PipelineInv /\ inject => PipelineInv'
<1> SUFFICES ASSUME PipelineInv, inject PROVE PipelineInv'
  OBVIOUS
<1>1. phase = "violations" /\ UNCHANGED <<poolVars, groups, seen, calibration, deps, cost, scopes>>
  BY DEF inject
<1>2. phase' = "cross_sub"
  BY <1>1, NextPass DEF inject
<1>3. PoolInv' /\ (status' = "built" => Len(merged') = N)
  BY <1>1, PoolKept DEF PipelineInv
<1>4. /\ flagged = {} /\ deps = {} /\ cost = {} /\ scopes = {}
      /\ tagged \subseteq ToSet(rows) /\ Tenant \in Estate /\ Sound(Tenant, {}) /\ Wired(Tenant)
  BY <1>1 DEF PipelineInv, TablesSound, TenantSound, Passes
<1>5. /\ Tenant' \in Estate /\ Sound(Tenant', {T_PIP})
      /\ ViolationsTrue' /\ (tagged \cup flagged)' \subseteq ToSet(rows)'
  BY <1>4, Injected
<1>6. TenantSound'
  BY <1>2, <1>5 DEF TenantSound
<1>7. TablesSound'
  BY <1>1, <1>2, <1>4, <1>5 DEF TablesSound, DepsTrue
<1> QED
  BY <1>1, <1>2, <1>3, <1>5, <1>6, <1>7 DEF PipelineInv, Passes, calibration

LEMMA CrossSubStep == PipelineInv /\ CrossSub => PipelineInv'
<1> SUFFICES ASSUME PipelineInv, CrossSub PROVE PipelineInv'
  OBVIOUS
<1>1. /\ phase = "cross_sub" /\ UNCHANGED <<poolVars, calibration>>
      /\ UNCHANGED <<tagged, flagged, violations, cost, scopes>>
  BY DEF CrossSub
<1>2. /\ Tenant \in Estate /\ Sound(Tenant, {T_PIP}) /\ cost = {} /\ scopes = {}
      /\ ViolationsTrue /\ tagged \cup flagged \subseteq ToSet(rows)
  BY <1>1 DEF PipelineInv, TablesSound, TenantSound, Passes
<1>3. /\ Tenant' \in Estate /\ Sound(Tenant', {T_PIP})
      /\ ref' = ref /\ ToSet(rows) \subseteq ToSet(rows)' /\ DepsTrue' /\ EndPass
  BY <1>2, CrossSubLinked
<1>4. phase' = "confirm"
  BY <1>1, <1>3, NextPass
<1>5. PoolInv' /\ (status' = "built" => Len(merged') = N)
  BY <1>1, PoolKept DEF PipelineInv
<1>6. TenantSound'
  BY <1>3, <1>4 DEF TenantSound
<1>7. ViolationsTrue'
  BY <1>1, <1>2, <1>3 DEF ViolationsTrue
<1>8. TablesSound'
  BY <1>1, <1>2, <1>3, <1>4, <1>7 DEF TablesSound
<1> QED
  BY <1>1, <1>3, <1>4, <1>5, <1>6, <1>8 DEF PipelineInv, Passes, calibration

LEMMA ConfirmStep == PipelineInv /\ ConfirmAndRename => PipelineInv'
<1> SUFFICES ASSUME PipelineInv, ConfirmAndRename PROVE PipelineInv'
  OBVIOUS
<1>1. /\ phase = "confirm" /\ UNCHANGED <<poolVars, calibration, cost, scopes>> /\ EndPass
  BY DEF ConfirmAndRename
<1>2. /\ Tenant \in Estate /\ Sound(Tenant, {T_PIP}) /\ Solid(Tenant) /\ cost = {} /\ scopes = {}
      /\ ViolationsTrue /\ DepsTrue /\ tagged \cup flagged \subseteq ToSet(rows)
  BY <1>1 DEF PipelineInv, TablesSound, TenantSound, Sound, Passes
<1>3. phase' = "cost"
  BY <1>1, NextPass
<1>4. PoolInv' /\ (status' = "built" => Len(merged') = N)
  BY <1>1, PoolKept DEF PipelineInv
<1>5. PICK names, M : Swept(names, M) /\ RowsSwept(M)
  BY <1>2, SweepDone
<1>6. Tenant' \in Estate /\ Solid(Tenant') /\ Honest(Tenant')
  BY <1>2, <1>5, SweptSolid
<1>7. (tagged \cup flagged)' \subseteq ToSet(rows)' /\ ViolationsTrue' /\ DepsTrue'
  BY <1>2, <1>5, SweptTrue
<1>8. TenantSound'
  BY <1>3, <1>6 DEF TenantSound
<1>9. TablesSound'
  BY <1>1, <1>2, <1>3, <1>7 DEF TablesSound
<1> QED
  BY <1>1, <1>3, <1>4, <1>6, <1>8, <1>9 DEF PipelineInv, Passes, calibration

LEMMA LastSteps == PipelineInv /\ (inject_cost \/ assign_roles) => PipelineInv'
<1> SUFFICES ASSUME PipelineInv, inject_cost \/ assign_roles PROVE PipelineInv'
  OBVIOUS
<1>1. /\ UNCHANGED <<poolVars, tenant, calibration, tagged, flagged, violations, deps>> /\ EndPass
      /\ phase = "cost" \/ phase = "identity"
  BY DEF inject_cost, assign_roles
<1>2. phase' = IF phase = "cost" THEN "identity" ELSE "done"
  BY <1>1, NextPass
<1>3. PoolInv' /\ (status' = "built" => Len(merged') = N)
  BY <1>1, PoolKept DEF PipelineInv
<1>4. Tenant' = Tenant /\ rows' = rows /\ ref' = ref
  BY <1>1 DEF Tenant, tenant
<1>5. TenantSound'
  BY <1>1, <1>2, <1>4 DEF PipelineInv, TenantSound
<1>6. cost' \subseteq ToSet(rows)
  BY DEF inject_cost, assign_roles, PipelineInv, TablesSound
<1>7. scopes' \subseteq _scope_pools(Tenant) /\ (phase' = "identity" => scopes' = {})
  BY <1>1, <1>2 DEF inject_cost, assign_roles, PipelineInv, TablesSound, Passes
<1>8. ViolationsTrue' /\ DepsTrue'
  BY <1>1, <1>4 DEF PipelineInv, TablesSound, ViolationsTrue, DepsTrue
<1>9. (tagged \cup flagged) \subseteq ToSet(rows)
  BY DEF PipelineInv, TablesSound
<1>10. TablesSound'
  BY <1>1, <1>2, <1>4, <1>6, <1>7, <1>8, <1>9 DEF TablesSound
<1> QED
  BY <1>1, <1>2, <1>3, <1>4, <1>5, <1>10 DEF PipelineInv, Passes, calibration

LEMMA NextSound == PipelineInv /\ [Next]_vars => PipelineInv'
<1> SUFFICES ASSUME PipelineInv, [Next]_vars PROVE PipelineInv'
  OBVIOUS
<1>1. CASE Pass
  BY <1>1, MergeStepSound, CalibrateSteps, TagsStep, InjectStep, CrossSubStep, ConfirmStep, LastSteps
     DEF Pass
<1>2. CASE Pooled(PoolNext)
  BY <1>2, PoolSteps
<1>3. CASE UNCHANGED vars
  <2>1. /\ UNCHANGED <<phase, groups, rows, ref, seen, round, before>> /\ UNCHANGED poolVars
        /\ UNCHANGED <<tagged, flagged, violations, deps, cost, scopes>>
    BY <1>3 DEF vars, tenant, calibration, tables
  <2>2. PoolInv' /\ (status' = "built" => Len(merged') = N)
    BY <2>1, PoolKept DEF PipelineInv
  <2>3. Tenant' = Tenant
    BY <2>1 DEF Tenant
  <2>4. TenantSound' /\ TablesSound'
    BY <2>1, <2>3 DEF PipelineInv, TenantSound, TablesSound, ViolationsTrue, DepsTrue
  <2> QED
    BY <2>1, <2>2, <2>3, <2>4 DEF PipelineInv
<1> QED
  BY <1>1, <1>2, <1>3 DEF Next, Returned

LEMMA PipelineInvariant == Spec => []PipelineInv
<1>1. Init => PipelineInv
  BY InitSound
<1>2. PipelineInv /\ [Next]_vars => PipelineInv'
  BY NextSound
<1> QED
  BY <1>1, <1>2, PTL DEF Spec

-----------------------------------------------------------------------------
(* What the runs check, for every profile, number of subscriptions, target  *)
(* and schedule of the pool.                                                *)

(* PipelineInv is an invariant; each theorem below follows from it. *)
LEMMA FromPipelineInv ==
  ASSUME PipelineInv
  PROVE  TypeOK /\ NoDanglingReference /\ UniqueIds /\ NamesAreHonest
         /\ DependenciesCross /\ ViolationsHold
<1> USE DEF PipelineInv
<1>1. /\ groups \in Seq(Group) /\ rows \in Seq(Resource)
      /\ Tenant.groups = groups /\ Tenant.rows = rows /\ Tenant.ref = ref
  BY DEF Tenant, Estate
<1>2. Solid(Tenant)
  <2>1. CASE phase = "pool"
    BY <2>1 DEF Solid, GroupsApart, Tenant, IsInjective, ToSet
  <2>2. CASE phase # "pool"
    BY <2>2 DEF TenantSound, Passes, Sound
  <2> QED
    BY <2>1, <2>2
<1>3. /\ tagged \cup flagged \cup cost \subseteq ToSet(rows)
      /\ ViolationsTrue /\ DepsTrue /\ scopes \subseteq _scope_pools(Tenant)
  BY DEF TablesSound
<1>4. TypeOK
  <2>1. phase \in {"pool", "failed"} \cup ToSet(PassOrder)
    <3>1. DOMAIN PassOrder = 1..8
      BY DEF PassOrder
    <3>2. /\ PassOrder[1] = "calibrate" /\ PassOrder[2] = "tags" /\ PassOrder[3] = "violations"
          /\ PassOrder[4] = "cross_sub" /\ PassOrder[5] = "confirm" /\ PassOrder[6] = "cost"
          /\ PassOrder[7] = "identity" /\ PassOrder[8] = "done"
      BY DEF PassOrder
    <3>3. Passes \subseteq {PassOrder[k] : k \in 1..8}
      BY <3>2 DEF Passes
    <3> QED
      BY <3>1, <3>3 DEF ToSet
  <2>2. status \in {"building", "built", "failed"} /\ claimed \in 0..N
    BY DEF PoolInv, PoolTypeOK
  <2>3. \A G \in ToSet(groups) : G.sub \in Subscriptions /\ G.template \in Template
    <3>1. ToSet(groups) \subseteq Group
      BY <1>1 DEF ToSet
    <3> QED
      BY <3>1 DEF Group
  <2>4. \A r \in ToSet(rows) : \E G \in ToSet(groups) : Holds(G, r)
    BY <1>1, <1>2 DEF Solid
  <2> QED
    BY <1>3, <2>1, <2>2, <2>3, <2>4 DEF TypeOK
<1>5. NoDanglingReference
  <2>1. \A e \in ref : e.src \in ToSet(rows) /\ e.dst \in ToSet(rows)
    BY <1>1, <1>2 DEF Solid
  <2>2. \A v \in violations : /\ v.resource_id \in ToSet(rows)
                              /\ {v.nic_id, v.public_ip_id} \subseteq ToSet(rows) \cup {None}
    BY <1>3 DEF ViolationsTrue
  <2>3. \A d \in deps : {d.source_resource_id, d.target_resource_id} \subseteq ToSet(rows)
    BY <1>3 DEF DepsTrue, Crossing
  <2> QED
    BY <1>3, <2>1, <2>2, <2>3 DEF NoDanglingReference
<1>6. UniqueIds
  <2> DEFINE name == [g \in DOMAIN groups |-> <<groups[g].sub, groups[g].name>>]
  <2>1. IsInjective(rows)
    BY <1>1, <1>2 DEF Solid
  <2>2. \A g, h \in DOMAIN groups :
          groups[g].sub = groups[h].sub /\ groups[g].name = groups[h].name => g = h
    BY <1>1, <1>2 DEF Solid, GroupsApart
  <2>3. ASSUME NEW g \in DOMAIN groups, NEW h \in DOMAIN groups, name[g] = name[h]
        PROVE  g = h
    BY <2>2, <2>3
  <2>4. DOMAIN name = DOMAIN groups
    OBVIOUS
  <2> HIDE DEF name
  <2>5. IsInjective(name)
    BY <2>3, <2>4 DEF IsInjective
  <2> QED
    BY <2>1, <2>5 DEF UniqueIds, name
<1>7. NamesAreHonest
  BY <1>1 DEF NamesAreHonest, TenantSound, Honest
<1>8. DependenciesCross
  <2>1. PICK H : \A d \in deps : Crossing(d, ToSet(rows), H)
    BY <1>3 DEF DepsTrue
  <2> QED
    BY <2>1 DEF DependenciesCross, Crossing
<1>9. ViolationsHold
  <2> SUFFICES ASSUME NEW v \in violations
               PROVE  CASE v.code = "TAG_MISSING_ENV" -> v.resource_id \notin tagged
                        [] v.code = "VM_NO_BACKUP"    -> v.resource_id \in flagged
                        [] v.code = "VM_PUBLIC_IP"    ->
                              /\ [src |-> v.resource_id, via |-> "nic", dst |-> v.nic_id] \in ref
                              /\ \E e \in ref : e.src = v.nic_id /\ e.via = "pip"
    BY DEF ViolationsHold
  <2>1. v.code \in Codes
    BY <1>3 DEF ViolationsTrue, ViolationRow
  <2>2. CASE v.code = "TAG_MISSING_ENV"
    BY <1>3, <2>2 DEF ViolationsTrue
  <2>3. CASE v.code = "VM_NO_BACKUP"
    BY <1>3, <2>3 DEF ViolationsTrue
  <2>4. CASE v.code = "VM_PUBLIC_IP"
    BY <1>3, <2>4 DEF ViolationsTrue, Exposed
  <2> QED
    BY <2>1, <2>2, <2>3, <2>4 DEF Codes
<1> QED
  BY <1>4, <1>5, <1>6, <1>7, <1>8, <1>9

(* Every row of the tenant lies in one of its groups, and what the tables   *)
(* say is said of rows there are, whatever calibrate trimmed and the sweep  *)
(* renamed.                                                                 *)
THEOREM PipelineTyped == Spec => []TypeOK
  BY PipelineInvariant, FromPipelineInv, PTL

(* GEN-08 and XSUB-06: no pass of generate_tenant leaves an id that names   *)
(* nothing, in references, violations, dependencies, cost or roles.         *)
THEOREM ReferencesResolve == Spec => []NoDanglingReference
  BY PipelineInvariant, FromPipelineInv, PTL

(* The writer's primary keys: whatever is generated, minted, wired, trimmed *)
(* and renamed, no two rows share an id and no two groups of a subscription *)
(* a name.                                                                  *)
THEOREM IdsStayUnique == Spec => []UniqueIds
  BY PipelineInvariant, FromPipelineInv, PTL

(* _confirm_and_rename leaves no group whose token its rows do not bear     *)
(* out, and no later pass undoes it.                                        *)
THEOREM NamesConfirmedHonest == Spec => []NamesAreHonest
  BY PipelineInvariant, FromPipelineInv, PTL

(* build_cross_sub links different subscriptions only, and a hub is         *)
(* nobody's spoke.                                                          *)
THEOREM DependenciesAlwaysCross == Spec => []DependenciesCross
  BY PipelineInvariant, FromPipelineInv, PTL

(* What inject records of a row is still true of it when the passes after   *)
(* it are done.                                                             *)
THEOREM ViolationsStayTrue == Spec => []ViolationsHold
  BY PipelineInvariant, FromPipelineInv, PTL

(* assert_references_resolve at the end of cross_sub never fails the run.   *)
THEOREM AssertionNeverFails == Spec => [](phase # "failed")
<1>1. PipelineInv => phase # "failed"
  BY DEF PipelineInv, Passes
<1> QED
  BY <1>1, PipelineInvariant, PTL

(* Under the passes too the pool is, step for step, the loop over the       *)
(* subscriptions: what MergeSubscriptions reads does not depend on --jobs.  *)
THEOREM PipelineReadsLoop == Spec => Sequential!Init /\ [][Sequential!Next]_Sequential!vars
<1>1. Init => Sequential!Init
  BY InitRefines DEF Init
<1>2. PipelineInv /\ [Next]_vars => [Sequential!Next]_Sequential!vars
  <2> SUFFICES ASSUME PoolInv, [Next]_vars PROVE [Sequential!Next]_Sequential!vars
    BY DEF PipelineInv
  <2>1. [PoolNext]_poolVars
    <3>1. CASE Pass
      BY <3>1 DEF Pass, MergeSubscriptions, TrimRound, TrimPass, PadRound, Calibrated, assign_tags,
                  inject, CrossSub, ConfirmAndRename, inject_cost, assign_roles
    <3>2. CASE Pooled(PoolNext)
      BY <3>2 DEF Pooled
    <3>3. CASE UNCHANGED vars
      BY <3>3 DEF vars
    <3> QED
      BY <3>1, <3>2, <3>3 DEF Next, Returned
  <2> QED
    BY <2>1, StepRefines
<1> QED
  BY <1>1, <1>2, PipelineInvariant, PTL DEF Spec
-----------------------------------------------------------------------------
(* How far calibrate is from its end.  A tenant below the band is padded up *)
(* to the lower aim or, from there, by one row at least: twice suffices.    *)
(* One above it is trimmed to the upper aim or to where nothing may go, and *)
(* if that is not in the band then the next round removes nothing and ends. *)
(* No trim falls below the band again, so there are never more than four.   *)

Low(n) == 100 * n < 95 * Target
High(n) == 100 * n > 105 * Target

(* A trim would leave this tenant as it is.                                 *)
Exhausted(T) == _total(T) = AimHigh \/ Leafless(T)

BetweenRounds ==
    LET n == _total(Tenant) IN
    /\ round <= 3 /\ (Target = 0 => round = 0)
    /\ Low(n) => round <= 1 /\ (round = 1 => n >= AimLow)
    /\ High(n) => round <= 2 \/ Exhausted(Tenant)

WithinTrim ==
    LET n == _total(Tenant) IN
    /\ Target > 0 /\ High(before) /\ n >= AimHigh
    /\ round <= 3 \/ (Exhausted(Tenant) /\ n = before)

RoundsInv ==
    /\ round <= 4
    /\ phase = "pool" => round = 0 /\ before = 0
    /\ phase = "calibrate" => IF before = 0 THEN BetweenRounds ELSE WithinTrim
    /\ phase = "tags" => Rounds <= 2 \/ CalibrationSettles

(* The aims: what is above the band is no lower than the upper aim, which   *)
(* is not below the band, and one more than the lower aim is not either.    *)
LEMMA AimFacts ==
  ASSUME NEW n \in Nat
  PROVE  /\ AimHigh \in Int /\ AimLow \in Int
         /\ High(n) => n >= AimHigh
         /\ n >= AimHigh => ~Low(n)
         /\ n >= AimLow + 1 => ~Low(n)
<1>1. Target \in Nat
  BY PipelineAssumption
<1>2. /\ AimHigh \in Int /\ 100 * AimHigh <= 104 * Target + 50 /\ 104 * Target + 50 < 100 * AimHigh + 100
      /\ AimLow \in Int /\ 100 * AimLow <= 96 * Target + 50 /\ 96 * Target + 50 < 100 * AimLow + 100
  BY <1>1 DEF AimHigh, AimLow
<1> QED
  BY <1>1, <1>2 DEF High, Low

(* The tenant in calibrate, and the totals. *)
LEMMA CalibrateTyped ==
  ASSUME PipelineInv, phase = "calibrate"
  PROVE  /\ Tenant \in Estate /\ Sound(Tenant, {}) /\ Wired(Tenant)
         /\ _total(Tenant) \in Nat /\ round \in Nat /\ before \in Nat
         /\ Rounds \in Nat /\ Target \in Nat
         /\ \A T \in Estate : IsTenant(T) => Tenant' = T
<1>1. Tenant \in Estate /\ Sound(Tenant, {}) /\ Wired(Tenant)
  BY DEF PipelineInv, TenantSound
<1>2. _total(Tenant) \in Nat
  BY <1>1 DEF _total, Estate
<1>3. \A T \in Estate : IsTenant(T) => Tenant' = T
  <2> TAKE T \in Estate
  <2>1. T = [groups |-> T.groups, rows |-> T.rows, ref |-> T.ref, seen |-> T.seen]
    BY DEF Estate
  <2> QED
    BY <2>1 DEF Tenant, IsTenant
<1> QED
  BY <1>1, <1>2, <1>3, PipelineAssumption DEF PipelineInv

LEMMA TrimRoundCounted == PipelineInv /\ RoundsInv /\ TrimRound => RoundsInv'
<1> SUFFICES ASSUME PipelineInv, RoundsInv, TrimRound PROVE RoundsInv'
  OBVIOUS
<1> DEFINE n == _total(Tenant)
<1>1. /\ phase = "calibrate" /\ phase' = "calibrate" /\ before = 0 /\ Target > 0
      /\ High(n) /\ round' = round + 1 /\ before' = n /\ Tenant' = Tenant
  BY DEF TrimRound, High, tenant, Tenant
<1>2. n \in Nat /\ round \in Nat /\ Target \in Nat
  BY <1>1, CalibrateTyped
<1>3. n >= AimHigh /\ n # 0
  BY <1>1, <1>2, AimFacts DEF High
<1>4. round <= 3 /\ (round <= 2 \/ Exhausted(Tenant))
  BY <1>1 DEF RoundsInv, BetweenRounds
<1> HIDE DEF n
<1>5. WithinTrim'
  <2>1. _total(Tenant') = n
    BY <1>1 DEF n
  <2>2. Exhausted(Tenant') <=> Exhausted(Tenant)
    BY <1>1
  <2> QED
    BY <1>1, <1>2, <1>3, <1>4, <2>1, <2>2 DEF WithinTrim, High
<1> QED
  BY <1>1, <1>2, <1>3, <1>4, <1>5 DEF RoundsInv

LEMMA TrimPassCounted == PipelineInv /\ RoundsInv /\ TrimPass => RoundsInv'
<1> SUFFICES ASSUME PipelineInv, RoundsInv, TrimPass PROVE RoundsInv'
  OBVIOUS
<1> DEFINE n == _total(Tenant)
           T == _trim(Tenant)
           m == _total(T)
           over == m <= AimHigh \/ m = n
<1>1. phase = "calibrate" /\ before > 0
  BY DEF TrimPass
<1>2. /\ Tenant \in Estate /\ Sound(Tenant, {}) /\ Wired(Tenant)
      /\ n \in Nat /\ round \in Nat /\ before \in Nat /\ Target \in Nat
      /\ \A U \in Estate : IsTenant(U) => Tenant' = U
  BY <1>1, CalibrateTyped
<1>3. /\ T \in Trimmed(Tenant) /\ (n >= AimHigh => m >= AimHigh)
      /\ IF n <= AimHigh \/ Leafless(Tenant) THEN T = Tenant ELSE m < n
  BY <1>2, PassTrimmed
<1>4. /\ IsTenant(T) /\ round' = round /\ before' = (IF over THEN 0 ELSE before)
      /\ IF over /\ m >= before THEN EndPass ELSE phase' = phase
  BY DEF TrimPass
<1>5. Target > 0 /\ High(before) /\ n >= AimHigh /\ (round <= 3 \/ (Exhausted(Tenant) /\ n = before))
  BY <1>1 DEF RoundsInv, WithinTrim
<1> HIDE DEF T
<1>6. T \in Estate /\ Tenant' = T
  BY <1>2, <1>3, <1>4 DEF Trimmed
<1>7. m \in Nat /\ AimHigh \in Int /\ m >= AimHigh
  BY <1>3, <1>5, <1>6, AimFacts DEF _total, Estate
<1>8. over => m = AimHigh \/ (T = Tenant /\ Leafless(T))
  BY <1>2, <1>3, <1>5, <1>7
<1>9. round <= 3 \/ (over /\ m = before)
  <2>1. CASE Exhausted(Tenant) /\ n = before
    <3>1. T = Tenant
      BY <1>3, <1>5, <1>7, <2>1 DEF Exhausted
    <3> QED
      BY <2>1, <3>1
  <2> QED
    BY <1>5, <2>1
<1>10. ~Low(m)
  BY <1>7, AimFacts
<1>11. round <= 4
  BY DEF RoundsInv
<1>12. _total(Tenant') = m
  BY <1>6
<1>13. CASE ~over
  <2>1. phase' = "calibrate" /\ before' = before /\ round <= 3
    BY <1>1, <1>4, <1>9, <1>13
  <2>2. WithinTrim'
    BY <1>4, <1>5, <1>7, <1>12, <2>1 DEF WithinTrim, High
  <2> QED
    BY <1>1, <1>4, <1>11, <2>1, <2>2 DEF RoundsInv
<1>14. CASE over /\ m < before
  <2>1. phase' = "calibrate" /\ before' = 0 /\ round <= 3
    BY <1>1, <1>2, <1>4, <1>7, <1>9, <1>14
  <2>2. Exhausted(Tenant')
    BY <1>6, <1>8, <1>14 DEF Exhausted
  <2>3. BetweenRounds'
    BY <1>4, <1>5, <1>10, <1>12, <2>1, <2>2 DEF BetweenRounds, Low, High
  <2> QED
    BY <1>1, <1>4, <1>11, <2>1, <2>3 DEF RoundsInv
<1>15. CASE over /\ m >= before
  <2>1. phase' = "tags" /\ round' <= 4
    BY <1>1, <1>4, <1>11, <1>15, NextPass
  <2>2. High(m)
    BY <1>2, <1>5, <1>7, <1>15 DEF High
  <2>3. m = AimHigh \/ Leafless(T)
    BY <1>8, <1>15
  <2>4. CalibrationSettles'
    BY <1>6, <1>12, <2>2, <2>3 DEF CalibrationSettles, High, Leafless, Tenant
  <2> QED
    BY <2>1, <2>4 DEF RoundsInv
<1> QED
  BY <1>2, <1>7, <1>13, <1>14, <1>15

LEMMA PadRoundCounted == PipelineInv /\ RoundsInv /\ PadRound => RoundsInv'
<1> SUFFICES ASSUME PipelineInv, RoundsInv, PadRound PROVE RoundsInv'
  OBVIOUS
<1> DEFINE n == _total(Tenant)
           d == AimLow - n
           m == Max({1, d})
<1>1. /\ phase = "calibrate" /\ before = 0 /\ before' = before /\ Low(n)
      /\ Target > 0 /\ round' = round + 1
  BY DEF PadRound, Low
<1>2. PICK T \in _pad_batch(Tenant, m) :
          IsTenant(T) /\ IF _total(T) = n THEN EndPass ELSE phase' = phase
  BY DEF PadRound
<1>3. /\ Tenant \in Estate /\ Sound(Tenant, {}) /\ Wired(Tenant)
      /\ n \in Nat /\ round \in Nat /\ Target \in Nat
      /\ \A U \in Estate : IsTenant(U) => Tenant' = U
  BY <1>1, CalibrateTyped
<1>4. AimLow \in Int
  BY <1>3, AimFacts
<1>5. m \in Nat /\ m >= 1 /\ m >= d
  <2>1. d \in Int
    BY <1>3, <1>4
  <2> HIDE DEF d
  <2>2. \E x \in {1, d} : \A y \in {1, d} : x >= y
    BY <2>1
  <2>3. m \in {1, d} /\ \A y \in {1, d} : m >= y
    BY <2>2 DEF Max
  <2> HIDE DEF m
  <2> QED
    BY <2>1, <2>3
<1> HIDE DEF m
<1>6. T \in Estate /\ ((T = Tenant /\ Barren(T)) \/ _total(T) >= n + m)
  BY <1>2, <1>3, <1>5, BatchPadded
<1>7. Tenant' = T /\ _total(T) \in Nat
  BY <1>2, <1>3, <1>6 DEF _total, Estate
<1>8. round <= 1 /\ (round = 1 => n >= AimLow)
  BY <1>1 DEF RoundsInv, BetweenRounds
<1>9. CASE T = Tenant /\ Barren(T)
  <2>1. phase' = "tags"
    BY <1>1, <1>2, <1>9, NextPass
  <2>2. CalibrationSettles'
    BY <1>1, <1>7, <1>9 DEF CalibrationSettles, Low, Barren, Tenant
  <2> QED
    BY <1>1, <1>3, <1>8, <2>1, <2>2 DEF RoundsInv
<1>10. CASE _total(T) >= n + m
  <2>1. phase' = "calibrate" /\ before' = 0
    BY <1>1, <1>2, <1>3, <1>5, <1>7, <1>10
  <2>2. _total(T) >= AimLow /\ (round = 1 => _total(T) >= AimLow + 1)
    BY <1>3, <1>4, <1>5, <1>7, <1>8, <1>10
  <2>3. Low(_total(T)) => round = 0
    BY <1>3, <1>7, <1>8, <2>2, AimFacts
  <2>4. BetweenRounds'
    BY <1>1, <1>3, <1>7, <1>8, <2>1, <2>2, <2>3 DEF BetweenRounds, Low, High
  <2> QED
    BY <1>1, <1>3, <1>8, <2>1, <2>4 DEF RoundsInv
<1> QED
  BY <1>6, <1>9, <1>10

LEMMA CalibratedCounted == PipelineInv /\ RoundsInv /\ Calibrated => RoundsInv'
<1> SUFFICES ASSUME PipelineInv, RoundsInv, Calibrated PROVE RoundsInv'
  OBVIOUS
<1> DEFINE n == _total(Tenant)
<1>1. /\ phase = "calibrate" /\ phase' = "tags" /\ before = 0 /\ round' = round
      /\ Target = 0 \/ round = Rounds \/ InBand(n)
      /\ UNCHANGED tenant
  BY NextPass DEF Calibrated, calibration
<1>2. /\ round <= 3 /\ round <= 4
      /\ (Low(n) => round <= 1) /\ (High(n) => round <= 2 \/ Exhausted(Tenant))
  BY <1>1 DEF RoundsInv, BetweenRounds
<1>3. n \in Nat /\ round \in Nat /\ Rounds \in Nat /\ Target \in Nat
  BY <1>1, CalibrateTyped
<1>4. _total(Tenant') = n /\ Tenant' = Tenant /\ Tenant.groups = groups /\ groups' = groups
  BY <1>1 DEF tenant, Tenant
<1>5. InBand(n) \/ Low(n) \/ High(n)
  BY <1>3 DEF InBand, Low, High
<1>6. CASE Target = 0 \/ InBand(n)
  <2>1. CalibrationSettles'
    BY <1>3, <1>4, <1>6 DEF CalibrationSettles, InBand
  <2> QED
    BY <1>1, <1>2, <2>1 DEF RoundsInv
<1>7. CASE round = Rounds /\ Rounds > 2 /\ ~InBand(n)
  <2>1. High(n) /\ Exhausted(Tenant)
    BY <1>2, <1>3, <1>5, <1>7
  <2>2. CalibrationSettles'
    BY <1>4, <2>1 DEF CalibrationSettles, High, Exhausted, Leafless
  <2> QED
    BY <1>1, <1>2, <2>2 DEF RoundsInv
<1> QED
  BY <1>1, <1>2, <1>3, <1>6, <1>7 DEF RoundsInv

LEMMA RoundsInductive == PipelineInv /\ RoundsInv /\ [Next]_vars => RoundsInv'
<1> SUFFICES ASSUME PipelineInv, RoundsInv, [Next]_vars PROVE RoundsInv'
  OBVIOUS
<1>1. CASE TrimRound \/ TrimPass \/ PadRound \/ Calibrated
  BY <1>1, TrimRoundCounted, TrimPassCounted, PadRoundCounted, CalibratedCounted
<1>2. CASE MergeSubscriptions
  <2>1. phase = "pool" /\ phase' = "calibrate" /\ round' = round /\ before' = before
    BY <1>2 DEF MergeSubscriptions, calibration, PassOrder
  <2>2. round' = 0 /\ before' = 0
    BY <2>1 DEF RoundsInv
  <2> QED
    BY <2>1, <2>2 DEF RoundsInv, BetweenRounds
<1>3. CASE assign_tags \/ inject \/ CrossSub \/ ConfirmAndRename \/ inject_cost \/ assign_roles
  <2>1. round' = round /\ phase' \notin {"pool", "calibrate", "tags"}
    BY <1>3, NextPass
       DEF assign_tags, inject, CrossSub, ConfirmAndRename, inject_cost, assign_roles, calibration
  <2> QED
    BY <2>1 DEF RoundsInv
<1>4. CASE Pooled(PoolNext)
  <2>1. phase = "pool" /\ phase' = "pool" /\ UNCHANGED <<round, before>>
    BY <1>4 DEF Pooled, calibration
  <2> QED
    BY <2>1 DEF RoundsInv
<1>5. CASE UNCHANGED vars
  <2>1. UNCHANGED <<phase, round, before, groups, rows, ref, seen>>
    BY <1>5 DEF vars, tenant, calibration
  <2>2. Tenant' = Tenant
    BY <2>1 DEF Tenant
  <2> QED
    BY <2>1, <2>2 DEF RoundsInv, BetweenRounds, WithinTrim, Exhausted, CalibrationSettles
<1> QED
  BY <1>1, <1>2, <1>3, <1>4, <1>5 DEF Next, Pass, Returned

LEMMA RoundsInvariant == Spec => []RoundsInv
<1>1. Init => RoundsInv
  BY DEF Init, RoundsInv
<1> QED
  BY <1>1, RoundsInductive, PipelineInvariant, PTL DEF Spec

(* calibrate allows itself more rounds than any tenant takes: for no        *)
(* profile, target or draw does it begin a fifth, so the bound on its loop, *)
(* meant for profiles that would never settle, cuts none short.             *)
THEOREM FourRoundsSuffice == Spec => [](round <= 4)
<1>1. RoundsInv => round <= 4
  BY DEF RoundsInv
<1> QED
  BY <1>1, RoundsInvariant, PTL

(* With three rounds or more (the code has twelve) calibrate ends in its    *)
(* band, or with nothing to trim or no group to grow, or at its rounded aim.*)
THEOREM CalibrationAlwaysSettles ==
  ASSUME Rounds >= 3
  PROVE  Spec => []CalibrationSettles
<1>1. ASSUME RoundsInv PROVE CalibrationSettles
  <2>1. phase # "tags" => CalibrationSettles
    BY DEF CalibrationSettles
  <2>2. ~(Rounds <= 2)
    BY PipelineAssumption
  <2> QED
    BY <1>1, <2>1, <2>2 DEF RoundsInv
<1> QED
  BY <1>1, RoundsInvariant, PTL
=============================================================================
