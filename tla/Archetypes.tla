----------------------------- MODULE Archetypes -----------------------------
(***************************************************************************)
(* archetypes.py: the token a resource group's name carries.  A template   *)
(* is labelled from its type set, and the label is confirmed or taken back *)
(* against the types the group really holds in the end.  Types are written *)
(* without "Microsoft."; scores are doubled to stay integers.              *)
(***************************************************************************)
EXTENDS Integers, FiniteSets, FiniteSetsExt

TOKEN_SHARED == "shared"
TOKEN_CORE == "core"
Generic == {TOKEN_SHARED, TOKEN_CORE}

ANCHOR_WEIGHT == 4
STRONG_SIGNAL_WEIGHT == 1
NEGATIVE_PENALTY == 3
MIN_SCORE == 4
MARGIN_THRESHOLD == 1
MIN_SUPPORTING_SIGNALS == 2
CONFIRM_MARGIN == 1

Storage == "Storage/storageAccounts"
KeyVault == "KeyVault/vaults"
Components == "Insights/components"
Identities == "ManagedIdentity/userAssignedIdentities"

Archetype(token, confirmation, anchors, supporting, generic, negative) ==
    [token |-> token, confirmation |-> confirmation, anchors |-> anchors,
     supporting |-> supporting, generic |-> generic, negative |-> negative]

(* The first half of ARCHETYPES.  No entry declares required_all.           *)
WorkloadArchetypes == {
    Archetype("vm-workload", "ANCHOR_REQUIRED", {"Compute/virtualMachines"},
        {"Compute/disks", "Network/networkInterfaces", "Compute/availabilitySets",
         "Compute/virtualMachines/extensions"}, {},
        {"ContainerService/managedClusters"}),
    Archetype("web-app", "ANCHOR_REQUIRED", {"Web/sites"}, {"Web/serverfarms"},
        {Components, Storage, KeyVault, "Sql/servers"},
        {"ContainerService/managedClusters", "Network/azureFirewalls"}),
    Archetype("aks-platform", "ANCHOR_REQUIRED", {"ContainerService/managedClusters"},
        {"ContainerRegistry/registries"},
        {Identities, "Network/virtualNetworks", Components}, {}),
    Archetype("network-hub", "ANCHOR_REQUIRED", {"Network/virtualNetworks"},
        {"Network/routeTables", "Network/azureFirewalls", "Network/networkSecurityGroups",
         "Network/networkIntentPolicies", "Network/publicIPAddresses"}, {},
        {"Databricks/workspaces", "Synapse/workspaces", "Web/sites", "Sql/servers",
         "Compute/virtualMachines"}),
    Archetype("backup", "SUPPORTING_ALLOWED",
        {"RecoveryServices/vaults", "DataProtection/backupVaults"},
        {"Maintenance/maintenanceConfigurations", "Compute/restorePointCollections"},
        {Storage}, {})}

(* The second half of ARCHETYPES.                                           *)
PlatformArchetypes == {
    Archetype("data-platform", "ANCHOR_REQUIRED",
        {"Databricks/workspaces", "Synapse/workspaces", "DataFactory/factories"},
        {"Databricks/accessConnectors"}, {Storage, Identities, KeyVault}, {}),
    Archetype("sql-db", "ANCHOR_REQUIRED", {"Sql/servers"}, {"Sql/servers/databases"},
        {Storage, KeyVault}, {"Web/sites"}),
    Archetype("monitoring", "SUPPORTING_ALLOWED",
        {"OperationalInsights/workspaces", "Insights/actionGroups",
         "AlertsManagement/actionRules", "Insights/metricAlerts", "dynatrace/monitors"},
        {"Insights/activityLogAlerts", "Insights/scheduledQueryRules"}, {Components},
        {"Web/sites", "DevCenter/devcenters"}),
    Archetype("messaging", "ANCHOR_REQUIRED",
        {"ServiceBus/namespaces", "EventHub/namespaces", "EventGrid/topics"}, {},
        {Storage, Identities}, {}),
    Archetype("identity", "ANCHOR_REQUIRED", {Identities}, {}, {},
        {Storage, "Compute/virtualMachines", "Databricks/workspaces", "Web/sites",
         "Sql/servers", "Network/virtualNetworks"}),
    Archetype("devbox", "ANCHOR_REQUIRED", {"DevCenter/devcenters", "DevCenter/projects"},
        {}, {KeyVault, Storage, "Insights/actionGroups"}, {})}

ARCHETYPES == WorkloadArchetypes \cup PlatformArchetypes

(* Archetype.__post_init__ and validate_catalog, run on import.             *)
ASSUME validate_catalog ==
    /\ ARCHETYPES # {}
    /\ \A a, b \in ARCHETYPES : a.token = b.token => a = b
    /\ \A a \in ARCHETYPES :
        /\ a.confirmation = "ANCHOR_REQUIRED" => a.anchors # {}
        /\ a.confirmation = "SUPPORTING_ALLOWED" => a.supporting # {}
        /\ a.token \notin Generic

-----------------------------------------------------------------------------
(* The parents of nested types: a child counts towards its parent.          *)
ParentType == [t \in {"Compute/virtualMachines/extensions", "Sql/servers/databases",
                      "Network/virtualNetworks/subnets"} |->
    CASE t = "Compute/virtualMachines/extensions" -> "Compute/virtualMachines"
      [] t = "Sql/servers/databases" -> "Sql/servers"
      [] t = "Network/virtualNetworks/subnets" -> "Network/virtualNetworks"]

_credit_children(S) == S \cup {ParentType[t] : t \in S \cap DOMAIN ParentType}

Score(a, S) ==
    ANCHOR_WEIGHT + STRONG_SIGNAL_WEIGHT * Cardinality(S \cap (a.supporting \cup a.generic))
        - NEGATIVE_PENALTY * Cardinality(S \cap a.negative)

(* The label of a template: the one anchored archetype that leads by the    *)
(* margin, "core" for a contested set, "shared" for one without an anchor.  *)
match_template(type_set) ==
    LET S == _credit_children(type_set)
        scored == {a \in ARCHETYPES : S \cap a.anchors # {}}
        leads(a) == /\ Score(a, S) >= MIN_SCORE
                    /\ \A b \in scored \ {a} : Score(a, S) - Score(b, S) >= MARGIN_THRESHOLD
    IN  IF type_set = {} \/ "__misc__" \in type_set \/ scored = {} THEN TOKEN_SHARED
        ELSE IF \E a \in scored : leads(a)
             THEN (CHOOSE a \in scored : leads(a)).token
             ELSE TOKEN_CORE

_confirms(a, S) ==
    LET hits(b) == Cardinality(S \cap b.supporting) IN
    \/ S \cap a.anchors # {}
    \/ /\ a.confirmation # "ANCHOR_REQUIRED"
       /\ hits(a) >= MIN_SUPPORTING_SIGNALS
       /\ hits(a) - Max({hits(b) : b \in ARCHETYPES \ {a}}) >= CONFIRM_MARGIN

(* The token a group that holds the given types may carry.                  *)
confirm_token(template_token, types) ==
    IF template_token \in Generic THEN template_token
    ELSE IF types = {} THEN TOKEN_SHARED
    ELSE IF _confirms(CHOOSE a \in ARCHETYPES : a.token = template_token,
                      _credit_children(types))
         THEN template_token
         ELSE TOKEN_CORE

build_label_map(type_sets) == [t \in DOMAIN type_sets |-> match_template(type_sets[t])]
=============================================================================
