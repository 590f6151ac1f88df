-------------------------- MODULE MCTenantPipeline --------------------------
(* Three subscriptions: a group of machines beside a group of networks and  *)
(* addresses, a cluster, and a group of miscellanea; every group but the    *)
(* machines' may come out empty.                                            *)
EXTENDS TenantPipeline

MCTypeSet == [vm |-> {T_VM}, hub |-> {T_VNET, T_PIP}, aks |-> {T_AKS},
              misc |-> {"__misc__"}]
MCTypeWeights == [vm |-> {}, hub |-> {}, aks |-> {}, misc |-> {T_PIP}]
MCEmptyShare == [vm |-> FALSE, hub |-> TRUE, aks |-> TRUE, misc |-> TRUE]
MCRcDraws == [vm |-> {1}, hub |-> {1}, aks |-> {1}, misc |-> {1}]
MCRgDraws == <<{2}, {1}, {1}>>
MCDrawable == <<{"vm", "hub"}, {"aks"}, {"misc"}>>
MCTypeOrder == <<T_DISK, T_VM, T_ACR, T_AKS, T_KV, T_NIC, T_PE, T_PIP,
                 T_VNET, T_SUBNET, T_LOG_ANALYTICS>>
MCTargets ==
    {[hub_count |-> 1, spokes_per_hub |-> 2, shared_kv_count |-> 0, kv_consumers |-> 0,
      log_analytics_count |-> 0, acr_count |-> 1],
     [hub_count |-> 0, spokes_per_hub |-> 0, shared_kv_count |-> 1, kv_consumers |-> 2,
      log_analytics_count |-> 1, acr_count |-> 0]}
MCBuilds == [i \in 1..N |-> _build_one_subscription(i)]
=============================================================================
