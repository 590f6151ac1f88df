--------------------------- MODULE MCProfileBuild ---------------------------
(* Six rows of two subscriptions.  A group is spelled in two ways and      *)
(* named like a kind, a resource like a part of a type, another like a tag  *)
(* value; one type has two spellings.                                       *)
EXTENDS ProfileBuild

VM == "microsoft.compute/vm"
NET == "microsoft.net/vnet"
CNET == "Microsoft.net/vnet"
NoTags == [key \in {} |-> ""]

Row(id, sub, rg, name, type, location, tags, shape, cost) ==
    [id |-> id, sub |-> sub, rg |-> rg, name |-> name, type |-> type, location |-> location,
     tags |-> tags, shape |-> shape, cost |-> cost]

MCRows == {
    Row(1, "s1", "WEB", "a-1", VM, "east", [env |-> "prod"], [kind |-> "web"], {"jan", "feb"}),
    Row(2, "s1", "WEB", "a-2", VM, "east", [env |-> "prod"], [kind |-> "web"], {"jan"}),
    Row(3, "s1", "web", "a-3", CNET, "west", [env |-> "prod", acme |-> "x"], NoTags, {"jan"}),
    Row(4, "s1", "WEB", "prod", NET, "west", [owner |-> "kim", env |-> "prod"], NoTags, {"feb"}),
    Row(5, "s2", "core", "b-1", NET, "west", [owner |-> "kim", env |-> "dev"], NoTags, {}),
    Row(6, "s2", "core", "vm", VM, "west", NoTags, [kind |-> "app"], {})}

MCGroups == {[sub |-> "s1", name |-> "WEB"], [sub |-> "s2", name |-> "core"],
             [sub |-> "s2", name |-> "spare"]}

Types == {VM, NET, CNET}
MCCanonical == [t \in Types |-> IF t = VM THEN "Microsoft.compute/vm" ELSE CNET]
MCRaw == [t \in {"Microsoft.compute/vm", CNET} |-> IF t = CNET THEN NET ELSE VM]
MCFields == [t \in DOMAIN MCRaw |-> {"kind"}]
MCPattern == [n \in {"a-1", "a-2", "a-3", "vm", "prod", "b-1"} |->
                IF n \in {"a-1", "a-2", "a-3", "b-1"} THEN "<word>-<int>" ELSE "<word>"]
MCLower == [n \in {"web", "WEB", "core", "spare"} |-> IF n = "WEB" THEN "web" ELSE n]
MCFindings == {[f \in {} |-> 0], [stopped_vms |-> 2, orphans |-> 3, unused_public_ips |-> 1]}
MCViolationOf == [stopped_vms |-> "VM_NO_BACKUP", unused_public_ips |-> "VM_PUBLIC_IP"]
MCWords ==
    LET parts(s) == CASE s = "Microsoft.compute/vm" -> {"Microsoft", "compute", "vm"}
                      [] s = CNET -> {"Microsoft", "net", "vnet"}
                      [] OTHER -> {}
    IN  [s \in DOMAIN MCRaw \cup Types
                \cup {"web", "app", "east", "west", "prod", "dev", "env", "owner", "acme", "kim", "x",
                      "VM_NO_BACKUP", "VM_PUBLIC_IP", "<word>", "<word>-<int>", "__other__"}
            |-> {s} \cup parts(s)]
=============================================================================
