\* Three subscriptions through the pool and every pass, around a target of six.
SPECIFICATION Spec
CONSTANTS
  N = 3
  Builds <- MCBuilds
  Jobs = {0, 1}
  Cpus = 2
  Chunk = 1
  None = None
  MayCrash = TRUE
  Template = {"vm", "hub", "aks", "misc"}
  type_set <- MCTypeSet
  type_weights <- MCTypeWeights
  frequent = {}
  empty_share <- MCEmptyShare
  RcDraws <- MCRcDraws
  RgDraws <- MCRgDraws
  Drawable <- MCDrawable
  Target = 6
  Rounds = 12
  TypeOrder <- MCTypeOrder
  TagTypes = {"ContainerService/managedClusters"}
  MaxPerCode = 2
  Targets <- MCTargets
  CostTypes = {"Compute/virtualMachines", "Network/virtualNetworks"}
INVARIANTS
  TypeOK
  NoDanglingReference
  UniqueIds
  NamesAreHonest
  DependenciesCross
  ViolationsHold
  CalibrationSettles
PROPERTIES
  PoolRefines
  GenerationEnds
