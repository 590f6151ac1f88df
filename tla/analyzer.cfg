\* A live tenant of six rows that changes while it is read, or a file of them.
SPECIFICATION Spec
CONSTANTS
  Rows <- MCRows
  Groups <- MCGroups
  Findings <- MCFindings
  Denylists = {{}, {"kim"}}
  Filters = {{}, {"s1"}}
  MinBucketSizes = {1, 2}
  MIN_BUCKET_FLOOR = 2
  GenericKeys = {"env", "owner"}
  Tokens = {"t1", "t2"}
  Canonical <- MCCanonical
  Raw <- MCRaw
  Fields <- MCFields
  VALUE_ALLOWLIST_KEYS = {"env"}
  IdentifierShaped = {"x"}
  MAX_ENUM_CARDINALITY = 40
  Pattern <- MCPattern
  Lower <- MCLower
  ViolationOf <- MCViolationOf
  Words <- MCWords
  None = None
INVARIANTS
  TypeOK
  NoIdentifierPublished
  RareValuesHidden
PROPERTIES
  EveryRowHasItsGroup
  AnalysisEnds
