SPECIFICATION AdmissionSpec
CONSTANTS
  Requests = {r1, r2}
  Capabilities = {"swap", "memo"}
  Regulated = {"swap"}
  Platforms = {"ios", "extension"}
  Countries = {"KP", "GB", "US", "FR"}
  Unknown = "unknown"
  Prohibited = {"KP", "US"}
  Embargoed = {"KP"}
  NotOffered = {"GB"}
  Docs <- SomeDocs
  Ttl = 1
  MaxStale = 1
  a1 = a1
  a2 = a2
  a3 = a3
  a4 = a4
  j1 = j1
  Jobs = {j1}
  Checks = {s1}
  Addresses = {a1, a2, a3, a4}
  Screened = {a1}
  Downloads <- AnyList
  Chunk = 2
  MaxAge = 1
  Overlap = FALSE
SYMMETRY Alike
INVARIANTS
  BlockedStaysBlocked
  TableKeptUp
  ReplacedAtomically
  ClearedOnFreshList
  ListedNeverCleared
PROPERTIES
  JupiterOnlyScreened
  NoSilentShrink
