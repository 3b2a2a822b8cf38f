SPECIFICATION Spec
CONSTANTS
  Requests = {r1, r2}
  Capabilities = {"swap", "memo"}
  Regulated = {"swap"}
  Platforms = {"ios", "extension"}
  Countries = {"KP", "GB", "US", "FR"}
  Unknown = "unknown"
  Prohibited = {"KP", "US"}
  Embargoed = {"KP"}
  NotOffered = {"GB"}
  Docs <- SomeDocs
  Ttl = 1
  MaxStale = 2
PROPERTIES
  FailureNeverOpens
