\* Further instance: one identity used for two bodies.
SPECIFICATION Spec
CONSTANTS
  r1 = r1  r2 = r2  r3 = r3
  c1 = c1  c2 = c2  h1 = h1  h2 = h2  h3 = h3  p1 = p1
  Requests = {r1, r2, r3}
  ClientIds = {c1, c2}
  Hashes = {h1, h2, h3}
  Previews = {p1}
  NoClient = NoClient  NoPreview = NoPreview  NoOrder = NoOrder
  clientOf <- MixedClient
  hashOf <- MixedHash
  previewOf <- MixedPreview
  userRemark = {}
  MaxCrashes = 1
INVARIANTS TypeOK BoundToOwnSubmission BookedOrderTracked
PROPERTIES BindingStable
