\* A request, its retry, and a second client with the same preview; a crash.
SPECIFICATION FairSpec
CONSTANTS
  r1 = r1  r2 = r2  r3 = r3
  c1 = c1  c2 = c2  h1 = h1  h2 = h2  h3 = h3  p1 = p1
  Requests = {r1, r2, r3}
  ClientIds = {c1, c2}
  Hashes = {h1, h2, h3}
  Previews = {p1}
  NoClient = NoClient  NoPreview = NoPreview  NoOrder = NoOrder
  clientOf <- OwnClient
  hashOf <- OwnHash
  previewOf <- OwnPreview
  userRemark = {r3}
  MaxCrashes = 1
INVARIANTS AtMostOneSubmission PreviewPaysOnce BoundToOwnSubmission BookedOrderTracked
PROPERTIES BindingStable LostAckRecovered
