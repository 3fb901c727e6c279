-------------------------- MODULE MCOrderSubmission --------------------------
(* Small instances of OrderSubmission for TLC. *)
EXTENDS OrderSubmission, TLC

CONSTANTS r1, r2, r3, c1, c2, h1, h2, h3, p1

\* One identity reused for two different bodies, and an order without a
\* client order id.
MixedClient == r1 :> c1 @@ r2 :> c1 @@ r3 :> NoClient
MixedHash == r1 :> h1 @@ r2 :> h2 @@ r3 :> h3
MixedPreview == r1 :> NoPreview @@ r2 :> NoPreview @@ r3 :> NoPreview

\* A request, its retry without the preview, and a second client with the
\* same preview whose order carries a remark of its own.
OwnClient == r1 :> c1 @@ r2 :> c1 @@ r3 :> c2
OwnHash == r1 :> h1 @@ r2 :> h1 @@ r3 :> h2
OwnPreview == r1 :> p1 @@ r2 :> NoPreview @@ r3 :> p1
=============================================================================
