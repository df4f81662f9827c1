----------------------------- MODULE MCServices -----------------------------
(***************************************************************************)
(* Services with two actors and small bounds.                              *)
(***************************************************************************)
EXTENDS Services, TLC

CONSTANTS Deployment

\* A key with two requests per window in a team with one.
MCRateLimit == [c \in Scopes |-> IF c = "key_rpm" THEN 2 ELSE 1]

\* One deployment, which is its own fallback.
OneDeployment == <<Deployment>>

Symmetry == Permutations(Actors)
=============================================================================
