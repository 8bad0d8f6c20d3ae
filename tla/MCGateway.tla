----------------------------- MODULE MCGateway -----------------------------
EXTENDS Gateway, TLC

CONSTANTS h1, h2, k1, k2

Offline == [profile |-> "synthetic", store |-> "memory", dsn |-> "local",
            credentials |-> FALSE, grader |-> "fake", sql |-> "fake"]

\* The demo, one with a provider's key left in its environment, and a deployment.
MCConfigs == {Offline,
              [Offline EXCEPT !.credentials = TRUE],
              [Offline EXCEPT !.profile = "production", !.store = "surrealdb", !.dsn = "cloud"]}
CallerSymmetry == Permutations({h1, h2}) \cup Permutations({k1, k2})
=============================================================================
