------------------------ MODULE MCDirectCliConfig ------------------------
(* Small instances of DirectCliConfig.                                    *)
EXTENDS DirectCliConfig, TLC

CONSTANTS main, agent, planA, planB, r1, r2, text, bad, toml

\* The profile before and after an edit that adds a role, with a file of its
\* own.
SomeFiles == (planA :> <<main>>) @@ (planB :> <<main, agent>>)
SomeRoutes == (planA :> {r1}) @@ (planB :> {r1, r2})

\* What users have in the two files.
SomeTexts == (main :> {text, bad}) @@ (agent :> {toml})

\* One unchanging profile.
OnePlanFiles == planA :> <<main, agent>>
OnePlanRoutes == planA :> {r1}

\* Credential and snapshot ids are interchangeable.
Interchangeable == Permutations(CredIds) \cup Permutations(SnapIds)
=============================================================================
