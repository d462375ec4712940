----------------------------- MODULE MCService -----------------------------
(* Services for TLC: two providers, in one weighted tier or in two, and one *)
(* of them with a model of the configuration and one that only a probe      *)
(* finds.                                                                  *)
EXTENDS Services, TLC

CONSTANTS wb, intl, m1, m2

MCRoutes == <<wb, intl>>
MCPools == {wb, intl}

\* Nothing tells the handlers of the plane apart.
MCSymmetry == Permutations(Handlers)

Policy(priority, weight, enabled) == [priority |-> priority, weight |-> weight, enabled |-> enabled]
Even == Policy(1, 1, TRUE)
MCPolicies ==
  {wb :> Policy(1, 2, TRUE) @@ intl :> Even, wb :> Policy(2, 1, TRUE) @@ intl :> Even}

MCDiscoverable == {wb}
MCModels == {m1, m2}
MCConfigured == {<<wb, m1>>}
=============================================================================
