----------------------------- MODULE MCService -----------------------------
(* A service with one region and reloads, and one with two regions, one of  *)
(* them configured twice, and no token; command lines that are refused;     *)
(* calls that ask for a configured region, the default and an unknown one,  *)
(* with and without limits of their own.                                    *)
EXTENDS Service, TLC

Interchangeable == Permutations(Reload) \cup Permutations(Call)

\* Bound: two calls meet one reload, and one call two of them.
Arrived == Cardinality({c \in Call : place[c] # "new"})
Started == Cardinality({a \in Reload : load[a].at # "idle"})
Busy == Arrived + Started <= 3

NoFlags ==
  [masterdata |-> <<>>, music_metas |-> <<>>, default_region |-> None,
   max_search_timeout |-> None, max_limit |-> None, admin_token |-> None]

Line(flag, env) == [flag |-> flag, env |-> env]
FromEnvironment ==
  [NoFlags EXCEPT !.masterdata = <<"cn">>, !.music_metas = <<"jp", "cn">>,
                  !.default_region = "cn"]

MCCommandLines ==
  {Line([NoFlags EXCEPT !.admin_token = "secret"], FromEnvironment),
   Line([NoFlags EXCEPT !.masterdata = <<"cn", "jp", "cn">>,
                        !.max_search_timeout = 0, !.max_limit = 0], FromEnvironment),
   Line([NoFlags EXCEPT !.masterdata = <<"jp">>], FromEnvironment),
   Line([NoFlags EXCEPT !.masterdata = <<"kr">>, !.default_region = "kr"], FromEnvironment)}

Ask(endpoint, region, flaw, timeout, limit) ==
  [endpoint |-> endpoint, region |-> region, flaw |-> flaw, timeout |-> timeout,
   limit |-> limit, tiers |-> limit > 1]

MCAsks ==
  {Ask("recommend", None, "none", 0, 3), Ask("challenge_all", "jp", "none", 3, 1),
   Ask("recommend", "kr", "user", 1, 1), Ask("world_bloom_support_cards", "cn", "params", 0, 1), Ask("recommend", None, "body", 1, 1)}
=============================================================================
