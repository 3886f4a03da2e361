--------------------------- MODULE MCDistribution ---------------------------
(* Distribution on small portfolios: one licence or two, with scopes that end
   or are capped, and a release that may lapse first.                       *)
EXTENDS Distribution

Scope(id, cap, ends) ==
  [id |-> id, territories |-> {WORLD}, excludedTerritories |-> {}, channels |-> {},
   excludedChannels |-> {}, starts |-> {}, ends |-> ends, maxImpressions |-> {},
   maxDownloads |-> cap]

License(ends, perpetual, scopes) ==
  [starts |-> {}, ends |-> ends, perpetual |-> perpetual, notice |-> 0, scopes |-> scopes]

Release(expires) ==
  [territories |-> {WORLD}, channels |-> {}, minor |-> FALSE, consent |-> FALSE,
   starts |-> {}, expires |-> expires, status |-> "valid"]

Web == [channel |-> "web", territory |-> "GB"]

\* A licence that ends; two capped scopes of which one ends, under a release
\* that lapses with it; a capped scope under a release that lapses first.
OneLicense ==
  {[licenses |-> {License({2}, FALSE, {Scope(1, {}, {})})}, releases |-> {Release({})}],
   [licenses |-> {License({1}, TRUE, {Scope(1, {1}, {}), Scope(2, {1}, {2})})},
    releases |-> {Release({2})}],
   [licenses |-> {License({}, TRUE, {Scope(1, {1}, {})})}, releases |-> {Release({1})}]}
=============================================================================
