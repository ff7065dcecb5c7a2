------------------------------- MODULE MCSplit -------------------------------
EXTENDS SplitTunnel

Policy(hash, routes, domain, enabled, valid) ==
  [hash |-> hash, routes |-> routes, domain |-> domain, enabled |-> enabled, valid |-> valid]

Plain == Policy("h1", "A", FALSE, TRUE, TRUE)
WithDomain == Policy("h2", "B", TRUE, TRUE, TRUE)
Renamed == Policy("h3", "A", FALSE, TRUE, TRUE)
Disabled == Policy("h4", "A", FALSE, FALSE, TRUE)
Unsupported == Policy("h5", "B", FALSE, TRUE, FALSE)

SomePolicies == {Plain, WithDomain, Renamed, Disabled, Unsupported}

Budgets(os, pair, changes, faults, stops, starts, deaths, bootstraps, moves, saves, offers, leases) ==
  [platform |-> os, pair |-> pair, changes |-> changes, faults |-> faults, stops |-> stops,
   starts |-> starts, deaths |-> deaths, bootstraps |-> bootstraps, moves |-> moves, saves |-> saves,
   offers |-> offers, leases |-> leases]

(* A policy changes while one call fails and a bootstrap runs, on each     *)
(* platform; Stop overtakes the change; the client dies and the network    *)
(* changes; settings are saved and the account is left; the panel names    *)
(* another lease.                                                          *)
PolicyScenarios ==
  {Budgets("linux",     FALSE, 1, 1, 0, 1, 0, 1, 0, 0, {Plain, WithDomain}, {"l1"}),
   Budgets("windows",   FALSE, 1, 1, 1, 1, 0, 0, 0, 0, {Plain, WithDomain}, {"l1"}),
   Budgets("android",   TRUE,  1, 1, 0, 1, 0, 1, 0, 0, {Plain, Renamed}, {"l1"}),
   Budgets("android12", FALSE, 1, 1, 0, 1, 0, 1, 0, 0, {Plain, Renamed}, {"l1"}),
   Budgets("linux",     FALSE, 1, 0, 0, 1, 1, 0, 1, 0, {Plain, Renamed}, {"l1"}),
   Budgets("linux",     FALSE, 0, 1, 1, 1, 0, 0, 0, 1, {Plain, Disabled, Unsupported}, {"l1"}),
   Budgets("linux",     FALSE, 0, 1, 0, 1, 0, 1, 0, 0, {Plain}, {"l1", "l2"}),
   Budgets("linux",     FALSE, 0, 2, 1, 1, 0, 0, 0, 0, {Plain}, {"l1"}),
   Budgets("linux",     FALSE, 0, 3, 0, 1, 0, 0, 1, 0, {Plain}, {"l1"}),
   Budgets("linux",     FALSE, 0, 1, 1, 1, 0, 1, 0, 0, {Plain}, {"l1"})}
=============================================================================
