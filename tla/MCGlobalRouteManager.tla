------------------------- MODULE MCGlobalRouteManager -------------------------
(* Values of the constants of GlobalRouteManager for TLC. *)
EXTENDS GlobalRouteManager

\* Router 1 pays more for the network than the others, so that its own
\* interface and the way over a neighbour can cost the same.
MCNetMetric == <<2, 1, 1, 1>>

\* Up to the names of the routers 2 to 4, every set of routers.
MCStations == {{}, {3, 4}, {2, 3, 4}, {1, 4}, {1, 3, 4}, {1, 2, 3, 4}}

=============================================================================
