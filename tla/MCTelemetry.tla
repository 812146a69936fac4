----------------------------- MODULE MCTelemetry -----------------------------
(* Telemetry with every small fabric, the default one included, and traffic *)
(* in both directions through two devices that are not on the diagonal, and *)
(* to a server.                                                             *)
EXTENDS Telemetry

MCOptions == (1 .. 3) \X (1 .. 4)
MCLoaded == {<<"down", 0, 1>>, <<"up", 1, 0>>, <<"server", 0, 0>>}

(* The options' defaults. *)
DefaultOptions == {<<DefaultSpines, DefaultLeaves>>}
=============================================================================
