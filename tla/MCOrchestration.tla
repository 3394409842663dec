--------------------------- MODULE MCOrchestration ---------------------------
(* The retry sensor beside a chain from the checks and imports to the alerts. *)
EXTENDS Orchestration

Sensors == {"registry_check_retry", "features_after_registry_check",
            "features_after_rdf_import", "alerts_after_features_or_scoring"}
==============================================================================
