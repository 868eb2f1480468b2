---------------------- MODULE MCComponentPlanRuntime ----------------------
(* Instances of ComponentPlanRuntime: a configuration that places every     *)
(* installed package, and a later catalog that has lost one of them.        *)
EXTENDS ComponentPlanRuntime

CONSTANT notes

MCJoin == (0..MaxCatalog) \X (0..MaxRevision)
Installed(c) == IF c = 0 THEN Package ELSE Package \ {notes}
MCDesired == [join \in MCJoin |-> Installed(join[1])]
=============================================================================
