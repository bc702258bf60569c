----------------------------- MODULE MCPipeline -----------------------------
(* Pipeline.tla on a small instance: the collector and one more service. *)
EXTENDS Pipeline

MCServices == <<"executor", "collector">>

=============================================================================
