------------------------------ MODULE MCPipeline ------------------------------
(* Instances of WriterPipeline for TLC. *)
EXTENDS PipelineProperties

CONSTANTS depth, metadata, Depths  \* Depths: the events of the depth group

MCGroupOf == [e \in Events |-> IF e \in Depths THEN depth ELSE metadata]
=============================================================================
