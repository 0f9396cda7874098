----------------------------- MODULE MCPipeline -----------------------------
(* Small instances of Pipeline for TLC.                                    *)
EXTENDS PipelineProps, TLC

CONSTANTS w1, w2, b1, b2, b3, b4, b5, b6

V2Only == {SpecV2}
V3Only == {SpecV3(1)}
BothVersions == {SpecV2, SpecV3(1)}
AllVersions == LayoutSpecs

\* workers are interchangeable, and so are the buffers of the pool
Interchangeable == Permutations(Workers) \cup Permutations(Bufs)
=============================================================================
