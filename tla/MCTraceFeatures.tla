--------------------------- MODULE MCTraceFeatures ---------------------------
(* The build of the trace for TLC in which the two storages coexist: both *)
(* the sync and the async features.                                        *)
EXTENDS TraceFeatures

MCBothBuilds == {{"sync", "async"}}
=============================================================================
