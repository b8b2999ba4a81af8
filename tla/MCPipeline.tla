---------------------------- MODULE MCPipeline ----------------------------
(***************************************************************************)
(* Pipeline with the streams, events and buffers of its programs.          *)
(***************************************************************************)
EXTENDS Pipeline

MCStreams == StreamNames
MCEvents == EventNames
MCLocations == LocationNames
MCConfigs == ConfigNames
=============================================================================
