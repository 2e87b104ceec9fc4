----------------------------- MODULE MCPipeline -----------------------------
(* Small instances of AlertPipeline, from the values of MCObserver.        *)
EXTENDS AlertPipeline, MCObserver

ASSUME OneSlotAssumption == OneSlot
=============================================================================
