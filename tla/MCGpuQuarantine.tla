--------------------------- MODULE MCGpuQuarantine ---------------------------
(* GpuQuarantine for two callers; the points at which the code handles
   KeyboardInterrupt, and one at which it does not. *)
EXTENDS GpuQuarantine

CONSTANTS c1, c2

HandledPoints == {"loop", "submission", "syncing", "draining", "retrying",
                  "read_wait", "decode_gate", "read_sync"}
SyncEntry == {"sync_entry"}
=============================================================================
