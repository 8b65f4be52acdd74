---------------------------- MODULE MCDurableRun ----------------------------
(* Small instances of DurableRun for TLC.  The sets below are the whole    *)
(* range of a constant; a cfg that gives a smaller one says so.            *)
EXTENDS DurableRunProps

EveryOutcome == {"answered", "rejected", "ambiguous"}

EveryBody == {"text", "proposal"}

EveryRequest == {"run", "rerun", "cancel", "mark", "settle"}

EveryFault == {"crash", "stall", "stale_list", "throw", "refuse", "unassign"}
=============================================================================
