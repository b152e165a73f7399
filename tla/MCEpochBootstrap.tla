--------------------------- MODULE MCEpochBootstrap -------------------------
(* Values for the constants of EpochBootstrap that a .cfg cannot write.    *)
EXTENDS EpochBootstrap

Copy(sys, role, tl, lsn) ==
  [empty |-> FALSE, sys |-> sys, role |-> role, tl |-> tl, lsn |-> lsn]

PrimaryCopy == Copy(7, "primary", 1, 2)
Lagging == Copy(7, "replica", 1, 1)
CaughtUp == Copy(7, "replica", 1, 2)

MCViews2 == {{1, 2}, {2}}
MCViews3 == {{1, 2, 3}}
MCViewsLeft == {{1, 2, 3}, {2, 3}}
MCPg == {EmptyPg, PrimaryCopy, CaughtUp}
MCLive == {PrimaryCopy, CaughtUp}
MCPg3 == MCPg \cup {Lagging}
MCLive3 == MCLive \cup {Lagging}
MCPgLive == {EmptyPg, PrimaryCopy, CaughtUp}
MCFaults == FaultKind
=============================================================================
