----------------------------- MODULE PoolLoops ------------------------------
(* PoolScan as an instance, to stand beside Ipam, which has names of its own   *)
(* for the pool's rows.                                                        *)
EXTENDS Naturals

CONSTANTS Width, Base, MaxIPs

\* An address has an octet, an octet two values, and a heatmap an entry.
Sizes == Width \in Nat \ {0} /\ Base \in Nat \ {0, 1} /\ MaxIPs \in Nat \ {0}

ASSUME SizesAssumption == Sizes

VARIABLES startIP, endIP, taken, reserved, loop, current, heatmap

B == INSTANCE PoolScan WITH used <- taken
-----------------------------------------------------------------------------
(* Properties *)

\* GetNextAvailableIP returns the least unused address of the pool, and none
\* only when there is none.
FindsFirstUnused == B!FindsFirstUnused

\* GetPoolHeatmap lists the addresses of the pool in order, each once and with
\* its status, up to MaxIPs of them.
HeatmapIsRange == B!HeatmapIsRange

\* Every loop over a pool ends, unless the next address of a full pool that ends
\* with the highest address is looked for.
LoopEnds == B!LoopEnds
=============================================================================
