---------------------------- MODULE Promotions ------------------------------
(* Promotion as an instance, to stand beside Scans, which has names of its own *)
(* for the hosts and for the rows of discovered_devices.                       *)

CONSTANTS Networks, Addresses, Discovered, Devices, Rules, Requests, MaxScans, MaxCrashes

VARIABLES net, found, dev, rule, req, scanRow, scanning, recording, pass, nscans, ncrashes,
          parted

P == INSTANCE Promotion WITH Hosts <- Addresses, dd <- found, host <- recording
-----------------------------------------------------------------------------
(* Properties *)

\* Every device made by a promotion is named by its discovered row, unless a
\* request, a crash or the loss of the row explains it.
PromotedAreNamed == P!PromotedAreNamed

\* A host that was promoted to nothing and is not seen again leaves the table.
OldRowsLeave == P!OldRowsLeave
=============================================================================
