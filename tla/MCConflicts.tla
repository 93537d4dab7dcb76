----------------------------- MODULE MCConflicts -----------------------------
(* Small instances of Conflicts for TLC, one of them per behaviour: requests   *)
(* one after another, with all operations, or two requests in flight about one *)
(* address, with device writes and detections only.                            *)
EXTENDS Conflicts, TLC

CONSTANTS d1, d2, d3, e1, e2, x, y, n1, n2, wide, apart, k1, k2, p1, q1, q2

VARIABLE which

\* A subnet overlaps itself; wide and apart are disjoint.
MCOverlap == {{wide}, {apart}}

MCSymmetry ==
  UNION {Permutations(S) : S \in {Devices, Networks, Cids}}

Two == INSTANCE Conflicts
         WITH Devices <- {e1, e2}, Procs <- {q1, q2}, IPs <- {x}, Networks <- {},
              Subnets <- {}, MaxSame <- 2

MCInit ==
  \/ which = "alone" /\ Init
  \/ which = "two" /\ Two!Init

MCNext ==
  /\ UNCHANGED which
  /\ \/ which = "alone" /\ Next
     \/ which = "two" /\ Two!DeviceNext

MCSpec == MCInit /\ [][MCNext]_<<which, vars>>
-----------------------------------------------------------------------------
(* Properties of the two requests *)

\* Of writes that are all checked: when every request has ended, an address of
\* two devices has been reported, in whatever order the writes and the checks
\* of the two requests came.
DuplicatesAreReported == which = "two" => Two!NoMissedDuplicate
=============================================================================
