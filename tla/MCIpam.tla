------------------------------- MODULE MCIpam -------------------------------
(* Small instances of Ipam for TLC. *)
EXTENDS Ipam, TLC

CONSTANTS n1, p1, d1, r1, r2, t1, t2

\* One address below the range, a range of two and one of one inside it.
MCRanges == {<<1, 2>>, <<2, 2>>}
MCSymmetry == Permutations(Procs) \cup Permutations(Rids)
=============================================================================
