------------------------------- MODULE MCScans -------------------------------
(* Small instances of Scans for TLC, one of them per behaviour: one scan of    *)
(* several hosts, whose goroutines are scheduled fairly, or a pair of scans of *)
(* one host.  The variables of the other instance stay as they began.          *)
EXTENDS Scans

VARIABLES which, row2, mem2, scans2, cancelFuncs2, done2, main2, next2, host2, copy2,
          foundCount2, dd2, call2, answered2, met2

vars2 == <<row2, mem2, scans2, cancelFuncs2, done2, main2, next2, host2, copy2, foundCount2,
           dd2, call2, answered2, met2>>

Pair == INSTANCE Scans
          WITH Scans <- {"s1", "s2"}, NHosts <- 1, Workers <- 1,
               row <- row2, mem <- mem2, scans <- scans2, cancelFuncs <- cancelFuncs2,
               done <- done2, main <- main2, next <- next2, host <- host2, copy <- copy2,
               foundCount <- foundCount2, dd <- dd2, call <- call2, answered <- answered2,
               met <- met2

MCInit == which \in {"one", "pair"} /\ Init /\ Pair!Init

\* The scans of the pair are alike: s1 is the one that starts first.
FirstIsFirst == row2["s2"].st # "fresh" => row2["s1"].st # "fresh"

MCNext ==
  /\ UNCHANGED which
  /\ \/ which = "one" /\ Next /\ UNCHANGED vars2
     \/ which = "pair" /\ Pair!Next /\ FirstIsFirst' /\ UNCHANGED vars

MCSpec == MCInit /\ [][MCNext]_<<which, vars, vars2>> /\ (which = "one" => Fairness)
-----------------------------------------------------------------------------
(* Properties of the pair *)

\* A host gets a second row only from two scans of the network that run at the
\* same time, never from scans that follow each other.
NoDuplicateUnlessBoth == Pair!NoDuplicateWithoutOverlap
=============================================================================
