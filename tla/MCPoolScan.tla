----------------------------- MODULE MCPoolScan ------------------------------
(* What must come to an end in a pool, one part per behaviour: the loops over  *)
(* its addresses, or the requests for the single address of a pool while       *)
(* reservations expire.  The variables of the other part stay as they began.   *)
EXTENDS PoolLoops

CONSTANTS Rids, Procs, MaxRetries, MaxNow

VARIABLES which, network, row, device, addrs, resv, now, req

bVars == <<startIP, endIP, taken, reserved, loop, current, heatmap>>
iVars == <<network, row, device, addrs, resv, now, req>>

\* One pool with one address, which every request wants.
I == INSTANCE Ipam
       WITH Networks <- {"n"}, Pools <- {"p"}, Devices <- {}, NoPool <- "none", NoRid <- "none",
            MaxIP <- 1, Ranges <- {<<1, 1>>}, MaxAddrs <- 1, pool <- row

\* Rows outside the range matter to a loop that has left it: none or all of them.
MCInit ==
  \/ which = "loops" /\ I!Init /\ B!Init
     /\ taken \ B!Interval(startIP, endIP) \in {{}, B!IP \ B!Interval(startIP, endIP)}
  \/ which = "requests" /\ I!Init
     /\ startIP = B!Highest /\ endIP = B!Highest /\ taken = {} /\ reserved = {}
     /\ loop = "found" /\ current = startIP /\ heatmap = <<>>

MCNext ==
  /\ UNCHANGED which
  /\ \/ which = "loops" /\ B!Next /\ UNCHANGED iVars
     \/ which = "requests" /\ I!Next /\ UNCHANGED bVars

MCSpec ==
  /\ MCInit /\ [][MCNext]_<<which, bVars, iVars>>
  /\ WF_bVars(which = "loops" /\ B!Next)
  /\ \A p \in Procs : WF_iVars(which = "requests" /\ I!Steps(p))
-----------------------------------------------------------------------------
(* Properties of the requests *)

\* An automatic assignment is answered, even if each attempt collides.
CreateIsAnswered == I!CreateIsAnswered
=============================================================================
