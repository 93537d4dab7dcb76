------------------------------ MODULE PoolScan ------------------------------
(***************************************************************************)
(* The loops over the addresses of a pool: GetNextAvailableIP, which       *)
(* returns the first unused one, and GetPoolHeatmap, which lists them all. *)
(*                                                                         *)
(* An address is Width octets, each in 0 .. Base - 1 (the code has 4 and   *)
(* 256), compared and incremented octet by octet; Value is the integer it  *)
(* stands for.  The rows of a pool are read before the loop starts.        *)
(***************************************************************************)
EXTENDS Integers, Sequences

CONSTANTS Width, Base,   \* octets of an address, values of an octet
          MaxIPs         \* maxIPs of GetPoolHeatmap

VARIABLES startIP, endIP,  \* the pool
          used,            \* addresses of the pool in the table addresses
          reserved,        \* its active reservations
          loop,            \* which loop runs, or how it ended
          current,         \* when "found", what GetNextAvailableIP returns
          heatmap          \* entries appended so far

vars == <<startIP, endIP, used, reserved, loop, current, heatmap>>
pool == <<startIP, endIP, used, reserved>>

Octets == 1 .. Width
IP == [Octets -> 0 .. Base - 1]
Value(ip) ==
  LET upTo[i \in 0 .. Width] == IF i = 0 THEN 0 ELSE upTo[i - 1] * Base + ip[i]
  IN  upTo[Width]
Interval(lo, hi) == {ip \in IP : Value(lo) <= Value(ip) /\ Value(ip) <= Value(hi)}
Highest == [i \in Octets |-> Base - 1]
Ended == {"found", "unavailable", "listed"}

\* Any two addresses: nothing compares the ends of a pool when it is stored.
Init ==
  /\ startIP \in IP /\ endIP \in IP
  /\ used \in SUBSET IP /\ reserved \in {{}, {startIP}}
  /\ loop \in {"next", "heatmap"}
  /\ current = startIP
  /\ heatmap = <<>>
-----------------------------------------------------------------------------
\* The first octet in which two addresses differ decides.
Less(a, b) == \E k \in Octets : a[k] < b[k] /\ \A i \in 1 .. k - 1 : a[i] = b[i]

\* Mutant: the carry is lost.
PlusOneOctet(ip) == [ip EXCEPT ![Width] = (@ + 1) % Base]

\* The first loop of incrementIP: octets wrap to 0 from the last one up to
\* the first that does not.
PlusOne(ip) ==
  LET full == {i \in Octets : \A j \in i .. Width : ip[j] = Base - 1} IN
  [i \in Octets |-> IF i \in full THEN 0
                    ELSE IF i = Width \/ i + 1 \in full THEN ip[i] + 1 ELSE ip[i]]

\* Mutant: the end is taken for past the end.
NotPastOpen(ip, end) == Less(ip, end)

\* The second loop of incrementIP: the result is not past the end.
NotPast(ip, end) == ~ Less(end, ip)

ipInRange(ip, start, end) == ~ Less(ip, start) /\ ~ Less(end, ip)

Done(how) == loop' = how /\ UNCHANGED current

\* incrementIP, and what the loop does when it returns false.
Increment(how) ==
  IF NotPast(PlusOne(current), endIP)
  THEN current' = PlusOne(current) /\ UNCHANGED loop
  ELSE Done(how)

\* One round of the loop of GetNextAvailableIP.
NextAvailable ==
  /\ loop = "next"
  /\ IF current \notin used THEN Done("found") ELSE Increment("unavailable")
  /\ UNCHANGED <<pool, heatmap>>

StatusOf(ip) == IF ip \in used THEN "used" ELSE IF ip \in reserved THEN "reserved" ELSE "available"

\* Mutant: one entry more than the limit.
HeatmapOneMore ==
  /\ loop = "heatmap"
  /\ IF Len(heatmap) > MaxIPs THEN Done("listed") /\ UNCHANGED heatmap
     ELSE /\ heatmap' = Append(heatmap, <<current, StatusOf(current)>>)
          /\ IF current = endIP THEN Done("listed") ELSE Increment("listed")
  /\ UNCHANGED pool

\* One round of the loop of GetPoolHeatmap.
Heatmap ==
  /\ loop = "heatmap"
  /\ IF Len(heatmap) >= MaxIPs THEN Done("listed") /\ UNCHANGED heatmap
     ELSE /\ heatmap' = Append(heatmap, <<current, StatusOf(current)>>)
          /\ IF current = endIP THEN Done("listed") ELSE Increment("listed")
  /\ UNCHANGED pool

Next == NextAvailable \/ Heatmap
Spec == Init /\ [][Next]_vars
FairSpec == Spec /\ WF_vars(Next)
-----------------------------------------------------------------------------
\* A pool whose ends are in order, and one that in addition does not end
\* with the highest address, whose successor is the lowest.
InOrder == Value(startIP) <= Value(endIP)
BelowTop == InOrder /\ endIP # Highest

\* "finds the first unused IP address in a pool's range" (GetNextAvailableIP):
\* the loop returns the least unused address of the range, and an error only
\* when there is none.  When the pool ends with the highest address this
\* holds as long as an address is left (a full one wraps to the lowest
\* address); a pool whose ends are not in order has no addresses, and an
\* answer of the loop means nothing.
FindsFirstUnused ==
  LET free == Interval(startIP, endIP) \ used IN
  /\ InOrder /\ free # {} /\ loop = "found" =>
       current \in free /\ \A ip \in free : Value(current) <= Value(ip)
  /\ BelowTop /\ loop = "found" => free # {}
  /\ loop = "unavailable" => free = {}

\* GetPoolHeatmap lists the addresses of the range in order, each once and
\* with its status, up to MaxIPs of them: when there are fewer none is left
\* out, the highest address included.
HeatmapIsRange ==
  InOrder /\ loop = "listed" =>
    /\ Len(heatmap) <= MaxIPs
    /\ \A i \in 1 .. Len(heatmap) :
         LET ip == heatmap[i][1] IN
         /\ ip \in Interval(startIP, endIP) /\ Value(ip) = Value(startIP) + i - 1
         /\ heatmap[i][2] = "used" <=> ip \in used
         /\ heatmap[i][2] = "available" <=> ip \notin used \cup reserved
    /\ Len(heatmap) < MaxIPs =>
         \A ip \in Interval(startIP, endIP) : \E i \in 1 .. Len(heatmap) : heatmap[i][1] = ip

\* Every loop ends, unless the next address of a full pool that ends with
\* the highest address is looked for.
LoopEnds ==
  loop = "heatmap" \/ (loop = "next" /\ endIP # Highest) ~> loop \in Ended
=============================================================================
