---------------------------- MODULE ZoneTables ------------------------------
(* DnsZones as an instance with requests and variables of its own, to stand    *)
(* beside other tables and beside DnsSync.                                     *)

CONSTANTS ZoneReqs, Providers, Zones, ZoneNames, Networks, MaxZoneRequests

VARIABLES prov, cache, zones, net, overlap, zReq, zCount

Z == INSTANCE DnsZones
       WITH Reqs <- ZoneReqs, Names <- ZoneNames, MaxRequests <- MaxZoneRequests,
            zone <- zones, req <- zReq, count <- zCount
-----------------------------------------------------------------------------
(* Properties *)

\* A cached client has the secret of its provider's row, unless updates of the
\* provider overlapped one another or the making of the client.
ClientsAreCurrent == Z!ClientsAreCurrent
=============================================================================
