---------------------------- MODULE FieldTables -----------------------------
(* CustomFields as an instance with requests and variables of its own, to      *)
(* stand beside other tables.                                                  *)

CONSTANTS FieldReqs, Devices, Fields, FieldKeys, Options, MaxFieldRequests

VARIABLES defs, dev, val, given, fReq, fCount

F == INSTANCE CustomFields
       WITH Reqs <- FieldReqs, Keys <- FieldKeys, MaxRequests <- MaxFieldRequests,
            req <- fReq, count <- fCount
-----------------------------------------------------------------------------
(* Properties *)

\* What a device shows for a field is the value it was last given or no value.
NeverAnOldValue == F!NeverAnOldValue

\* An update of a device that names no custom field, with no other write since
\* it read the device, leaves every value the device shows as it was.
UpdateKeepsFields == F!UpdateKeepsFields
=============================================================================
