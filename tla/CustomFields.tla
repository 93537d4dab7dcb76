---------------------------- MODULE CustomFields ----------------------------
(* Custom field definitions and the values devices have for them.  A value     *)
(* row has one column per representation; which one is read follows from the   *)
(* definition's type at the time of the read, which one is written from the    *)
(* type at the time of the write.  Handlers that patch a definition or a       *)
(* device read it in one step and write it whole in another; the MCP tool      *)
(* saves the device first and its values one statement at a time.              *)
EXTENDS Naturals, Sequences, FiniteSets

CONSTANTS Reqs, Devices, Fields, Keys, Options,
          MaxRequests    \* bound on the requests of a behaviour

VARIABLES defs,    \* custom_field_definitions
          dev,     \* devices
          val,     \* custom_field_values, by device and field (UNIQUE)
          given,   \* history: the input the value row was last written from
          req, count

vars == <<defs, dev, val, given, req, count>>

None == "none"
Types == {"text", "number", "boolean", "select"}
\* Values as decoded from JSON: a number is always a float64.
Nil == [kind |-> "nil", v |-> None]
Inputs == {Nil} \cup [kind : {"string"}, v : Options \cup {""}]
                \cup {[kind |-> "bool", v |-> "true"], [kind |-> "float", v |-> "1"]}

NoRow == [set |-> FALSE, s |-> "", n |-> None, b |-> None]
NoDef == [st |-> "fresh", key |-> None, type |-> None, opts |-> {}]
Live(f) == defs[f].st = "live"

-----------------------------------------------------------------------------
(* The model package: a value and its columns.                                 *)

GetValue(type, row) ==
    CASE type = "number" -> IF row.n = None THEN Nil ELSE [kind |-> "int", v |-> row.n]
      [] type = "boolean" -> IF row.b = None THEN Nil ELSE [kind |-> "bool", v |-> row.b]
      [] OTHER -> [kind |-> "string", v |-> row.s]

\* An input of another kind than the column's leaves it empty.
SetValue(type, in) ==
    LET row == [NoRow EXCEPT !.set = TRUE]
    IN  CASE type = "number" -> IF in.kind = "int" THEN [row EXCEPT !.n = in.v] ELSE row
          [] type = "boolean" -> IF in.kind = "bool" THEN [row EXCEPT !.b = in.v] ELSE row
          [] OTHER -> IF in.kind = "string" THEN [row EXCEPT !.s = in.v] ELSE row

validateCustomFieldValue(def, in) ==
    \/ in.kind = "nil"
    \/ def.type = "text" /\ in.kind = "string"
    \/ def.type = "number" /\ in.kind \in {"int", "float", "string"}
    \/ def.type = "boolean" /\ in.kind = "bool"
    \/ def.type = "select" /\ in.kind = "string" /\ in.v \in def.opts

-----------------------------------------------------------------------------
(* The store.  A body of custom fields is a function from fields to inputs.    *)

\* Both foreign keys of custom_field_values are ON DELETE CASCADE.
Cascade(xs, fs) == [x \in Devices |-> [f \in Fields |->
                       IF x \in xs \/ f \in fs THEN NoRow ELSE val[x][f]]]

\* Mutant: the fields of a device are not loaded with it.
GetCustomFieldValuesWithDefinitionsNone(x) == <<>>
GetCustomFieldValuesWithDefinitions(x) ==
    [f \in {f \in Fields : Live(f) /\ val[x][f].set} |-> GetValue(defs[f].type, val[x][f])]

\* Mutant: the rows of the device are not deleted before the new ones are
\* inserted.
insertDeviceCustomFieldsOver(x, body) ==
    LET known == {f \in DOMAIN body : Live(f)}
    IN  /\ val' = [val EXCEPT ![x] = [f \in Fields |->
                     IF f \in known THEN SetValue(defs[f].type, body[f]) ELSE val[x][f]]]
        /\ given' = [given EXCEPT ![x] = [f \in Fields |->
                       IF f \in known THEN body[f] ELSE Nil]]
\* The values of the device replaced; fields that are not defined are skipped.
insertDeviceCustomFields(x, body) ==
    LET known == {f \in DOMAIN body : Live(f)}
    IN  /\ val' = [val EXCEPT ![x] = [f \in Fields |->
                     IF f \in known THEN SetValue(defs[f].type, body[f]) ELSE NoRow]]
        /\ given' = [given EXCEPT ![x] = [f \in Fields |->
                       IF f \in known THEN body[f] ELSE Nil]]

\* INSERT OR REPLACE: the whole row.
SetCustomFieldValue(x, f, row) == [val EXCEPT ![x][f] = row]

GetCustomFieldDefinition(f) == defs[f]
ListCustomFieldDefinitions == {f \in Fields : Live(f)}
CreateCustomFieldDefinition(f, d) ==
    defs' = [defs EXCEPT ![f] = [st |-> "live", key |-> d.key, type |-> d.type, opts |-> d.opts]]
\* The values, then the definition, in one transaction.
DeleteCustomFieldDefinition(f) ==
    /\ defs' = [defs EXCEPT ![f] = [NoDef EXCEPT !.st = "gone"]]
    /\ val' = Cascade({}, {f})
    /\ given' = [x \in Devices |-> [given[x] EXCEPT ![f] = Nil]]

KeyFree(f, key) == \A g \in Fields \ {f} : Live(g) => defs[g].key # key

-----------------------------------------------------------------------------
(* Requests.  `clean` says that nothing was written since the request's read.  *)

Idle == [pc |-> "idle", id |-> None, row |-> NoDef, body |-> <<>>, whole |-> FALSE,
         clean |-> FALSE]
Begin(p, r) == /\ req[p] = Idle /\ count < MaxRequests /\ count' = count + 1
               /\ req' = [req EXCEPT ![p] = r]
End(p) == req' = [q \in Reqs |-> IF q = p THEN Idle ELSE [req[q] EXCEPT !.clean = FALSE]]
Request(p) == /\ req[p] = Idle /\ count < MaxRequests /\ count' = count + 1 /\ End(p)

Definitions == {d \in [key : Keys, type : Types, opts : {{}, Options}] :
                  d.type = "select" => d.opts # {}}

createCustomFieldDefinition(p, f) == \E d \in Definitions :
    /\ Request(p) /\ defs[f].st = "fresh" /\ KeyFree(f, d.key)
    /\ CreateCustomFieldDefinition(f, d)
    /\ UNCHANGED <<dev, val, given>>

\* The definition with the fields that are given replaced, or nothing; opts is
\* <<>> when the body does not name it.
UpdateDefinition(old, type, opts) ==
    LET new == [old EXCEPT !.type = IF type = None THEN @ ELSE type]
    IN  IF type = "select" /\ opts \in {<<>>, <<{}>>} /\ old.opts = {} THEN {}
        ELSE IF opts = <<>> THEN {new}
        ELSE IF new.type = "select" /\ opts = <<{}>> THEN {}
        ELSE {[new EXCEPT !.opts = opts[1]]}
updateCustomFieldDefinition(p, f) ==
    \E type \in Types \cup {None}, opts \in {<<>>, <<{}>>, <<Options>>} :
        /\ Live(f)
        /\ \E row \in UpdateDefinition(GetCustomFieldDefinition(f), type, opts) :
             Begin(p, [Idle EXCEPT !.pc = "definition", !.id = f, !.row = row])
        /\ UNCHANGED <<defs, dev, val, given>>
UpdateCustomFieldDefinition(p) ==
    /\ req[p].pc = "definition" /\ End(p)
    /\ defs' = IF Live(req[p].id) /\ KeyFree(req[p].id, req[p].row.key)
               THEN [defs EXCEPT ![req[p].id] = req[p].row] ELSE defs
    /\ UNCHANGED <<dev, val, given, count>>

DeleteDefinition(f) == Live(f) /\ DeleteCustomFieldDefinition(f)
deleteCustomFieldDefinition(p, f) == Request(p) /\ DeleteDefinition(f) /\ UNCHANGED dev

Bodies == UNION {[S -> Inputs] : S \in {S \in SUBSET Fields : Cardinality(S) <= 1}}
\* The REST handlers do not validate the values they store.
createDevice(p, x) == \E body \in Bodies :
    /\ Request(p) /\ dev[x] = "fresh"
    /\ dev' = [dev EXCEPT ![x] = "live"]
    /\ insertDeviceCustomFields(x, body)
    /\ UNCHANGED defs
deleteDevice(p, x) ==
    /\ Request(p) /\ dev[x] = "live"
    /\ dev' = [dev EXCEPT ![x] = "gone"]
    /\ val' = Cascade({x}, {})
    /\ given' = [given EXCEPT ![x] = [f \in Fields |-> Nil]]
    /\ UNCHANGED defs
\* The device is read with its fields; the body may name others.
updateDevice(p, x) ==
    /\ dev[x] = "live"
    /\ \/ Begin(p, [Idle EXCEPT !.pc = "device", !.id = x, !.whole = TRUE, !.clean = TRUE,
                                !.body = GetCustomFieldValuesWithDefinitions(x)])
       \/ \E body \in Bodies : Begin(p, [Idle EXCEPT !.pc = "device", !.id = x, !.body = body])
    /\ UNCHANGED <<defs, dev, val, given>>
UpdateDevice(p) ==
    /\ req[p].pc = "device" /\ End(p)
    /\ IF dev[req[p].id] = "live" THEN insertDeviceCustomFields(req[p].id, req[p].body)
                                  ELSE UNCHANGED <<val, given>>
    /\ UNCHANGED <<defs, dev, count>>

\* The MCP tool: the device is saved without fields, the definitions are
\* listed, and every value is stored as a string checked against them.
handleDeviceSave(p, x) == \E f \in Fields, v \in Options \cup {""} :
    /\ dev[x] = "live"
    /\ req[p] = Idle /\ count < MaxRequests /\ count' = count + 1
    /\ insertDeviceCustomFields(x, <<>>)
    /\ req' = [q \in Reqs |->
                 IF q = p THEN [Idle EXCEPT !.pc = "list", !.id = x,
                                            !.body = [g \in {f} |-> [kind |-> "string", v |-> v]]]
                 ELSE [req[q] EXCEPT !.clean = FALSE]]
    /\ UNCHANGED <<defs, dev>>
\* SetValues: the list and the validation; nothing is stored when one fails.
SetValues(p) ==
    /\ req[p].pc = "list"
    /\ req' = [req EXCEPT ![p] =
         IF \A f \in DOMAIN @.body : /\ f \in ListCustomFieldDefinitions
                                     /\ validateCustomFieldValue(defs[f], @.body[f])
         THEN [@ EXCEPT !.pc = "set", !.row = defs[CHOOSE f \in DOMAIN req[p].body : TRUE]]
         ELSE Idle]
    /\ UNCHANGED <<defs, dev, val, given, count>>
\* One statement; the foreign keys refuse it when the device or field is gone.
SetOne(p) ==
    /\ req[p].pc = "set" /\ End(p)
    /\ LET x == req[p].id
           f == CHOOSE f \in DOMAIN req[p].body : TRUE
           in == req[p].body[f]
           row == SetValue(req[p].row.type, in)
       IN  IF dev[x] = "live" /\ Live(f)
           THEN /\ val' = SetCustomFieldValue(x, f, row)
                /\ given' = [given EXCEPT ![x][f] = in]
           ELSE UNCHANGED <<val, given>>
    /\ UNCHANGED <<defs, dev, count>>

-----------------------------------------------------------------------------
Init ==
    /\ defs = [f \in Fields |-> NoDef] /\ dev = [x \in Devices |-> "fresh"]
    /\ val = [x \in Devices |-> [f \in Fields |-> NoRow]]
    /\ given = [x \in Devices |-> [f \in Fields |-> Nil]]
    /\ req = [p \in Reqs |-> Idle] /\ count = 0
Next == \E p \in Reqs :
    \/ \E f \in Fields : \/ createCustomFieldDefinition(p, f) \/ updateCustomFieldDefinition(p, f)
                         \/ deleteCustomFieldDefinition(p, f)
    \/ \E x \in Devices : \/ createDevice(p, x) \/ updateDevice(p, x) \/ deleteDevice(p, x)
                          \/ handleDeviceSave(p, x)
    \/ UpdateCustomFieldDefinition(p) \/ UpdateDevice(p) \/ SetValues(p) \/ SetOne(p)
Spec == Init /\ [][Next]_vars

-----------------------------------------------------------------------------
(* Properties.                                                                 *)

\* What a device shows for a field is the value it was last given or no value:
\* changing the type back and forth never brings an older value to light, since
\* every write replaces all the columns of the row.
NeverAnOldValue == \A x \in Devices, f \in Fields :
    val[x][f].set => GetValue(defs[f].type, val[x][f])
                       \in {given[x][f], Nil, [kind |-> "string", v |-> ""]}

\* An update of a device that does not name custom fields, with no other write
\* since it read the device, leaves every value the device shows as it was
\* (the fields are read with the device and inserted anew).
UpdateKeepsFields ==
    [][\A p \in Reqs : req[p].whole /\ req[p].clean /\ req'[p] = Idle =>
         \A f \in Fields : val[req[p].id][f].set =>
            /\ val'[req[p].id][f].set
            /\ GetValue(defs[f].type, val'[req[p].id][f]) = GetValue(defs[f].type, val[req[p].id][f])]_vars
=============================================================================
