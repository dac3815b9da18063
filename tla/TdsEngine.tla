------------------------------ MODULE TdsEngine ------------------------------
(***************************************************************************)
(* The engine of pipelines/common that decides through which door a record *)
(* leaves: definitions of records (tds.py), mapping rules (mapping.py) and *)
(* the router (engine.py).                                                 *)
(*                                                                         *)
(* Data is abstracted to what the engine tells apart.  A cell is           *)
(*    "ok"     a value that passes every stage                             *)
(*    "blank"  empty, or spaces        "null"  JSON null                   *)
(*    "junk"   not of a type other than string                             *)
(*    "odd"    of its type, but outside the enumeration and the schema     *)
(*    "huge"   a number with more digits than the decimal context holds    *)
(* and None, a Python None, is what a blank becomes.                       *)
(***************************************************************************)
EXTENDS Naturals, Sequences, FiniteSets, FiniteSetsExt

CONSTANT None

Cells == {"ok", "blank", "null", "junk", "odd", "huge"}
Types == {"string", "int", "decimal", "date", "json"}

ParseReasons == {"PARSE_SHORT_RECORD", "PARSE_MISSING_FIELD", "PARSE_BAD_NUMERIC",
                 "PARSE_BAD_DATE", "PARSE_INVALID_JSON", "PARSE_MISSING_JSON_PATH",
                 "PARSE_BAD_COLUMN_COUNT"}
MapReasons == {"MAP_MISSING_REQUIRED", "MAP_UNMAPPED_ENUM_VALUE", "MAP_TYPE_ERROR"}
SchemaReasons == {"SCHEMA_INVALID"}
Reasons == ParseReasons \cup MapReasons \cup SchemaReasons

(* An exception that is not a RecordError: no handler of the engine knows  *)
(* it, and it leaves through neither door.                                 *)
Uncaught == "uncaught"
Errors == Reasons \cup {Uncaught}

ASSUME NoneIsNoValue == None \notin Errors \cup Cells

StageOf(reason) ==
    IF reason \in ParseReasons THEN "parse"
    ELSE IF reason \in MapReasons THEN "map" ELSE "schema"

(* The first error of a sequence of results, or None.                      *)
FirstError(results) ==
    LET failed == {i \in DOMAIN results : results[i] \in Errors}
    IN  IF failed = {} THEN None ELSE results[Min(failed)]

(* A dict, from its names and its values: a later one replaces an earlier. *)
Fields(names, results) == [n \in {names[i] : i \in DOMAIN names} |->
                              results[Max({i \in DOMAIN names : names[i] = n})]]

-----------------------------------------------------------------------------
(* Definitions.  A definition is a sequence of directives:                 *)
(*    [head |-> "record", name]   [head |-> "layout", kind, header]        *)
(*    [head |-> "field", name, at, col, type, scale, required]             *)
(* where at is "offset", "col", "path", "none" or, for a field that carries *)
(* coordinates of two kinds, "mixed".                                      *)

(* The record that starts at directive i, up to the next one.              *)
RecordAt(def, i) ==
    LET end == Max({j \in DOMAIN def : \A k \in (i + 1)..j : def[k].head # "record"})
        body == SubSeq(def, i + 1, end)
        layouts == {j \in DOMAIN body :
                      /\ body[j].head = "layout"
                      /\ \A k \in (j + 1)..Len(body) :
                            ~(body[k].head = "layout" /\ body[k].kind = body[j].kind)}
    IN  [name |-> def[i].name,
         layouts |-> {body[j] : j \in layouts},
         fields |-> SelectSeq(body, LAMBDA d : d.head = "field")]

RecordStarts(def) == {i \in DOMAIN def : def[i].head = "record"}

(* One definition is one format: a json layout stands alone and addresses  *)
(* every field by path; the other layouts address none by path.            *)
Homogeneous(rec) ==
    LET isJson == \E l \in rec.layouts : l.kind = "json"
    IN  rec.fields # <<>> =>
            /\ isJson => Cardinality({l.kind : l \in rec.layouts}) = 1
            /\ \A i \in DOMAIN rec.fields :
                  rec.fields[i].at \in (IF isJson THEN {"path"} ELSE {"offset", "col"})

ParsesTds(def) ==
    /\ RecordStarts(def) # {}
    /\ \A j \in DOMAIN def :
          /\ def[j].head \in {"record", "layout", "field"}
          /\ \E i \in RecordStarts(def) : i <= j
    /\ \A i \in RecordStarts(def) : Homogeneous(RecordAt(def, i))

(* The record of a name: a later one replaces an earlier one.              *)
TdsRecord(def, name) ==
    RecordAt(def, Max({i \in RecordStarts(def) : def[i].name = name}))

Defines(def, name) == \E i \in RecordStarts(def) : def[i].name = name

-----------------------------------------------------------------------------
(* Contracts.  A contract is a mapping file and its two definitions:       *)
(*    [source, record, layout, target, targetRecord, rules, aliases]       *)
(* rules: <<[target, transform, from]>>; aliases: the source fields that   *)
(* the curated table has a column for.                                     *)

Transforms == {"passthrough", "trim", "upper", "lower", "to_iso_date", "to_decimal",
               "map_enum", "passthrough_json", "const", "concat",
               "strip_trailing_spaces", "strip_leading_zeros"}

(* load_mapping and the constructors of the engine and its parser: a bad   *)
(* contract fails here, before a record is read.                           *)
Loads(c) ==
    /\ ParsesTds(c.target) /\ ParsesTds(c.source)
    /\ \A i \in DOMAIN c.rules : c.rules[i].transform \in Transforms
    /\ Defines(c.source, c.record) /\ Defines(c.target, c.targetRecord)
    /\ \E l \in TdsRecord(c.source, c.record).layouts : l.kind = c.layout

NamesOf(fields) == {fields[i].name : i \in DOMAIN fields}

(* What the engine keeps of a contract.                                    *)
LoadMapping(c) ==
    IF ~Loads(c) THEN None
    ELSE LET source == TdsRecord(c.source, c.record)
             targets == TdsRecord(c.target, c.targetRecord).fields
         IN  [layout |-> CHOOSE l \in source.layouts : l.kind = c.layout,
              fields |-> source.fields,
              targets |-> NamesOf(SelectSeq(targets, LAMBDA f : f.at = "path")),
              required |-> NamesOf(SelectSeq(targets, LAMBDA f : f.required)),
              rules |-> c.rules,
              aliases |-> c.aliases]

-----------------------------------------------------------------------------
(* Parsing.  A line is [form, id, cells]: its form is "record", "header",  *)
(* "blank", "nul" or "broken" (a document that is not JSON); id is the     *)
(* text that the key fields hold.                                          *)

IsBlank(line) == line.form = "blank"
IsHeader(m, line) == m.layout.header /\ m.layout.kind = "csv" /\ line.form = "header"

(* The declared type.  A number too long for the decimal context gets past *)
(* Decimal() and raises in quantize(), where no handler is.                *)
Coerce(f, cell) ==
    CASE f.type = "json" -> IF cell = "null" THEN None ELSE cell
      [] f.type # "json" /\ cell \in {"blank", "null"} -> None
      [] f.type = "string" /\ cell \notin {"blank", "null"} -> cell
      [] f.type \in {"int", "decimal"} /\ cell = "junk" -> "PARSE_BAD_NUMERIC"
      [] f.type = "date" /\ cell \in {"junk", "huge"} -> "PARSE_BAD_DATE"
      [] f.type = "decimal" /\ cell = "huge" /\ f.scale # 0 -> Uncaught
      [] f.type \notin Types /\ cell \notin {"blank", "null"} -> Uncaught
      [] OTHER -> cell

ParseDatField(layout, f, line) ==
    LET value == Coerce(f, line.cells[f.col])
    IN  CASE f.at # (IF layout = "fixed" THEN "offset" ELSE "col") -> Uncaught
          [] f.at = "col" /\ f.col > Len(line.cells) -> "PARSE_BAD_COLUMN_COUNT"
          [] OTHER -> IF value = None /\ f.required THEN "PARSE_MISSING_FIELD" ELSE value

ParseJsonField(f, line) ==
    IF f.col > Len(line.cells)
    THEN IF f.required THEN "PARSE_MISSING_JSON_PATH" ELSE None
    ELSE Coerce(f, line.cells[f.col])

(* What stops the whole line before any field is read.                     *)
LineError(m, line) ==
    CASE m.layout.kind = "fixed" /\ Len(line.cells) < Len(m.fields) ->
            "PARSE_SHORT_RECORD"
      [] m.layout.kind = "json" /\ line.form # "record" -> "PARSE_INVALID_JSON"
      [] OTHER -> None

ParsedFields(m, line) ==
    LET fields == m.fields
    IN  [i \in DOMAIN fields |->
            IF m.layout.kind = "json" THEN ParseJsonField(fields[i], line)
                                 ELSE ParseDatField(m.layout.kind, fields[i], line)]

(* [error, fields]: the fields by name when there is no error.             *)
ParseLine(m, line) ==
    LET results == ParsedFields(m, line)
        error == IF LineError(m, line) # None THEN LineError(m, line)
                                              ELSE FirstError(results)
        names == [i \in DOMAIN results |-> m.fields[i].name]
    IN  [error |-> error,
         fields |-> IF error = None THEN Fields(names, results) ELSE None]

-----------------------------------------------------------------------------
(* Mapping and validation.                                                 *)

Get(fields, name) == IF name \in DOMAIN fields THEN fields[name] ELSE None

Provenance == {"runId", "sourceKey", "dedupKey"}

Transform(rule, value) ==
    CASE rule.transform \in {"const", "concat"} -> "ok"
      [] rule.transform \notin {"const", "concat"} /\ rule.from = None -> "MAP_TYPE_ERROR"
      [] rule.transform = "map_enum" /\ value \notin {None, "ok"} -> "MAP_UNMAPPED_ENUM_VALUE"
      [] rule.transform = "to_decimal" /\ value \in {"junk", "blank"} -> "MAP_TYPE_ERROR"
      [] rule.transform = "to_decimal" /\ value = "huge" -> Uncaught
      [] OTHER -> value

ApplyRule(m, rule, fields) ==
    LET value == Transform(rule, Get(fields, rule.from))
    IN  IF value \in Errors \/ rule.target \in m.targets THEN value
                                                              ELSE "MAP_TYPE_ERROR"

(* [error, doc]: the document has no key for an absent optional value.     *)
MapRecord(m, fields) ==
    LET results == [i \in DOMAIN m.rules |-> ApplyRule(m, m.rules[i], fields)]
        names == [i \in DOMAIN m.rules |-> m.rules[i].target]
        doc == IF FirstError(results) = None THEN Fields(names, results) ELSE <<>>
        present == {n \in DOMAIN doc : doc[n] # None} \cup Provenance
        missing == (m.required \cap m.targets) \ present
        error == IF FirstError(results) # None THEN FirstError(results)
                 ELSE IF ~(Provenance \subseteq m.targets) THEN Uncaught
                 ELSE IF missing # {} THEN "MAP_MISSING_REQUIRED" ELSE None
    IN  [error |-> error, doc |-> doc]

(* The schema of the target: every value is of its enumeration or pattern. *)
Validates(doc) == \A n \in DOMAIN doc : doc[n] \in {None, "ok"}

MapAndValidate(m, fields) ==
    LET mapped == MapRecord(m, fields)
    IN  IF mapped.error # None THEN mapped.error
        ELSE IF Validates(mapped.doc) THEN None ELSE "SCHEMA_INVALID"

-----------------------------------------------------------------------------
(* The two doors.                                                          *)

Doors == {"written", "rejected"}

(* A record that does not parse has no source key.                         *)
Outcome(line, reason) ==
    [door |-> IF reason = None THEN "written" ELSE "rejected",
     line |-> line, reason |-> reason,
     key |-> IF reason \in ParseReasons THEN None ELSE line.id]

(* route_intake: parse, and no more.                                       *)
RouteIntake(m, line) == Outcome(line, ParseLine(m, line).error)

(* Mutant: a router that stops after the parse.                            *)
Route_ParseOnly(m, line) == RouteIntake(m, line)

(* RecordRouter.route: parse, map and schema in one pass.                  *)
Route(m, line) ==
    IF RouteIntake(m, line).reason # None THEN RouteIntake(m, line)
    ELSE Outcome(line, MapAndValidate(m, ParseLine(m, line).fields))

(* A row of account_src when it has come through Dataform and enrichment:  *)
(* the columns the contract names, and what the enrichment has added.      *)
CuratedRowToFields(m, fields, branch) ==
    [n \in m.aliases |-> IF n = "BRANCH_NAME" THEN branch ELSE Get(fields, n)]

(* MapAndValidateFn on that row, in the JSON producer.                     *)
MapCurated(m, line, branch) ==
    Outcome(line, MapAndValidate(m, CuratedRowToFields(m, ParseLine(m, line).fields, branch)))

(* A contract whose rules see the same record in both: each reads a column *)
(* of the curated table, by the name that it has there, and the branch,    *)
(* which the enrichment adds and no source has, fills an optional value.   *)
ReadsByAlias(m) ==
    LET fields == {m.fields[i] : i \in DOMAIN m.fields}
        rules == {m.rules[i] : i \in DOMAIN m.rules}
    IN  /\ m.fields \in Seq(fields) /\ m.rules \in Seq(rules)
        /\ \A f \in fields :
              /\ f.name # "BRANCH_NAME"
              /\ f.col \in Nat \ {0} /\ (m.layout.kind = "fixed" => f.col <= Len(m.fields))
        /\ \A rule \in rules :
              /\ rule.transform \in {"const", "concat"} \/ rule.from \in m.aliases \ {None}
              /\ rule.from = "BRANCH_NAME" => rule.target \notin m.required

(* A rejected record is named by its source key, or by its own content.    *)
LineageName(outcome) == IF outcome.key = None THEN outcome.line ELSE outcome.key
=============================================================================
