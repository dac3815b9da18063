----------------------------- MODULE MCFileLane -----------------------------
(***************************************************************************)
(* Small instances of FileLane.  The contracts keep one field of each kind *)
(* of project1's: a key, a date, a decimal, an enumerated status and the   *)
(* branch that the enrichment adds; the extracts are those of the parser's *)
(* and the engine's cases, in every door and at the boundaries of a batch. *)
(***************************************************************************)
EXTENDS FileLane

Line(form, id, cells) == [form |-> form, id |-> id, cells |-> cells]
Record(id, cells) == Line("record", id, cells)

MCBlank == Line("blank", "", <<"blank", "blank", "blank", "blank">>)
Header == Line("header", "ACCT_ID", <<"ok", "junk", "junk", "odd">>)
Nul == Line("nul", "n", <<"ok", "ok", "ok", "ok">>)
Good(id) == Record(id, <<"ok", "ok", "ok", "ok">>)
Short == Line("broken", "s", <<"ok", "ok">>)
NoKey == Record("", <<"blank", "ok", "ok", "ok">>)
NoAmount == Record("m", <<"ok", "ok", "junk", "ok">>)
OddStatus == Record("o", <<"ok", "ok", "ok", "odd">>)
Huge == Record("h", <<"ok", "ok", "huge", "ok">>)

Field(name, at, col, type, required) ==
    [head |-> "field", name |-> name, at |-> at, col |-> col, type |-> type,
     scale |-> IF type = "decimal" THEN 2 ELSE 0, required |-> required]

Source(kind, at) ==
    <<[head |-> "record", name |-> "ACCOUNT"],
      [head |-> "layout", kind |-> kind, header |-> kind = "csv"],
      Field("ACCT_ID", at, 1, "string", TRUE), Field("OPEN_DATE", at, 2, "date", TRUE),
      Field("BALANCE", at, 3, IF kind = "json" THEN "string" ELSE "decimal", TRUE),
      Field("STATUS", at, 4, "string", kind # "json")>>

Target ==
    <<[head |-> "record", name |-> "TARGET"],
      [head |-> "layout", kind |-> "json", header |-> FALSE],
      Field("accountId", "path", 1, "string", TRUE), Field("openedOn", "path", 2, "date", TRUE),
      Field("balanceAmount", "path", 3, "decimal", TRUE), Field("status", "path", 4, "string", TRUE),
      Field("branchName", "path", 5, "string", FALSE), Field("runId", "path", 6, "string", TRUE),
      Field("sourceKey", "path", 7, "string", TRUE), Field("dedupKey", "path", 8, "string", TRUE)>>

Rule(target, transform, from) == [target |-> target, transform |-> transform, from |-> from]

Contract(source, layout) ==
    [source |-> source, record |-> "ACCOUNT", layout |-> layout,
     target |-> Target, targetRecord |-> "TARGET",
     rules |-> <<Rule("accountId", "trim", "ACCT_ID"), Rule("openedOn", "to_iso_date", "OPEN_DATE"),
                 Rule("balanceAmount", "to_decimal", "BALANCE"), Rule("status", "map_enum", "STATUS"),
                 Rule("branchName", "passthrough", "BRANCH_NAME")>>,
     aliases |-> {"ACCT_ID", "OPEN_DATE", "BALANCE", "STATUS", "BRANCH_NAME"}]

Csv == Contract(Source("csv", "col"), "csv")
Fixed == Contract(Source("fixed", "offset"), "fixed")
Json == Contract(Source("json", "path"), "json")
\* A definition that mixes the two addressings is refused before the run.
Mixed == Contract(Append(Source("json", "path"), Field("SEGMENT", "col", 5, "string", FALSE)), "json")

MCContracts == {Csv, Fixed, Json, Mixed}
MCCsv == {Csv}

\* Nothing; every door and a full batch with rejects after it; the header
\* again; and the line that no handler knows.
MCSources ==
    {<<>>,
     <<Header, Good("x"), Nul, OddStatus, MCBlank, NoKey, Good("y"), Short>>,
     <<Header, Good("z"), Header>>,
     <<Header, NoAmount, Huge>>}

\* Those that load are contracts whose rules see the same record in both paths.
ASSUME ContractsReadByAlias ==
    \A c \in MCContracts : LoadMapping(c) # None => ReadsByAlias(LoadMapping(c))
=============================================================================
