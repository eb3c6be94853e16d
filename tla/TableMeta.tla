------------------------------ MODULE TableMeta ------------------------------
(***************************************************************************)
(* The SQL node's table metadata (src/sqlnode/dbmata.go): the rows of     *)
(* table_conf are parsed by createTableMetasByTableDef into one tableMeta  *)
(* per table, installed at start (initDBMeta) and swapped as a whole by    *)
(* reloadTableMeta through an atomic.Value.                                *)
(*                                                                         *)
(* A __conf__ string is represented by its structure: the sequence of its  *)
(* comma-separated entries, each the sequence of its ':'-separated parts,  *)
(* which is what strings.Split hands the parser.  A default value is       *)
(* represented by its Go type only.                                        *)
(***************************************************************************)
EXTENDS Integers, Sequences, FiniteSets, TLC

CONSTANTS
  Defs,       \* the contents table_conf can have
  IntText,    \* strings strconv.ParseInt(s, 10, 64) accepts
  Nil         \* nil

VARIABLE meta \* db_meta.tableMetas: table name -> tableMeta

\* keyFieldMeta / versionFieldMeta.
KeyFieldName     == "__key__"
VersionFieldName == "__version__"

\* fieldTypeName2Type and getFieldTypeByStr: an unknown name is invalid.
FieldTypeByStr(s) ==
  CASE s = "int"    -> "int"
    [] s = "float"  -> "float"
    [] s = "string" -> "string"
    [] s = "blob"   -> "blob"
    [] OTHER        -> "invalid"

\* fieldType2GetDefaultV: the Go type of the default, or Nil when parsing
\* fails.  A float default is parsed with ParseInt, so it yields an int64.
DefaultValue(t, s) ==
  CASE t = "int"    -> IF s = "" \/ s \in IntText THEN "int64" ELSE Nil
    [] t = "float"  -> IF s = "" THEN "float64"
                       ELSE IF s \in IntText THEN "int64" ELSE Nil
    [] t = "string" -> "string"
    [] t = "blob"   -> "[]byte"

\* Mutant of FieldsOf: a repeated field name is not rejected.
RECURSIVE FieldsOfNoRepeatCheck(_, _)
FieldsOfNoRepeatCheck(es, tm) ==
  IF es = <<>> THEN tm
  ELSE LET s == Head(es) IN
       IF \/ Len(s) # 3
          \/ s[1] \in {"", KeyFieldName, VersionFieldName}
          \/ FieldTypeByStr(s[2]) = "invalid"
          \/ DefaultValue(FieldTypeByStr(s[2]), s[3]) = Nil
       THEN Nil
       ELSE FieldsOfNoRepeatCheck(Tail(es),
              [fieldMetas |-> [f \in DOMAIN tm.fieldMetas \cup {s[1]} |->
                                 IF f = s[1]
                                 THEN [typ |-> FieldTypeByStr(s[2]),
                                       defaultV |-> DefaultValue(FieldTypeByStr(s[2]), s[3])]
                                 ELSE tm.fieldMetas[f]],
               allFieldNames |-> Append(tm.allFieldNames, s[1])])

\* The loop over one table's field entries: an entry must have three parts,
\* a name that is neither empty nor reserved nor repeated, a known type and
\* a default that parses; the first bad entry fails the whole definition
\* (nil and an error are returned).
RECURSIVE FieldsOf(_, _)
FieldsOf(es, tm) ==
  IF es = <<>> THEN tm
  ELSE LET s == Head(es) IN
       IF \/ Len(s) # 3
          \/ s[1] \in {"", KeyFieldName, VersionFieldName}
          \/ s[1] \in DOMAIN tm.fieldMetas
          \/ FieldTypeByStr(s[2]) = "invalid"
          \/ DefaultValue(FieldTypeByStr(s[2]), s[3]) = Nil
       THEN Nil
       ELSE FieldsOf(Tail(es),
              [fieldMetas |-> [f \in DOMAIN tm.fieldMetas \cup {s[1]} |->
                                 IF f = s[1]
                                 THEN [typ |-> FieldTypeByStr(s[2]),
                                       defaultV |-> DefaultValue(FieldTypeByStr(s[2]), s[3])]
                                 ELSE tm.fieldMetas[f]],
               allFieldNames |-> Append(tm.allFieldNames, s[1])])

\* A table's meta before its fields: only __key__ and __version__ listed.
EmptyTableMeta ==
  [fieldMetas |-> [f \in {} |-> Nil],
   allFieldNames |-> <<KeyFieldName, VersionFieldName>>]

\* createTableMetasByTableDef: every table of the list in turn (a later
\* table of the same name replaces an earlier one); any error fails the
\* whole list and nothing is returned.
RECURSIVE CreateTableMetas(_, _)
CreateTableMetas(def, tableMetas) ==
  IF def = <<>> THEN tableMetas
  ELSE LET t  == Head(def)
           tm == FieldsOf(t.fieldDef, EmptyTableMeta)
       IN IF Len(t.fieldDef) = 0 \/ tm = Nil THEN Nil
          ELSE CreateTableMetas(Tail(def),
                 [n \in DOMAIN tableMetas \cup {t.name} |->
                    IF n = t.name THEN tm ELSE tableMetas[n]])

CreateTableMetasByTableDef(def) == CreateTableMetas(def, [n \in {} |-> Nil])

\* loadTableDef: the rows of table_conf in order.  rows.Next stops early on
\* a read error and rows.Err() is never consulted (the err returned is the
\* one of rows.Scan), so any prefix of the rows comes back without error.
LoadTableDef(d) == {SubSeq(d, 1, n) : n \in 0..Len(d)}

\* The lists that load and parse: what initDBMeta can start with.
LoadableDefs == {l \in UNION {LoadTableDef(d) : d \in Defs} :
                   CreateTableMetasByTableDef(l) # Nil}

\* getTableMeta: nil for a table the installed map lacks.
GetTableMeta(m, table) == IF table \in DOMAIN m THEN m[table] ELSE Nil

\* checkFields: every listed field has a fieldMeta.
CheckFields(tm, fields) == fields \subseteq DOMAIN tm.fieldMetas

\* initDBMeta: the node starts only if the first load and parse succeed.
MetaInit == meta \in {CreateTableMetasByTableDef(d) : d \in LoadableDefs}

\* reloadTableMeta: loadTableDef returns a list, which is parsed and, if it
\* parses, stored with one setTableMetas; otherwise the old map stays and
\* ERR_OTHER is answered.  A failing open or query leaves the map as a list
\* that does not parse does.  The response is not modelled.
ReloadTableMeta ==
  \E d \in Defs : \E l \in LoadTableDef(d) :
    LET tms == CreateTableMetasByTableDef(l) IN
    meta' = IF tms = Nil THEN meta ELSE tms

-----------------------------------------------------------------------------
(* Properties                                                              *)

\* MetaWellFormed: what spec.md (TableMeta) requires of every installed
\* table, checked on the map createTableMetasByTableDef hands to
\* setTableMetas: the field list is __key__, __version__ and then each
\* field once, field names are unique and none is reserved, and every type
\* is one of the four.
MetaWellFormed ==
  \A n \in DOMAIN meta :
    LET tm    == meta[n]
        names == SubSeq(tm.allFieldNames, 3, Len(tm.allFieldNames))
    IN
    /\ SubSeq(tm.allFieldNames, 1, 2) = <<KeyFieldName, VersionFieldName>>
    /\ Len(names) = Cardinality(DOMAIN tm.fieldMetas)
    /\ \A i \in 1..Len(names) : names[i] \in DOMAIN tm.fieldMetas
    /\ \A f \in DOMAIN tm.fieldMetas :
         /\ f \notin {"", KeyFieldName, VersionFieldName}
         /\ tm.fieldMetas[f].typ \in {"int", "float", "string", "blob"}

=============================================================================
