---------------------------- MODULE MCSqlGetBatch ----------------------------
(* Model values for SqlGetBatch: two Gets, two keys of table T, fields f1  *)
(* and f2, and the table_conf contents a reload may read.                  *)
EXTENDS SqlGetBatch, TLC

CONSTANTS c1, c2, k1, k2

MCCmds == {c1, c2}
MCKeys == {k1, k2}
MCFields == {"f1", "f2"}
MCTableOf == [k \in MCKeys |-> "T"]

\* table_conf contents: T with f1 and f2; T with the same fields of other
\* types (a float default "1") and a table U; and four lists createTableMetasByTableDef rejects (a repeated name, a
\* float default "0.5", an empty __conf__, an unknown type).  No list
\* keeps T but drops one of its fields (see README, 4.3).  A load cut short
\* (loadTableDef) adds T without U and the empty list, which has no T.
MCDefs ==
  { << [name |-> "T", fieldDef |-> << <<"f1", "int", "">>, <<"f2", "string", "x">> >>] >>,
    << [name |-> "T", fieldDef |-> << <<"f1", "float", "1">>, <<"f2", "blob", "">> >>],
       [name |-> "U", fieldDef |-> << <<"f2", "int", "1">> >>] >>,
    << [name |-> "T", fieldDef |-> << <<"f1", "int", "">>, <<"f1", "string", "">> >>] >>,
    << [name |-> "T", fieldDef |-> << <<"f2", "float", "0.5">> >>] >>,
    << [name |-> "T", fieldDef |-> << <<"">> >>] >>,
    << [name |-> "T", fieldDef |-> << <<"f1", "bool", "">>, <<"__key__", "string", "">> >>] >> }

\* Gets are interchangeable, and so are keys: neither is compared or ordered,
\* and every key belongs to T.
MCSymmetry == Permutations(MCCmds) \cup Permutations(MCKeys)
=============================================================================
