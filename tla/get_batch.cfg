\* SqlGetBatch: one command processor, two Gets over two keys of table T and
\* two fields, request versions in {1, 2}, and reloads of the table
\* metadata at any point.  The processor may stop for good on an empty
\* queue, and a panic ends the process, so deadlock is not an error.
CONSTANTS
  c1 = c1  c2 = c2  k1 = k1  k2 = k2
  Cmds <- MCCmds
  Keys <- MCKeys
  Fields <- MCFields
  TableOf <- MCTableOf
  Defs <- MCDefs
  IntText = {"0", "1"}
  Versions = {1, 2}
  NoVersion = NoVersion
  Nil = Nil
SPECIFICATION Spec
SYMMETRY MCSymmetry
CHECK_DEADLOCK FALSE
INVARIANTS TypeOK QueryCoversGets  MetaWellFormed
