SPECIFICATION Spec
CONSTANTS
  Schemas <- SomeSchemas
  Literals <- SomeLiterals
  Fields = {"a", "b"}
  Width = 3
  MaxAdmitted = 1
INVARIANTS AdmittedConform HashesStayTrue HashesArePortable
CHECK_DEADLOCK FALSE
