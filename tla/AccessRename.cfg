\* A rename to a path of two components, by the library's own user.
SPECIFICATION Spec
CONSTANTS
  Names = {"a", "b"}
  MaxObjects = 2
  MaxPath = 2
  MaxTarget = 2
  MovesDirs = FALSE
  Clients = {"library"}
  MaxInodes = 1
PROPERTY
  FilesGoWhereAsked
CHECK_DEADLOCK FALSE
