SPECIFICATION Spec
CONSTANTS
  Calls = {c1, c2}
  Versions = {v1, v2}
  Names = {n1}
  Keys = {k1}
  Digests = {d1, d2}
  Messages = {m1, m2}
  None = None
  Kinds = {"publish", "transform", "point", "read"}
CHECK_DEADLOCK FALSE
SYMMETRY Symmetric
INVARIANTS
  PublishedIsReadable
  NoIntegrityError
  AnswersAreTrue
  RefHasAnOwner
  TempIsReleased
PROPERTIES
  ImplementsPublished
