SPECIFICATION Spec
CONSTANTS
  Ids = {m}
  Packages = {signed, plain, source}
  Signed = {signed}
  WithArgs = {plain}
  Manual = {source}
  Sources = {source}
  None = None
  Empty = Empty
  Torn = Torn
INVARIANTS TypeOK StrictLoadsSigned DoneMatchesStore
