SPECIFICATION Spec
CONSTANT ParamOrder <- SortedParams
INVARIANTS
  EditUnchanged
  ViewsTrue
  FormsCoherent
  PackagesUnderstood
  AccessSound
