\* A plugin contributes the name of the active custom profile.
SPECIFICATION Spec
CONSTANTS
  Managers = {m1, m2}
  Exclusive = TRUE
  Ids = {"p", "q"}
  Maxima = {"low"}
  Catalogs <- MCFewCatalogs
INVARIANTS
  ActiveCanBeRetired
