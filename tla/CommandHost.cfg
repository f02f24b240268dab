\* One invocation after the other, two plugins, two profile names.
SPECIFICATION SpecHost
CONSTANTS
  Managers = {m}
  Exclusive = TRUE
  Names = {1, 2}
  Ids = {"p", "q"}
  Maxima = {"low", "none"}
  Catalogs <- MCCatalogs
  Environments <- MCEnvironments
  Invocations <- MCInvocations
  CoreResources = {"chunks"}
  HostCommands = {"extensions", "help", "inspect", "limits", "plugins"}
  Raises = Raises
INVARIANTS
  AcknowledgedPersists
  AlwaysDisables
  SelectionDecidesRuntime
  WorksUnderSelection
  ShowsThePolicy
  SelectionSurvives
PROPERTIES
  OnlyTrustedCodeRuns
  OnlyTheRequest
