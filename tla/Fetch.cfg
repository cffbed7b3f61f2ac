SPECIFICATION Spec
CONSTANTS
  Invocations <- MCInvocations
  Fetchers <- MCFetchers
  Service <- MCService
  Posted <- MCPosted
  Arguments = {"7", "0"}
  Falsy = {"0"}
  Null = "null"
  Statuses = {200, 404, 503}
INVARIANTS
  TypeOK
  OutcomeKnown
  RefusalIsFinal
  SentAsAsked
PROPERTIES
  CallSettles
CHECK_DEADLOCK FALSE
