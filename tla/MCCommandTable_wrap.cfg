SPECIFICATION Spec
CONSTANTS
  h1 = h1
  h2 = h2
  control = control
  query = query
  c1 = c1
  c2 = c2
  c3 = c3
  None = None
  Callers = {app}
  IoThreads = {io1}
  Commands = {c1, c2, c3}
  Handles = {h1, h2}
  Ids = {control, query}
  ControlId = control
  Request <- MCRequest
  StrayAcks <- MCStrayAcks
  MaxSeq = 2
INVARIANTS
  TypeOK
  OnceUnlessReused
  PendingUnlessReused
  AnswerIsAwaited
