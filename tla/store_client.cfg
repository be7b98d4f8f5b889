SPECIFICATION Spec
CONSTANTS
  Statement = {s, bad}
  Malformed = {bad}
  Subscription = {x, y}
  Query = {q}
  MaxUpstreams = 2
  MaxErrors = 1
INVARIANTS
  UpstreamHasListeners
  ListenersHearAll
  AnswersAreTrue
CHECK_DEADLOCK FALSE
