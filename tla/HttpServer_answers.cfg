CONSTANTS
  WebApi = {TRUE, FALSE}
  file = file
  other = other
  Nothing = nothing
  AnyRest = anyrest
  Names = {nothing, anyrest, file, other}
  Files = {file}
  Requests <- SomeRequests
  Routes <- SomeRoutes
  MaxRoutes = 2
  MaxLines = 4
  MaxLeft = 1
SPECIFICATION Spec
INVARIANTS TypeOK AnswersInOrder OnePerRead
CHECK_DEADLOCK FALSE
