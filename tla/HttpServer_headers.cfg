CONSTANTS
  WebApi = {TRUE, FALSE}
  file = file
  other = other
  Nothing = nothing
  AnyRest = anyrest
  Names = {nothing, anyrest, file, other}
  Files = {file}
  Requests <- SomeRequests
  Routes <- SomeRoutes
  MaxRoutes = 2
  MaxLines = 3
  MaxLeft = 1
SPECIFICATION Spec
INVARIANT HeadersCount
CHECK_DEADLOCK FALSE
