\* Two positions, two handlers, at once or in turn.  In percent of a cost of 9
\* a move between 9 and 10 meets the limit, in percent of 10 it does not.
CONSTANTS
  h1 = h1
  h2 = h2
  r1 = r1
  r2 = r2
  Handlers = {h1, h2}
  RowIds = {r1, r2}
  Prices = {9, 10}
  Limit = 11
  Asked <- MCAsked
  MaxCalls = 2
  MaxFaults = 1
  NoRow = NoRow
SYMMETRY MCSymmetry
SPECIFICATION Spec
INVARIANT TypeOK
PROPERTIES ClosedIsFinal 
