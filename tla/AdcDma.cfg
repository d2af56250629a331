SPECIFICATION Spec
CONSTANTS
  Slots = 2
  MaxEdges = 4
INVARIANTS TypeOK BusyIsServed EdgesConserved WedgedOnlyByRace
PROPERTY ImplementsFifo
