\* Three slots are enough for a slot that is filled, one that is read and one
\* that waits between them; two laps put a wrap of the cursors in every run.
CONSTANTS
  Slots = 3
  Laps = 2
  Items = {a, b}
  Nothing = Nothing
  Torn = Torn
SPECIFICATION Spec
INVARIANTS
  CursorsInStep
  SlotExclusive
PROPERTY ImplementsFifo
