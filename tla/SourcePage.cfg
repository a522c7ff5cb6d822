\* Two sources, three clicks and one edit: two saves that overlap and a calibration,
\* or a save, a publication and a visit.
SPECIFICATION Spec
CONSTANTS
  Sources = {s1, s2}
  Tables = {table}
  MaxClicks = 3
  MaxEdits = 1
  None = none
INVARIANTS
  CleanFormIsStored
PROPERTY EditsLostOnlyToAnOverlap
\* The visit may end.
SYMMETRY Symmetry
CHECK_DEADLOCK FALSE
