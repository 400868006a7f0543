SPECIFICATION Spec
CONSTANTS
  Maps <- MCMaps
  Objects <- MCObjects
  MaxObjects <- MCMaxObjects
INVARIANT NeverPanics
INVARIANT NotesApart
PROPERTY FastNotesDoNotStack
PROPERTY NothingVanishes
CHECK_DEADLOCK FALSE
