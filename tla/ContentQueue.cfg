CONSTANTS
  a = a  b = b  NoItem = NoItem
  w1 = w1  w2 = w2
  Item <- Items
  FirstBacklog <- InBacklog
  FirstDrafted <- InDrafted
  Worker <- Workers
  MaxDay = 1
  MaxText = 1
  MaxActs = 3
  Window = 1
  AutoDraft = TRUE
  AutoPublish = TRUE
SYMMETRY Symmetry
SPECIFICATION Spec
INVARIANTS TypeOK ItemOnce PostedIsPublic
PROPERTIES EditsSurvive ImplementsItemBoard
CHECK_DEADLOCK FALSE
