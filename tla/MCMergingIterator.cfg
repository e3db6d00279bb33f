\* merger.cc: NewMergingIterator over 0 to 3 sources against a cursor over the union of keys.
CONSTANTS
  N = 3
  Keys <- MCKeys
  Targets <- MCTargets

SPECIFICATION Spec
INVARIANT ChildrenPositioned
PROPERTY MergingRefinesCursor
