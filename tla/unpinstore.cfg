\* Crashes at any step, disk errors in any save, starts that cannot read a file.
SPECIFICATION StoreSpec
CONSTANTS
  m = m
  s = s
  StoreCIDs = {m, s}
  Groups <- MCGroups
INVARIANTS FileFollowsMemory AnsweredHeldUnhit
PROPERTIES ImplementsMarkStore TornForGood
