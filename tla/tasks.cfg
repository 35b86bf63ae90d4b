\* One task of an owner that is deleted: two crashes, two faults, a dropped call.
SPECIFICATION FairSpec
CONSTANTS
  Tasks = {t1}
  Owners = {o}
  OwnerOf <- OneOwner
  MaxActive = 1
  MaxCrashes = 2
  MaxFaults = 2
  MaxCancels = 1
  None = None
INVARIANTS TypeOK EndedIsGone RunningIsFindable
PROPERTIES StopOwnsItsRow StopSettles GoneIsNoticed DeletionSettles
CHECK_DEADLOCK FALSE
