CONSTANTS
  p1 = p1  s1 = s1  a1 = a1  a2 = a2
  Pool <- MCPool
  Stream <- MCStream
  Array <- MCArray
  Windows <- MCWindows
SPECIFICATION MCSpec
INVARIANTS StoreTypeOK UpdateIsOnItsWay
PROPERTIES KnownIsStored RegisteredIsSubscribed
