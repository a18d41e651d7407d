SPECIFICATION Spec
CONSTANTS
  r1 = r1
  r2 = r2
  r3 = r3
  r4 = r4
  a1 = a1
  b1 = b1
  b2 = b2
  x1 = x1
  x2 = x2
  NoAccount = NoAccount
  NoVerification = NoVerification
  SuperAdminEmail = b1
  MaxTime = 2
  DurationInSeconds = 1
  Requests <- MCRequests
  Vendors <- MCVendors
  Admins <- MCAdmins
  Verifications <- MCVerifications
SYMMETRY Symmetry
PROPERTIES
  AlreadyVerifiedIsRefused
CHECK_DEADLOCK FALSE
