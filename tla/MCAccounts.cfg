SPECIFICATION Spec
CONSTANTS
  Emails = {"e"}
  Profiles = {"g", "h"}
  ProfileMail <- MCProfileMail
  Vouched = {"g"}
  Slots = {s1, s2}
  MaxUsers = 2
  MaxLinks = 2
  None = None
  Mails = {e}
  Clients = {i, j}
  MailMax = 1
  ClientMax = 1
  Tries = {t1, t2}
  MaxEntries = 3
SYMMETRY Symmetry
INVARIANTS TypeOK SessionMeansProved SameProfileSameUser LinksRedeemedOnce MissesBounded
CHECK_DEADLOCK FALSE
