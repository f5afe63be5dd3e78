CONSTANTS
  m = m
  n = n
  empty = empty
  foreign = foreign
  Mails <- MCMails
  Welcome <- MCWelcome
  Readable <- MCReadable
  Envelope <- MCEnvelope
  Channels <- MCChannels
  MaxTries = 2
  MaxReloads = 1
  MaxMishaps = 1
SPECIFICATION MailSpec
INVARIANTS
  AcceptedIsDelivered
  ReturnedIsRefused
CHECK_DEADLOCK FALSE
