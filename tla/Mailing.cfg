CONSTANTS
  reset = reset
  verify = verify
  Mails <- TwoMails
  Resets <- OneReset
  MaxTopic = 2
  MaxAttempts = 2
  MaxStops = 2
SPECIFICATION FairMailingSpec
INVARIANTS MailingTypeOK OkIsPublished RepeatsNeedKills OneLostPerStop
PROPERTIES EveryMailIsTaken IsDelivery
CHECK_DEADLOCK FALSE
