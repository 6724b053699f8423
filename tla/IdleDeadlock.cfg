SPECIFICATION FairSpec
CONSTANTS
    Logins = {l1}
    None = None
    MaxDrops = 1
    MaxUpdates = 1
CHECK_DEADLOCK FALSE
PROPERTY MailsAreCollected
