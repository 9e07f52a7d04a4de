SPECIFICATION FairSpec
CONSTANTS
    Streams = {s1}
    Main = Main
    Analysis = Analysis
    Nobody = Nobody
    QueueLimit = 1
    MaxRevision = 1
CHECK_DEADLOCK FALSE
PROPERTIES
    SubscriptionServed
