SPECIFICATION FairSpec
CONSTANTS
    r1 = r1
    Request = {r1}
    MaxPolls = 3
INVARIANTS
    PollerInv
    QuietReplyIsOnePoll
PROPERTIES
    RequestAnswered
