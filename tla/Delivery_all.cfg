\* Two starts of the bot; observer, bot and broker stop at any point.
SPECIFICATION FairSpec
CONSTANTS
    MaxQueues = 2
    MaxTried = 5
INVARIANTS TypeOK NothingOverlooked
PROPERTIES InOrderAtMostOnce HandledEventually
