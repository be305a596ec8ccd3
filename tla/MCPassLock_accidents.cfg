CONSTANTS
    Passes = {tick, cli}
    Tickets = {t1, t2, t3}
    Nobody = Nobody
    Accidents = {"kill", "error"}
    MaxFaults = 2
SPECIFICATION FairSpec
INVARIANT OnePassAtATime SurplusIsAccidental
PROPERTY HashesKept EveryTicketSynced
