SPECIFICATION FairSpec
CONSTANTS
    Ticker = {"BTC", "ETH"}
    Caller = {c1, c2}
    Kind = {"snapshot", "add"}
    Main = Main
    Nobody = Nobody
    QueueCap = 1
    OutCap = 1
INVARIANTS
    AddedIsServed
    ServedIsRegistered
PROPERTIES
    EveryCallAnswered
    ShutdownEnds
