SPECIFICATION FairSpec
CONSTANTS
    Ticker = {"BTC"}
    Caller = {c1, c2, c3}
    Kind = {"command", "add"}
    Main = Main
    Nobody = Nobody
    QueueCap = 1
    OutCap = 1
INVARIANTS
    NoSendOnClosed
    Drained
PROPERTIES
    EveryCallAnswered
