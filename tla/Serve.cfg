SPECIFICATION FairSpec
CONSTANTS
    Daemon = {d1, d2}
    Client = {c1, c2}
    Mode = {"systemd", "path"}
    MaxStops = 3
    MaxStarts = 3
INVARIANTS ServingMeansReachable
PROPERTIES SocketSurvives QueueServed StaleFileHarmless
