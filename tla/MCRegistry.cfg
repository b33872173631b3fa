SPECIFICATION SceneSpec
CONSTANTS
    w1 = w1
    w2 = w2
    a = a
    b = b
    r1 = r1
    r2 = r2
    hit = hit
    miss = miss
    e1 = e1
    WS = {w1, w2}
    Id = {a, b}
    Relay = {r1, r2}
    Filter = {hit, miss}
    Request <- MCRequest
    Cap = 3
    Room <- MCRoom
    Event = {e1}
    Match <- MCMatch
    Prevented <- MCNoneStopped
    Broadcasts = 1
INVARIANTS
    RegistryConsistent
    QuietIsExact
    OnlySeenSockets
PROPERTIES
    ImplementsSubscriptions
