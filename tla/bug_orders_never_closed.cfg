CONSTANTS
    c1 = c1  c2 = c2
    Cabins = {c1}
    MaxID = 1
    Inspectors = {ins1}
    Certified = {ins1}
    Principals = {duty}
    Nobody = Nobody
    AckDeadline = 0
    None = None
    NoOne = NoOne
    NoAnomaly = NoAnomaly
    Standalone = Standalone
    NoReading = NoReading
    Fleet = {c1}
    Plans = {}
    Levels = {1}
    Readings <- TwoReadings
    Bindings = {1}
    Clienteles <- OrderClients
    MaxAttempts = 1
    MaxTime = 1
    MaxBoots = 1
    NoFile = NoFile
    Garbled = Garbled
    NoRequest = NoRequest
SPECIFICATION PersistentSpec
PROPERTY StartedOrdersClosed
