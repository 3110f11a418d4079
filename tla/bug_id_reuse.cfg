CONSTANTS
    c1 = c1  c2 = c2
    Cabins = {c1, c2}
    MaxID = 2
    Inspectors = {ins1}
    Certified = {ins1}
    Principals = {duty}
    Nobody = Nobody
    AckDeadline = 0
    None = None
    NoOne = NoOne
    NoAnomaly = NoAnomaly
    Standalone = Standalone
    NoReading = NoReading
    Fleet = {c1}
    Plans <- OneOrTwoCabins
    Levels = {1}
    Readings <- TwoReadings
    Bindings = {1}
    Clienteles <- AllClienteles
    MaxAttempts = 1
    MaxTime = 2
    MaxBoots = 2
    NoFile = NoFile
    Garbled = Garbled
    NoRequest = NoRequest
SPECIFICATION Spec
PROPERTY NewIDsUnused
