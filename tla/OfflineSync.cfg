SPECIFICATION Spec
CONSTANTS
    Tabs = {t1, t2}
    Assets = {gem}
    Sessions = {intake, attestor}
    SessionsIn <- MCSessionsIn
    Office = t1
    Editors = {intake}
    Attestors = {attestor}
    Seeder = intake
    Flights = {f1, f2}
    ChunkSize = 1
    MaxOps = 3
    Room <- MCRoom
    MaxVersion = 2
    Elsewhere = Elsewhere
    NoOne = NoOne
INVARIANTS
    UpdatesInOrder
    AppliedIsStored
    SeesWhatItReplaces
CONSTRAINT Small
SYMMETRY Interchangeable
CHECK_DEADLOCK FALSE
