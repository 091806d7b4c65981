SPECIFICATION Spec
CONSTANTS
    Devices = {0, 5, 8, 14}
    MaxNested = 2
    MaxSetups = 2
INVARIANTS InServiceIsOwed VectorsTellTheLine
PROPERTY RequestsAreTaken
