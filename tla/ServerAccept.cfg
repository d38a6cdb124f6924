CONSTANTS
    c1 = c1
    c2 = c2
    Client <- Two
    Main = Main
    Recorder = Recorder
    Encoders = {1}
    MaxCommands = 1
    MaxInterrupts = 0
SPECIFICATION Spec
CHECK_DEADLOCK FALSE

PROPERTIES AcceptsAll
