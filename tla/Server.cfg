CONSTANTS
    c1 = c1
    c2 = c2
    Client <- One
    Main = Main
    Recorder = Recorder
    Encoders = {0, 1}
    MaxCommands = 1
    MaxInterrupts = 1
SPECIFICATION Spec
CHECK_DEADLOCK FALSE
INVARIANTS TypeOK KillHasCause EndsClean ForgottenIsReaped
PROPERTIES InterruptEnds EncoderEndCleans RequestEnds
