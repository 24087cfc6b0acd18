\* Overlapping runs, any send function, writes that fail as a whole.
CONSTANTS
    Worker = {r1, r2, r3}
    SendOutcome <- AnyOutcome
    WriteFault = {"lost", "late"}
    MaxFaults = 3
SPECIFICATION Spec
INVARIANTS
    DuplicatesAreRecorded
    AnswersAreTrue
    OutboxInv
PROPERTIES
    ImplementsSlot
