\* Two clients that go on adding and checking one book, one of which may delete
\* it as well; two check processes; fair servers and expiry.
CONSTANTS
    Call = {c1, c2}
    Adder = {a1}
    Checker = {s1, s2}
    Server = {a1, s1, s2}
    Key = {b1}
    ModelCall = {c2}
    Again = {c1, c2}
    Row = {p1, p2}
    None = None
    NotFound = NotFound
    Failed = Failed
    Ok = Ok
SPECIFICATION FairBookSpec
INVARIANTS
    FoundIsStored
    InsertedOnce
PROPERTIES
    BecomesVisible
    ServerFinishes
