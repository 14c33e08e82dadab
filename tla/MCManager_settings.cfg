CONSTANTS
    Entry = {e1, e2, e3}
    OtherType = OtherType
SPECIFICATION Spec
INVARIANTS
    ServiceOK
    PlacesAgree
