SPECIFICATION SpecFields
CONSTANTS
    Field <- FieldGiven
    Texts <- TextsGiven
    Numbers = {1, 2}
    Seconds = {1, 2}
    Zones <- ZonesGiven
    UNSET = UNSET
    NoValue = NoValue
    MaxElements = 2
INVARIANT EmptyTextGiven
CHECK_DEADLOCK FALSE
