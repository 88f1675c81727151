SPECIFICATION SpecTagged
CONSTANTS
    Groups <- GroupsTagged
    TagOf <- TagTagged
    Supers <- SupersTagged
    FieldType <- FieldTypeTagged
    Value <- ValueTagged
INVARIANT PhasesAgree
CHECK_DEADLOCK FALSE
