SPECIFICATION Spec
CONSTANTS
    Values = {0, 129}
    Sizes = {31, 32}
    MaxNonZero = 3
INVARIANTS
    SwapsReadMemory
    FieldsAreOnTheWire
    AnswersGoBack
PROPERTIES
    IdentifiersTellEndpointsApart
    SessionIsClientId
    PeersAreSenders
