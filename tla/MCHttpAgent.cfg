SPECIFICATION Spec
CONSTANTS
    MaxRequests = 3
    Cases <- MCCases
INVARIANTS TypeOK OneUser Accounted WorkConserving 
PROPERTY Settles
CHECK_DEADLOCK FALSE
