\* Operator and feedback passes over one VM; timestamps up to 20.
CONSTANTS
    MaxClock = 20
SPECIFICATION Spec
INVARIANT TypeOK
