\* Two feedback passes over an unchanged native object.
CONSTANTS
    MaxClock = 20
SPECIFICATION Spec
PROPERTY FeedbackIdempotent
