CONSTANTS
    TimerCount = 1
    MaxMeasurements = 2
    MaxOutstanding = 3
SPECIFICATION TimersSpec
INVARIANT
    NotReturnedAgain
