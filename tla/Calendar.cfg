SPECIFICATION Spec
CONSTANTS
    MonthLengths <- FebruaryMarch
    FirstMonth = 2
    FirstWeekday = 0
    Gap <- Skipped
    Horizon = 45
    MinGap = 15
    RawRules <- AnyRules
    RawDates <- AnyDates
    OldEntries <- Entries
    Nows <- Moments
    Previews = 3
    MaxEdits = 2
    MaxRules = 2
INVARIANTS
    TimesRight
    KeepsTimes
    Warned
PROPERTIES
    AsPreviewed
