\* Ten captured exchanges, two changes and one save; texts of at most four
\* characters are replaced in place.
SPECIFICATION Spec
CONSTANTS
    Documents <- Json
    Pretty <- Layouts
    Trees <- Syntax
    Media <- Languages
    DiffJson <- DiffJsonValue
    PatchAt <- PatchValue
    Enclosing <- NodesCovering
    MaxSpan = 4
    MinAnchor = 2
    MaxAnchor = 3
    Flows <- Captured
    Drafts <- Texts
    Fields <- Headers
    Statuses <- Codes
    OtherPath <- Elsewhere
    Uppercase = {"Text/HTML"}
    HasCommand = TRUE
    MaxEdits = 2
    MaxSaves = 1
INVARIANTS
    UnchangedRoundTrip
    HeadersReplayed
    BodyReplayed
CHECK_DEADLOCK FALSE
