\* A JSON patch that does not give the edited body, and the note that is written with it.
SPECIFICATION Spec
CONSTANTS
    Documents <- Json
    Pretty <- Layouts
    Trees <- Syntax
    Media <- Languages
    DiffJson <- DiffJsonValue
    PatchAt <- PatchValue
    Enclosing <- NodesCovering
    MaxSpan = 4
    MinAnchor = 2
    MaxAnchor = 3
    Flows <- Captured
    Drafts <- Texts
    Fields <- Headers
    Statuses <- Codes
    OtherPath <- Elsewhere
    Uppercase = {"Text/HTML"}
    HasCommand = FALSE
    MaxEdits = 1
    MaxSaves = 1
INVARIANT
    FallsBackToBody
CHECK_DEADLOCK FALSE
