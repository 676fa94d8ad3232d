SPECIFICATION Spec
CONSTANTS
  Code <- ForgottenCode
  Frm = {}
  Local = {"total", "guess", "right"}
  Names <- ForgottenNames
  InitFrm <- NoFrm
  Admits <- AnyCall
  EntryAdmits <- Anything
  Exec <- AnySucc
  NoArg = "none"
  Values = {0}
  EntryArgs = {}
  Ctx = {}
  NoHandle = NoHandle
  Handles = {}
  Builds = {TRUE}
INVARIANTS ExactWhenDone ReportedExactly
PROPERTIES VerdictIsGiven
CHECK_DEADLOCK FALSE
