SPECIFICATION Spec
CONSTANTS
  Code <- TwinsCode
  Frm <- TwinsFrm
  Local = {}
  Names <- TwinsNames
  InitFrm <- TwinsInit
  Admits <- TwinsAdmits
  EntryAdmits <- Anything
  Exec <- TwinsExec
  NoArg = "none"
  Values = {0, 1}
  EntryArgs = {}
  Ctx = {}
  Synthetic = {3, 5}
  NoHandle = NoHandle
  Handles = {h1}
  Builds = {FALSE}
PROPERTIES AdmittedActRuns
