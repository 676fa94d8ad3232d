SPECIFICATION Spec
CONSTANTS
  Code <- PlayCode
  Frm <- PlayFrm
  Local <- PlayLocal
  Names <- PlayNames
  InitFrm <- PlayInit
  Admits <- PlayAdmits
  EntryAdmits <- NotStopped
  Exec <- PlayExec
  NoArg = "none"
  Values = {0, 1}
  EntryArgs = {"stopped", "c"}
  Ctx = {"c"}
  Synthetic = {8}
  NoHandle = NoHandle
  Handles = {h1, h2}
  Builds = {TRUE, FALSE}
INVARIANTS NoUnboundRead IndexIsResumptionPoint SwitchInRange
PROPERTIES ImplementsSource ImplementsCalls AdmittedActRuns ActivationReturns
CHECK_DEADLOCK FALSE
