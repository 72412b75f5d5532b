SPECIFICATION Spec
CONSTANTS
  h1 = h1
  h2 = h2
  b1 = b1
  b2 = b2
  NoHandle = NoHandle
  NoObject = NoObject
  NoFh = NoFh
  Handle = {h1}
  Body = {b1}
  Encoding <- OneDurable
  Ops = {"LOOKUP", "OPEN", "OPENATTR", "LOCK"}
  Task = {t1, t2}
  Retirer = {r1}
  MaxId = 2
  MaxFh = 2
SYMMETRY Symmetry
INVARIANTS NoBootMappingOutlivesRetirement NoStateOutlivesRetirement FencedHandlesUnreachable IssuedFilehandlesResolve RegistrationIsBijective OneNamePerLiveObject
CHECK_DEADLOCK FALSE
