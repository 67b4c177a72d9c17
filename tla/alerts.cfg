SPECIFICATION Spec
CONSTANTS
  Calls = {c1, c2}
  Transports = {"web-push", "fcm"}
  Members = {ann}
  MaxGuest = 2
  MaxAddress = 2
  MaxChanges = 2
  MaxLost = 1
  None = None
SYMMETRY MCAlike
INVARIANTS OffStaysOff EnablingIsUnderWay
PROPERTY ALookSettles
