SPECIFICATION Spec
CONSTANTS
  Harts = {h1, h2}
  Configs <- MCConfigs
  Accesses <- MCAccesses
INVARIANTS TypeOK ReservationUntouched
PROPERTY WaiterWoken
