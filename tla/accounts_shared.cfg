SPECIFICATION Spec
CONSTANTS
  Clients = {t1, t2}
  Shell = Shell
  Installer = Installer
  Names = {joe, mike, bad}
  Invalid = {bad}
  Given = {1}
  MaxRows = 3
  MaxEras = 2
SYMMETRY Symmetry
INVARIANT TypeOK OwnRowid UserBelongs RenewedIsNew MissingIsExplained
CHECK_DEADLOCK FALSE
