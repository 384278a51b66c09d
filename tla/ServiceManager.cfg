CONSTANT None = None
SPECIFICATION Spec
INVARIANTS TypeOK InstallRollsBack ManagerInStep AtRestStaysDown StartTakes QuietUninstallIsComplete
