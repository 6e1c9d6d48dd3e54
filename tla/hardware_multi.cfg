\* Is a machine with two devices detected?
SPECIFICATION Spec
CONSTANTS
  Entries <- MCEntries
  Memory = 8
  Commands <- MCCommands
  Devices <- ManyDevices
  Configs = {}
  Dense = {1}
INVARIANTS MachineDetected
