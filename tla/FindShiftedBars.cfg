CONSTANTS
  Presets = {"llama", "qwen"}
  Gpus = {"h100", "rtx4090"}
  Linked = {"h100"}
  DefaultGpu = "h100"
  SystemGpus = {"h100"}
  MaxPending = 2
  MaxInFlight = 2
  MAX_SLOTS = 3
  MaxSlotId = 3
  MaxRequests = 3
  MAX_GPUS = 3
  MaxGpuSlot = 4
  Catalogue <- MCCatalogue
  Figures <- MCFigures
  None = None
  MaxRows = 3
  MaxLoads = 2
  Servers = {"s1", "s2"}
  MaxReply = 2
CHECK_DEADLOCK FALSE
SPECIFICATION WebSpec
INVARIANT OneBarPerGpu
