\* The runtime: a serial port, one operator whose requests come one after the other, batches
\* of two frames.
\* The simulated junction: three approaches; steps of one and of two units against a yellow
\* and an all-red of two.
SPECIFICATION MCSpec
CONSTANTS
  dashboard = dashboard
  Simulation = FALSE
  PortConfigured = TRUE
  Operators <- OneOperator
  BatchLimit = 2
  PhaseLimit = 3
  NumLanes = 3
  FullPce = 1
  FullQueue = 1
  Yellow = 2
  AllRed = 2
  MinGreen = 1
  MaxGreen = 2
  StepSizes <- OneOrTwo
  CycleCap = 2
INVARIANTS TypeOK AnnouncedOnce PauseDrains GreenIsWatched ClearanceKept
PROPERTIES PhasesAreAnnounced SimulationImplementsHead
