CONSTANTS
  P = 3
  MaxDamped = 2
  Problems <- Simulations
SPECIFICATION Spec
INVARIANT SimulationSolves
