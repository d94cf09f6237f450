CONSTANTS
  Modes <- MCModes
  Rates <- MCRates
  Masks <- MCMasks
  WakeUpConfigs <- Configs
  DefaultConfig = DefaultConfig
  Levels = {0, 1, 2}
  Variants <- Plain
SPECIFICATION Spec
   
PROPERTIES CardWakes
