\* One install over a settings.json that the user has edited.
SPECIFICATION SetupSpec
CONSTANTS
  Installers = {i1, i2}
  Configs <- OneConfig
  Entries = {theirs}
  Own = Own
  Missing = Missing
  Garbled = Garbled
  MaxUserEdits = 1
INVARIANT NeverClobbers
CHECK_DEADLOCK FALSE
