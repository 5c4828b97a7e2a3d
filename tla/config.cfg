CONSTANTS
    Configs <- SomeConfigs
    SvConfigs <- SomeSvConfigs
    SvTypes <- SomeTypes
    MaxCalls = 3
    MaxCrashes = 1
    MaxRefusals = 1
SPECIFICATION Spec
INVARIANTS LockServed SettingsServed AnswersFit
