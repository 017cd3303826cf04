\* A run of the installer on what earlier ones left, killed anywhere; two refused system calls.
SPECIFICATION Spec
CONSTANTS
    MaxAttempts = 2
    MaxFaults = 2
    Bridge = Bridge
    NativeHelper = NativeHelper
    Tools = {"Claude Code", "VS Code", "JetBrains IDE"}
    Settings = "settings.json"
    Siblings = {other}
    Ours = agenthub
    Missing = Missing
    Torn = Torn
    Installer = Installer
    Helper = Helper
    Browsers = {chrome, edge}
    Chrome = chrome
    InstallDir = InstallDir
    MaxRuns = 1
    MaxSaves = 1
    MaxRepairs = 1
CHECK_DEADLOCK FALSE
INVARIANTS BinarySurvives CleanUninstall
PROPERTIES EditsKeepOthers
