SPECIFICATION Spec
CONSTANTS
    Home = home
    Dirs = {home, projects}
    Missing = missing
    Profiles = {winterm, gnome}
    Default = winterm
    MaxTabs = 3
    MaxCommands = 3
INVARIANT CdChangesDirectory
