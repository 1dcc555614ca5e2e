SPECIFICATION Spec
CONSTANTS
    Plugins = {alpha, beta}
    Names = {core, home}
    Core = {core}
    MaxEnables = 2
    MaxHandlers = 1
    MaxCommands = 2
INVARIANTS
    EnabledIsPrefix
    AllOrNothing
    NoLeftovers
    CalledOnlyIfProven
    LiteralsAgree
    LeaseEndsWithCommand
