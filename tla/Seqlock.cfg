SPECIFICATION Spec
CONSTANTS
    Readers = {console, plugin}
    FieldCount = 3
    MaxStores = 3
INVARIANT CoherentAndFresh
