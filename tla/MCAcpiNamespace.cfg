SPECIFICATION Spec
INVARIANTS TablesLoaded ServicesSound NamespaceSound
CHECK_DEADLOCK FALSE
