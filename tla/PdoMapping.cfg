SPECIFICATION Spec
CONSTANTS
    Devices <- MCDevices
INVARIANTS
    LookupIsScoped
    MappedAddressesAreTransferable
    RejectionIsJustified
    DocumentationMatchesMapping
CHECK_DEADLOCK FALSE
