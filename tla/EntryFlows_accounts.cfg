SPECIFICATION Spec
CONSTANTS
    e1 = e1
    e2 = e2
    e3 = e3
    Entries <- MCEntries
    Legacy <- MCLegacy
    Accounts = {alice, bob}
    Flows = {f1, f2}
    Scopes = {fulfillment}
    None = None
SYMMETRY Symmetry
INVARIANTS OneEntryPerAccount OptionsGranted NoForgottenDraft
PROPERTIES AccountKept
