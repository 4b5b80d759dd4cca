SPECIFICATION SetSpec
CONSTANTS
    FormFields = {scope, budget}
    TextFields = {budget}
    Inject = inject
    Space = space
    scope = scope
    budget = budget
    MaxExternal = 1
    MaxPresses = 2
    MaxFormEdits = 2
    MaxWriteFaults = 1
PROPERTY RefusedNotOverwritten
CHECK_DEADLOCK FALSE
