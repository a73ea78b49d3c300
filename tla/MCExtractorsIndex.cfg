SPECIFICATION Spec
CONSTANTS
    Programs <- TSImporting
INVARIANT
    IndexImportsReach
CHECK_DEADLOCK FALSE
