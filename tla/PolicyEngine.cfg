SPECIFICATION Spec
CONSTANTS
    t1 = t1
    Tasks = {t1}
INVARIANT TypeOK
PROPERTY EscalationIsMonotone
