SPECIFICATION Spec
CONSTANTS
    Bodies <- MCBodies
    Limits = {6}
    MaxLength = 1
    Period = 6
    LongLength = 8
PROPERTY
    ParagraphsFirst
