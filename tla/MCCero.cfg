SPECIFICATION Spec
CONSTANT Texts <- MCTexts
CONSTANT Escaped <- MCEscaped
INVARIANT PrintsIds
INVARIANT Transparent
INVARIANT OwnBytes
INVARIANT ExitTells
PROPERTY Ends
CHECK_DEADLOCK FALSE
