SPECIFICATION Spec
CHECK_DEADLOCK FALSE
CONSTANT Worlds <- MCWorlds
INVARIANT ImportsAreAnswered
INVARIANT NamesReachWhatIsMeant
INVARIANT NameErrorsAreTrue
