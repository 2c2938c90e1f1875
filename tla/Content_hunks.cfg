CONSTANT Context = 1
SPECIFICATION Spec
INVARIANT StagesWhatIsSelected
CHECK_DEADLOCK FALSE
