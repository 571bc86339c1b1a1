SPECIFICATION LogSpec
CONSTANT MaxLines = 3
INVARIANTS LinesAsLogged
CHECK_DEADLOCK FALSE
