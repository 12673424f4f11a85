SPECIFICATION Spec
CONSTANTS
  Themes = {{"for to", "if", "exit", "continue"}, {"while", "for to", "continue"}}
  MaxStmts = 3
  Avoided = {"dead code", "jump ends loop", "continue REPEAT", "stopped DO", "ELSEIF", "nested AND/OR", "nested temporary"}
INVARIANT
  FlowAgrees
CHECK_DEADLOCK FALSE
