SPECIFICATION CompilerSpec
CONSTANTS
  Themes <- MCThemes
  MaxStmts = 4
  Avoided = {"dead code", "jump ends loop", "continue FOR/TO", "continue REPEAT", "stopped DO", "ELSEIF", "nested AND/OR", "nested temporary"}
  NULL = NULL
  FunctionNames = {"f"}
  TypeNames = {"T"}
  VarNames = {"x", "y"}
  Sources = 2
  NamesReused = FALSE
  SourceTexts <- MCSourceTexts
  AvoidedTexts = {"THEN in block", "IF after THEN", "IF THEN last", "lower-case remend", "unclosed comment", "comment ends line", "after directive"}
  Literals = {"1"}
  Keywords = {"do", "loop", "while", "endwhile", "repeat", "until", "for", "to", "step", "next", "select", "case", "case default", "endcase", "endselect", "if", "elseif", "else", "endif", "exit", "break", "continue", "fallthrough", "exitfunction", "goto", "gosub", "goback", "local", "global", "as", "integer", "type", "endtype", "function", "endfunction"}
  TypeKeywords = {"integer"}
  ProgramsWritten <- MCProgramsWritten
  AvoidedSyntax = {"ELSEIF", "name after type", "names after type", "comma at end"}
  TargetConditions = {"Linux", "Debug", "x64"}
  Pieces <- MCPieces
  Granule = 4
  MaxText = 6
  Separator = "/"
  FieldTypes = {"Int8", "Int64", "StringObject", "SIMDVector128_4Float32"}
  MaxTypes = 2
  MaxFields = 2
  ProjectFiles = {"p.teproj", "q.teproj"}
  SourceModules <- MCSourceModules
  StopsAt <- MCStopsAt
INVARIANTS
  CodeSound
  FlowAgrees
  NamesResolved
  SourceAsWritten
  TypesAgree
  TextsAgree
  BuiltAsWritten
CHECK_DEADLOCK FALSE
