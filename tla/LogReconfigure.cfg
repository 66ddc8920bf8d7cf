SPECIFICATION Spec
CONSTANTS
  Names = {"root", "system"}
  Root = "root"
  Documents <- MCDocuments
  Setters = {s1, s2}
  Writers = {w}
  MaxLevel = 2
  Patterns = {"default", "short", "long", "bad"}
  Spelling <- MCSpelling
  Default = "default"
  Empty = ""
  Letters = {"m", "x"}
  FormatItems = {"m"}
  Others = {"-"}
  MaxLength = 6
  Stdout = "stdout"
  Files = {"file"}
SYMMETRY Interchangeable
INVARIANTS
  FormatsExact
  FormatterPresent
  ConfigApplied
  FatalReaches
