SPECIFICATION Spec
CONSTANTS
  Names = {"root", "system"}
  Root = "root"
  Documents <- PercentDocuments
  Setters = {s1}
  Writers = {w}
  MaxLevel = 2
  Patterns = {"default", "percent"}
  Spelling <- PercentSpelling
  Default = "default"
  Empty = ""
  Letters = {"m", "x"}
  FormatItems = {"m"}
  Others = {"-"}
  MaxLength = 2
  Stdout = "stdout"
  Files = {"file"}
INVARIANTS
  DocumentedFormats
