---------------------------- MODULE MCLogConfig ----------------------------
(***************************************************************************)
(* An instance of LogConfig for TLC: the root logger and one other, as in  *)
(* config/log.yml, and documents that add, change and remove definitions,  *)
(* with and without formatters of their own; some repeat a name, have an   *)
(* appender of an unknown type, or do not convert.                         *)
(***************************************************************************)
EXTENDS LogConfig, TLC

File(level, formatter) ==
  [type |-> "FileLogAppender", file |-> "file", level |-> level, formatter |-> formatter]

Std(level, formatter) ==
  [type |-> "StdoutLogAppender", file |-> Empty, level |-> level, formatter |-> formatter]

Unknown == [type |-> Empty, file |-> Empty, level |-> 0, formatter |-> Empty]

Node(name, level, formatter, appenders) ==
  [name |-> name, level |-> level, formatter |-> formatter, appenders |-> appenders]

TwoAppenders == Node("system", 2, "short", << File(1, "bad"), Unknown, Std(2, "long") >>)

OneAppender == Node("system", 1, Empty, << File(2, Empty) >>)

RootOnStdout == Node("root", 1, "long", << Std(1, Empty) >>)

RootInFile == Node("root", 2, "bad", << File(0, "short") >>)

MCSpelling ==
  [default |-> <<"%", "m", "-", "%", "m">>, short |-> <<"%", "m">>,
   long |-> <<"-", "%", "m", "{", "%", "x", "}", "%", "m">>, bad |-> <<"%", "m", "x">>]

MCDocuments ==
  { << TwoAppenders >>, << OneAppender, TwoAppenders >>, << RootOnStdout, TwoAppenders >>,
    << RootInFile >>, << Node(Empty, 1, Empty, << >>) >>,
    << Node("system", 1, Empty, << [File(1, Empty) EXCEPT !.file = Empty] >>) >> }

(* A definition whose pattern ends in "%%", as in "100%%" *)
PercentSpelling ==
  [default |-> <<"%", "m", "-", "%", "m">>, percent |-> <<"%", "m", "%", "%">>]

PercentDocuments == { << Node("system", 1, "percent", << Std(1, Empty) >>) >> }

Interchangeable == Permutations(Setters)

============================================================================
