----------------------------- MODULE LogConfig -----------------------------
(***************************************************************************)
(* Reconfiguration of the loggers.  Config::LoadFromYaml() calls setValue()*)
(* of the ConfigVar "logs" (wille/config.h); its only listener, installed  *)
(* by LogIniter (wille/log.cpp), brings the loggers from the old value to  *)
(* the new one while other threads log.  The listener runs under the read  *)
(* lock of the variable, and every call it makes on a logger is one step:  *)
(* each takes the mutex of that logger (setLevel() takes none).            *)
(*                                                                         *)
(* A document is the YAML sequence under "logs": nodes with a name, a      *)
(* level, a formatter and appenders, where Empty stands for what a node    *)
(* leaves out.  A value of the variable is a function from the names it    *)
(* defines to their LogDefines, as the set of LogDefines is keyed by name. *)
(* What getLogger() has not created yet is a logger in its initial state.  *)
(***************************************************************************)
EXTENDS LogFormatter

CONSTANTS
  Names,       \* logger names
  Root,        \* the name of the root logger
  Documents,   \* the documents that are loaded
  Setters,     \* threads that call setValue()
  Writers,     \* threads that log
  MaxLevel,    \* LogLevel::FATAL; UNKNOW is 0 and DEBUG is 1
  Patterns,    \* names of the format strings in the documents
  Spelling,    \* what each of them is
  Default,     \* the pattern that Logger::Logger() installs
  Empty,       \* the empty string, and the null LogFormatter::ptr
  Stdout,      \* the destination of a StdoutLogAppender
  Files,       \* the destinations of FileLogAppenders
  MaxLength    \* bound: the length of the patterns that the parser is tried on

DEBUG == 1

Levels == 0 .. MaxLevel

Strings == Patterns \cup {Empty}

AppenderNodes ==
  [type : {"FileLogAppender", "StdoutLogAppender", Empty}, file : Files \cup {Empty},
   level : Levels, formatter : Strings]

LogNodes ==
  [name : Names \cup {Empty}, level : Levels, formatter : Strings, appenders : Seq(AppenderNodes)]

ASSUME LogConfigAssumption ==
  /\ Root \in Names /\ MaxLevel \in Nat \ {0} /\ Default \in Patterns /\ MaxLength \in Nat
  /\ Spelling \in [Patterns -> Seq(Letters \cup Others \cup {"%", Open, Close})]
  /\ Empty \notin Patterns \cup Names \cup Files
  /\ Stdout \notin Files
  /\ \A doc \in Documents : doc \in Seq(LogNodes)

(* The pattern in Logger::Logger() is a literal, a row of text and known items. *)
ASSUME DefaultAssumption == WellFormed(Spelling[Default])

VARIABLES
  m_val,    \* ConfigVar::m_val: a function from names to LogDefines
  logger,   \* per name: Logger::m_level, m_formatter and m_appenders
  setter,   \* where each setter is, and the locals of setValue() and the listener
  writer,   \* where each writer is in Logger::log()
  touched,  \* history: the names that some listener call was to change
  raced     \* history: two calls of setValue() have overlapped

vars == <<m_val, logger, setter, writer, touched, raced>>

Idle == [at |-> "idle", v |-> << >>, todo |-> {}, gone |-> {}, name |-> Root, left |-> << >>]

Resting == [at |-> "idle", name |-> Root, level |-> 0, reached |-> {}]

(* LoggerManager::LoggerManager(): the root logger writes to stdout. *)
Init ==
  /\ m_val = << >>
  /\ logger = [n \in Names |->
       [level |-> DEBUG, formatter |-> Default,
        appenders |-> IF n = Root
                      THEN << [dest |-> Stdout, level |-> DEBUG, formatter |-> Default] >>
                      ELSE << >>]]
  /\ setter = [s \in Setters |-> Idle]
  /\ writer = [w \in Writers |-> Resting]
  /\ touched = {}
  /\ raced = FALSE

----------------------------------------------------------------------------
(* Logger, one operator per method.  A writer that is in m_root->log()     *)
(* still holds the mutex of the logger it called first.                    *)

Locked(n) == \E w \in Writers : writer[w].at = "root" /\ writer[w].name = n

Accepted == {p \in Patterns : ~isError(Spelling[p])}

(* A logger or an appender only takes a formatter that parsed. *)
Parses(pattern) == pattern \in Accepted

(* Logger::setFormatter() also replaces the formatter of each appender. *)
setFormatter(n, pattern) ==
  logger' = [logger EXCEPT
    ![n].formatter = pattern,
    ![n].appenders = [i \in DOMAIN @ |-> [@[i] EXCEPT !.formatter = pattern]]]

clearAppenders_Nothing(n) == UNCHANGED logger

clearAppenders(n) == logger' = [logger EXCEPT ![n].appenders = << >>]

(* Logger::addAppender(): an appender without a formatter takes the one of *)
(* the logger.                                                             *)
addAppender_AsIs(n, appender) == logger' = [logger EXCEPT ![n].appenders = Append(@, appender)]

addAppender(n, appender) ==
  logger' = [logger EXCEPT ![n].appenders =
    Append(@, IF appender.formatter = Empty
              THEN [appender EXCEPT !.formatter = logger[n].formatter]
              ELSE appender)]

(* Where the appenders of logger n write an event of a level. *)
Destinations(n, level) ==
  { a.dest : a \in { b \in ToSet(logger[n].appenders) : level >= b.level } }

----------------------------------------------------------------------------
(* The conversion of a document (LexicalCast). *)

(* An exception, which fromString() turns into false: a node without a     *)
(* name, or a file appender without a file.                                *)
Throws(doc) ==
  \E node \in ToSet(doc) :
    \/ node.name = Empty
    \/ \E a \in ToSet(node.appenders) : a.type = "FileLogAppender" /\ a.file = Empty

(* Appenders of no or of an unknown type are left out. *)
AppenderDefines(nodes) ==
  LET defines[k \in 0 .. Len(nodes)] ==
        IF k = 0 THEN << >>
        ELSE IF nodes[k].type = Empty THEN defines[k - 1]
        ELSE Append(defines[k - 1],
               [dest |-> IF nodes[k].type = "FileLogAppender" THEN nodes[k].file ELSE Stdout,
                level |-> nodes[k].level, formatter |-> nodes[k].formatter])
  IN  defines[Len(nodes)]

(* The set is keyed by name: the first node with a name is the one kept. *)
FirstNode(doc, name) ==
  doc[CHOOSE i \in DOMAIN doc : doc[i].name = name /\ \A k \in 1 .. (i - 1) : doc[k].name # name]

Parse(doc) ==
  [n \in { node.name : node \in ToSet(doc) } |->
    LET node == FirstNode(doc, n)
    IN  [level |-> node.level, formatter |-> node.formatter,
         appenders |-> AppenderDefines(node.appenders)]]

----------------------------------------------------------------------------
(* setValue() and the listener of LogIniter. *)

GoTo(s, at) == setter' = [setter EXCEPT ![s].at = at]

Reading(s) == setter[s].at \notin {"idle", "write"}

Changed(old, new) == { n \in DOMAIN new : n \notin DOMAIN old \/ new[n] # old[n] }

Gone(old, new) == DOMAIN old \ DOMAIN new

(* setValue() takes the read lock, returns if nothing changes, and calls   *)
(* the listener, which works from the two values.                          *)
setValue(s, v) ==
  /\ setter[s].at = "idle"
  /\ v # m_val
  /\ setter' = [setter EXCEPT ![s].at = "next", ![s].v = v,
                              ![s].todo = Changed(m_val, v), ![s].gone = Gone(m_val, v)]
  /\ touched' = touched \cup Changed(m_val, v) \cup Gone(m_val, v)
  /\ raced' = (raced \/ \E o \in Setters \ {s} : setter[o].at # "idle")
  /\ UNCHANGED <<m_val, logger, writer>>

(* The next name of new_value that is new or was changed: setLevel(). *)
SetLevel(s) ==
  /\ setter[s].at = "next"
  /\ \E n \in setter[s].todo :
       /\ logger' = [logger EXCEPT ![n].level = setter[s].v[n].level]
       /\ setter' = [setter EXCEPT ![s].at = "formatter", ![s].name = n,
                                   ![s].todo = @ \ {n}, ![s].left = setter[s].v[n].appenders]
  /\ UNCHANGED <<m_val, writer, touched, raced>>

SetFormatter(s) ==
  LET n == setter[s].name
      pattern == setter[s].v[n].formatter
  IN  /\ setter[s].at = "formatter"
      /\ \/ Parses(pattern) /\ ~Locked(n) /\ setFormatter(n, pattern)
         \/ ~Parses(pattern) /\ UNCHANGED logger
      /\ GoTo(s, "clear")
      /\ UNCHANGED <<m_val, writer, touched, raced>>

ClearAppenders(s) ==
  /\ setter[s].at = "clear"
  /\ ~Locked(setter[s].name)
  /\ clearAppenders(setter[s].name)
  /\ GoTo(s, IF setter[s].left = << >> THEN "next" ELSE "add")
  /\ UNCHANGED <<m_val, writer, touched, raced>>

(* One appender of the LogDefine is built and added. *)
AddAppender(s) ==
  LET a == Head(setter[s].left)
      left == Tail(setter[s].left)
  IN  /\ setter[s].at = "add"
      /\ ~Locked(setter[s].name)
      /\ addAppender(setter[s].name,
                     [a EXCEPT !.formatter = IF Parses(a.formatter) THEN a.formatter ELSE Empty])
      /\ setter' = [setter EXCEPT ![s].left = left,
                                  ![s].at = IF left = << >> THEN "next" ELSE "add"]
      /\ UNCHANGED <<m_val, writer, touched, raced>>

(* A name that new_value no longer has: setLevel(0), then clearAppenders().*)
Forget(s) ==
  /\ setter[s].at = "next"
  /\ setter[s].todo = {}
  /\ \E n \in setter[s].gone :
       /\ logger' = [logger EXCEPT ![n].level = 0]
       /\ setter' = [setter EXCEPT ![s].at = "clear", ![s].name = n, ![s].gone = @ \ {n}]
  /\ UNCHANGED <<m_val, writer, touched, raced>>

(* The listener is done and the read lock is released. *)
ReadUnlock(s) ==
  /\ setter[s].at = "next"
  /\ setter[s].todo = {}
  /\ setter[s].gone = {}
  /\ GoTo(s, "write")
  /\ UNCHANGED <<m_val, logger, writer, touched, raced>>

(* m_val = v under the write lock, which waits for the readers. *)
WriteValue(s) ==
  /\ setter[s].at = "write"
  /\ \A o \in Setters : ~Reading(o)
  /\ m_val' = setter[s].v
  /\ setter' = [setter EXCEPT ![s] = Idle]
  /\ UNCHANGED <<logger, writer, touched, raced>>

(* LoadFromYaml() and fromString(): a document that does not convert       *)
(* changes nothing.                                                        *)
Load(s) == \E doc \in Documents : ~Throws(doc) /\ setValue(s, Parse(doc))

Set(s) ==
  \/ Load(s)
  \/ SetLevel(s)
  \/ SetFormatter(s)
  \/ ClearAppenders(s)
  \/ AddAppender(s)
  \/ Forget(s)
  \/ ReadUnlock(s)
  \/ WriteValue(s)

----------------------------------------------------------------------------
(* Logger::log() called by a thread that logs. *)

(* A logger without appenders passes the event on to the root logger;      *)
(* m_root of the root logger itself is null.                               *)
FallsBack_Never(n) == FALSE

FallsBack(n) == logger[n].appenders = << >> /\ n # Root

Log(w) ==
  /\ writer[w].at # "root"
  /\ \E n \in Names, level \in 1 .. MaxLevel :
       /\ ~Locked(n)
       /\ level >= logger[n].level
       /\ writer' = [writer EXCEPT ![w] =
            [at |-> IF FallsBack(n) THEN "root" ELSE "done", name |-> n, level |-> level,
             reached |-> IF FallsBack(n) THEN {} ELSE Destinations(n, level)]]
  /\ UNCHANGED <<m_val, logger, setter, touched, raced>>

(* m_root->log(), with the mutex of the first logger held. *)
LogRoot(w) ==
  LET level == writer[w].level
  IN  /\ writer[w].at = "root"
      /\ writer' = [writer EXCEPT ![w].at = "done",
            ![w].reached = IF level >= logger[Root].level THEN Destinations(Root, level) ELSE {}]
      /\ UNCHANGED <<m_val, logger, setter, touched, raced>>

Next ==
  \/ \E s \in Setters : Set(s)
  \/ \E w \in Writers : Log(w) \/ LogRoot(w)

Spec == Init /\ [][Next]_vars

----------------------------------------------------------------------------
(* Properties. *)

(* The formatters that init() takes, and none *)
Formatted == {p \in Patterns : WellFormed(Spelling[p])} \cup {Empty}

(* The parser against the comment over it: of the patterns without "%%" it *)
(* accepts exactly the documented ones.  What it makes of any pattern that *)
(* it accepts is the whole pattern in order, where a format "{}" counts as *)
(* none.                                                                   *)
ParserAgrees ==
  \A p \in BoundedSeq(Letters \cup Others \cup {"%", Open, Close}, MaxLength) :
    LET parsed == init(p)
        vec == parsed.vec
    IN  /\ ~HasDoublePercent(p) => (parsed.m_error <=> ~Documented(p))
        /\ ~parsed.m_error /\ (\A i \in 1 .. Len(p) - 1 : <<p[i], p[i + 1]>> # <<Open, Close>>)
             => FlattenSeq([i \in DOMAIN vec |-> Written(vec[i])]) = p

(* What a formatter in use may be: a documented pattern, unless "%%" is in *)
(* it, or none.                                                            *)
Sensible ==
  {p \in Patterns : HasDoublePercent(Spelling[p]) \/ Documented(Spelling[p])} \cup {Empty}

(* The loggers and the appenders in use format with documented patterns,   *)
(* and init() tells these from the others and takes them apart as they     *)
(* read, as long as they do without "%%".                                  *)
FormatsExact ==
  /\ ParserAgrees
  /\ \A n \in Names :
       /\ logger[n].formatter \in Sensible
       /\ \A a \in ToSet(logger[n].appenders) : a.formatter \in Sensible

(* The comment taken at its word, with "%%": a logger that is defined with *)
(* a documented pattern formats with it.  init() refuses the pattern that  *)
(* ends in "%%", and the logger keeps the formatter it had.                *)
DocumentedFormats ==
  ~raced /\ (\A s \in Setters : setter[s].at = "idle") =>
    \A n \in DOMAIN m_val :
      m_val[n].formatter # Empty /\ Documented(Spelling[m_val[n].formatter])
        => logger[n].formatter = m_val[n].formatter

(* The loggers hold levels, formatters and appenders. *)
TypeOK ==
  /\ DOMAIN m_val \subseteq Names
  /\ touched \subseteq Names /\ raced \in BOOLEAN
  /\ \A n \in Names :
       /\ logger[n].level \in Levels /\ logger[n].formatter \in Strings
       /\ \A a \in ToSet(logger[n].appenders) :
            a.dest \in Files \cup {Stdout} /\ a.level \in Levels /\ a.formatter \in Strings
  /\ \A s \in Setters :
       /\ setter[s].at \in {"idle", "next", "formatter", "clear", "add", "write"}
       /\ setter[s].todo \cup setter[s].gone \cup {setter[s].name} \subseteq Names
  /\ \A w \in Writers :
       /\ writer[w].at \in {"idle", "root", "done"} /\ writer[w].name \in Names
       /\ writer[w].level \in Levels /\ writer[w].reached \subseteq Files \cup {Stdout}

(* An appender that a logger uses has a formatter, whatever its definition *)
(* says and however reconfigurations overlap: LogAppender::log()           *)
(* dereferences m_formatter without a test.                                *)
FormatterPresent ==
  \A n \in Names : \A a \in ToSet(logger[n].appenders) : a.formatter # Empty

(* What the definition d of a logger asks for, given the logger's own      *)
(* formatter: the appenders in order, each with its own formatter where    *)
(* that parses and with the logger's where not.                            *)
Wanted(d, own) ==
  [i \in DOMAIN d.appenders |->
    [d.appenders[i] EXCEPT !.formatter =
      IF d.appenders[i].formatter \in Formatted \ {Empty} THEN d.appenders[i].formatter ELSE own]]

(* As long as no two calls of setValue() have overlapped, the loggers      *)
(* agree with m_val whenever no call is in progress: a defined logger has  *)
(* the level, the formatter (if one is given) and exactly the appenders of *)
(* its definition, and one whose definition was removed has none and       *)
(* leaves everything to the root logger, whatever came before.             *)
ConfigApplied ==
  ~raced /\ (\A s \in Setters : setter[s].at = "idle") =>
    /\ \A n \in DOMAIN m_val :
         /\ logger[n].level = m_val[n].level
         /\ m_val[n].formatter \in Formatted \ {Empty} => logger[n].formatter = m_val[n].formatter
         /\ logger[n].appenders = Wanted(m_val[n], logger[n].formatter)
    /\ \A n \in touched \ DOMAIN m_val :
         logger[n].level = 0 /\ logger[n].appenders = << >>

(* An event of the highest level always reaches a destination as long as   *)
(* the root logger has not been reconfigured: between clearAppenders() and *)
(* addAppender() of its own logger, and after that logger was removed from *)
(* the configuration, it is the root logger's.                             *)
FatalReaches ==
  \A w \in Writers :
    writer[w].at = "done" /\ writer[w].level = MaxLevel /\ Root \notin touched
      => writer[w].reached # {}

============================================================================
