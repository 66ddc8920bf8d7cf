-------------------------- MODULE LogConfigProofs --------------------------
(***************************************************************************)
(* The safety of reconfiguration, for any names, documents, patterns and   *)
(* numbers of setters and writers.  The invariant says how far a call of   *)
(* setValue() has come: the names it has still to bring to the new value,  *)
(* the one the listener is at, and all others, which already agree.        *)
(***************************************************************************)
EXTENDS LogConfig, LogFormatterProofs

Dests == Files \cup {Stdout}

(* The appenders of a LogDefine, and those that loggers use *)
Defined == [dest : Dests, level : Levels, formatter : Strings]
InUse == [dest : Dests, level : Levels, formatter : Accepted]

LogDefines == [level : Levels, formatter : Strings, appenders : Seq(Defined)]

Values == UNION {[D -> LogDefines] : D \in SUBSET Names}

Loggers == [level : Levels, formatter : Accepted, appenders : Seq(InUse)]

SetterStates ==
  [at : {"idle", "next", "formatter", "clear", "add", "write"}, v : Values,
   todo : SUBSET Names, gone : SUBSET Names, name : Names, left : Seq(Defined)]

WriterStates ==
  [at : {"idle", "root", "done"}, name : Names, level : Levels, reached : SUBSET Dests]

TypeInv ==
  /\ m_val \in Values /\ logger \in [Names -> Loggers]
  /\ setter \in [Setters -> SetterStates] /\ writer \in [Writers -> WriterStates]
  /\ touched \subseteq Names /\ raced \in BOOLEAN

(* Where the listener is at a logger *)
Inside(st) == st.at \in {"formatter", "clear", "add"}

(* What the locals of a call say of each other, whatever other calls do *)
SetterOK(st, t) ==
  /\ st.todo \subseteq DOMAIN st.v /\ st.gone \cap DOMAIN st.v = {}
  /\ st.todo \cup st.gone \subseteq t /\ (Inside(st) => st.name \in t)
  /\ st.at = "formatter" => st.name \in DOMAIN st.v
  /\ st.at = "add" => st.left # << >>
  /\ ~Inside(st) => st.left = << >>
  /\ st.at \in {"idle", "write"} => st.todo = {} /\ st.gone = {}

SetterInv == \A s \in Setters : SetterOK(setter[s], touched)

(* The root logger keeps its appender until it is reconfigured. *)
RootInv == Root \notin touched => logger[Root].appenders # << >>

(* An appender built from its definition, in a logger with a formatter *)
Built(a, own) ==
  [dest |-> a.dest, level |-> a.level,
   formatter |-> IF a.formatter \in Accepted THEN a.formatter ELSE own]

(* Logger lg has the appenders of d but for those left. *)
Progress(lg, d, left) ==
  /\ Len(lg.appenders) + Len(left) = Len(d.appenders)
  /\ \A i \in 1 .. Len(lg.appenders) : lg.appenders[i] = Built(d.appenders[i], lg.formatter)
  /\ \A i \in 1 .. Len(left) : left[i] = d.appenders[Len(lg.appenders) + i]

(* The level and the formatter are those of d. *)
HeadDone(lg, d) == lg.level = d.level /\ (d.formatter \in Accepted => lg.formatter = d.formatter)

Applied(lg, d) == HeadDone(lg, d) /\ Progress(lg, d, << >>)

Removed(lg) == lg.level = 0 /\ lg.appenders = << >>

(* All names agree with v, but for those in open. *)
Settled(lgs, v, t, open) ==
  /\ \A n \in DOMAIN v \ open : Applied(lgs[n], v[n])
  /\ \A n \in t \ (DOMAIN v \cup open) : Removed(lgs[n])

(* What a call has not brought to its value yet *)
Unsettled(st) == st.todo \cup st.gone \cup IF Inside(st) THEN {st.name} ELSE {}

(* How far the listener is with the logger it is at *)
Doing(lg, st) ==
  /\ st.at = "formatter" => lg.level = st.v[st.name].level /\ st.left = st.v[st.name].appenders
  /\ st.at = "clear" /\ st.name \in DOMAIN st.v =>
       HeadDone(lg, st.v[st.name]) /\ st.left = st.v[st.name].appenders
  /\ st.at = "clear" /\ st.name \notin DOMAIN st.v => lg.level = 0 /\ st.left = << >>
  /\ st.at = "add" =>
       /\ st.name \in DOMAIN st.v /\ HeadDone(lg, st.v[st.name])
       /\ Progress(lg, st.v[st.name], st.left)

InProgress(lgs, t, st) == Settled(lgs, st.v, t, Unsettled(st)) /\ Doing(lgs[st.name], st)

(* As long as no two calls have overlapped *)
ApplyInv ==
  ~raced =>
    /\ \A s, o \in Setters : s # o => setter[s].at = "idle" \/ setter[o].at = "idle"
    /\ (\A s \in Setters : setter[s].at = "idle") => Settled(logger, m_val, touched, {})
    /\ \A s \in Setters : setter[s].at # "idle" => InProgress(logger, touched, setter[s])

IInv == TypeInv /\ SetterInv /\ RootInv /\ ApplyInv /\ FatalReaches

-----------------------------------------------------------------------------
(* A pattern parses just if it makes sense, and the default one does. *)
LEMMA AcceptedIsFormatted ==
  Accepted = {p \in Patterns : WellFormed(Spelling[p])} /\ Accepted = Formatted \ {Empty}
    /\ Default \in Accepted /\ Empty \notin Accepted /\ Accepted \subseteq Strings
<1>1. \A p \in Patterns : Spelling[p] \in Seq(Chars)
  BY LogConfigAssumption DEF Chars
<1>2. \A p \in Patterns : ~isError(Spelling[p]) <=> WellFormed(Spelling[p])
  BY <1>1, ParserRefuses
<1>3. Accepted = {p \in Patterns : WellFormed(Spelling[p])}
  BY <1>2 DEF Accepted
<1>4. Default \in Patterns /\ Empty \notin Patterns
  BY LogConfigAssumption
<1>. QED BY <1>3, <1>4, DefaultAssumption DEF Formatted, Strings

(* What an appender node defines *)
Define(node) ==
  [dest |-> IF node.type = "FileLogAppender" THEN node.file ELSE Stdout,
   level |-> node.level, formatter |-> node.formatter]

(* The sequence that the loop over the appender nodes builds *)
DefinesUpTo(nodes, defines, n) ==
  defines = [k \in 0 .. n |->
    IF k = 0 THEN << >>
    ELSE IF nodes[k].type = Empty THEN defines[k - 1]
    ELSE Append(defines[k - 1], Define(nodes[k]))]

(* There is one, *)
LEMMA DefinesExist ==
  ASSUME NEW nodes, NEW n \in Nat
  PROVE  \E defines : DefinesUpTo(nodes, defines, n)
<1>. DEFINE S == {k \in Nat : \E defines : DefinesUpTo(nodes, defines, k)}
<1>1. 0 \in S
  <2>1. DefinesUpTo(nodes, [k \in 0 .. 0 |-> << >>], 0)
    BY DEF DefinesUpTo
  <2>. QED BY <2>1
<1>2. ASSUME NEW k \in 0 .. n - 1, k \in S PROVE k + 1 \in S
  <2>1. PICK defines : DefinesUpTo(nodes, defines, k)
    BY <1>2
  <2>2. k \in Nat
    OBVIOUS
  <2>3. \A j \in 0 .. k : defines[j] = IF j = 0 THEN << >>
                                       ELSE IF nodes[j].type = Empty THEN defines[j - 1]
                                       ELSE Append(defines[j - 1], Define(nodes[j]))
    <3>. HIDE DEF S
    <3>. QED BY <2>1, Zenon DEF DefinesUpTo
  <2>4. PICK new : new = IF nodes[k + 1].type = Empty THEN defines[k]
                         ELSE Append(defines[k], Define(nodes[k + 1]))
    OBVIOUS
  <2>. DEFINE next == [j \in 0 .. k + 1 |-> IF j <= k THEN defines[j] ELSE new]
  <2>5. DefinesUpTo(nodes, next, k + 1)
    <3>1. ASSUME NEW j \in 0 .. k + 1
          PROVE  next[j] = IF j = 0 THEN << >>
                           ELSE IF nodes[j].type = Empty THEN next[j - 1]
                           ELSE Append(next[j - 1], Define(nodes[j]))
      <4>1. CASE j <= k
        <5>1. j \in 0 .. k /\ next[j] = defines[j] /\ (j # 0 => next[j - 1] = defines[j - 1])
          BY <4>1
        <5>. QED BY <2>3, <5>1
      <4>2. CASE j = k + 1
        <5>1. next[k + 1] = new /\ next[k] = defines[k] /\ k + 1 # 0 /\ (k + 1) - 1 = k
          OBVIOUS
        <5>. QED BY <2>4, <4>2, <5>1
      <4>. QED BY <4>1, <4>2
    <3>. QED BY <3>1 DEF DefinesUpTo
  <2>. QED BY <2>2, <2>5
<1>. HIDE DEF S
<1>3. 0 .. n \subseteq S
  BY <1>1, <1>2, UpTo
<1>. QED BY <1>3 DEF S

(* and it is a sequence of definitions, if every file appender has a file. *)
LEMMA DefinesType ==
  ASSUME NEW nodes \in Seq(AppenderNodes),
         \A k \in 1 .. Len(nodes) : nodes[k].type = "FileLogAppender" => nodes[k].file # Empty
  PROVE  AppenderDefines(nodes) \in Seq(Defined)
<1>. DEFINE defines[k \in 0 .. Len(nodes)] ==
              IF k = 0 THEN << >>
              ELSE IF nodes[k].type = Empty THEN defines[k - 1]
              ELSE Append(defines[k - 1],
                     [dest |-> IF nodes[k].type = "FileLogAppender" THEN nodes[k].file ELSE Stdout,
                      level |-> nodes[k].level, formatter |-> nodes[k].formatter])
<1>0. Len(nodes) \in Nat
  OBVIOUS
<1>1. DefinesUpTo(nodes, defines, Len(nodes))
  BY <1>0, DefinesExist DEF DefinesUpTo, Define
<1>2. AppenderDefines(nodes) = defines[Len(nodes)]
  BY DEF AppenderDefines
<1>. HIDE DEF defines
<1>. DEFINE S == {k \in 0 .. Len(nodes) : defines[k] \in Seq(Defined)}
<1>3. 0 \in S
  BY <1>0, <1>1, EmptySeq DEF DefinesUpTo
<1>4. ASSUME NEW k \in 0 .. Len(nodes) - 1, k \in S PROVE k + 1 \in S
  <2>1. k + 1 \in 1 .. Len(nodes) /\ k + 1 \in 0 .. Len(nodes) /\ k + 1 # 0 /\ (k + 1) - 1 = k
    BY <1>0
  <2>2. PICK node : node = nodes[k + 1]
    OBVIOUS
  <2>3. node \in AppenderNodes /\ (node.type = "FileLogAppender" => node.file # Empty)
    BY <2>1, <2>2, ElementOfSeq
  <2>4. PICK new : new = Define(node)
    OBVIOUS
  <2>5. new \in Defined
    BY <2>3, <2>4 DEF AppenderNodes, Define, Defined, Dests
  <2>6. defines[k + 1] = IF node.type = Empty THEN defines[k] ELSE Append(defines[k], new)
    BY <1>1, <2>1, <2>2, <2>4 DEF DefinesUpTo
  <2>7. defines[k] \in Seq(Defined)
    BY <1>4
  <2>8. defines[k + 1] \in Seq(Defined)
    BY <2>5, <2>6, <2>7, AppendProperties
  <2>. QED BY <2>1, <2>8
<1>. HIDE DEF S
<1>5. 0 .. Len(nodes) \subseteq S
  BY <1>0, <1>3, <1>4, UpTo
<1>. QED BY <1>0, <1>2, <1>5 DEF S

(* The first node with a name that some node has is one of the nodes. *)
LEMMA FirstNodeIs ==
  ASSUME NEW doc \in Seq(LogNodes), NEW m \in DOMAIN doc
  PROVE  \E i \in DOMAIN doc : FirstNode(doc, doc[m].name) = doc[i]
<1>. DEFINE T == {i \in DOMAIN doc : doc[i].name = doc[m].name}
<1>1. DOMAIN doc = 1 .. Len(doc) /\ Len(doc) \in Nat
  BY LenProperties
<1>2. T \subseteq Nat /\ T # {}
  BY <1>1
<1>3. PICK i \in T : \A k \in T : i <= k
  BY <1>2, LeastNumber
<1>4. i \in DOMAIN doc /\ doc[i].name = doc[m].name
  OBVIOUS
<1>5. ASSUME NEW k \in 1 .. (i - 1) PROVE doc[k].name # doc[m].name
  <2>1. k \in DOMAIN doc /\ ~ (i <= k)
    BY <1>1, <1>4
  <2>. QED BY <1>3, <2>1
<1>. HIDE DEF T
<1>. QED BY <1>4, <1>5 DEF FirstNode

(* A document that converts is a value of the variable. *)
LEMMA ParseType ==
  ASSUME NEW doc \in Documents, ~Throws(doc)
  PROVE  Parse(doc) \in Values
<1>1. doc \in Seq(LogNodes)
  BY LogConfigAssumption
<1>2. ToSet(doc) = {doc[i] : i \in DOMAIN doc} /\ \A node \in ToSet(doc) : node \in LogNodes
  BY <1>1, ElementOfSeq, LenProperties DEF ToSet
<1>. DEFINE D == {node.name : node \in ToSet(doc)}
<1>3. D \subseteq Names
  <2>1. ASSUME NEW node \in ToSet(doc) PROVE node.name \in Names
    <3>1. node.name \in Names \cup {Empty}
      BY <1>2 DEF LogNodes
    <3>2. node.name # Empty
      BY DEF Throws
    <3>. QED BY <3>1, <3>2
  <2>. QED BY <2>1
<1>4. ASSUME NEW node \in ToSet(doc)
      PROVE  [level |-> node.level, formatter |-> node.formatter,
              appenders |-> AppenderDefines(node.appenders)] \in LogDefines
  <2>1. node.level \in Levels /\ node.formatter \in Strings /\ node.appenders \in Seq(AppenderNodes)
    BY <1>2 DEF LogNodes
  <2>2. PICK nodes : nodes = node.appenders
    OBVIOUS
  <2>3. \A k \in 1 .. Len(nodes) : nodes[k].type = "FileLogAppender" => nodes[k].file # Empty
    <3>1. \A k \in 1 .. Len(nodes) : nodes[k] \in ToSet(nodes)
      BY <2>1, <2>2, LenProperties DEF ToSet
    <3>2. \A a \in ToSet(nodes) : a.type = "FileLogAppender" => a.file # Empty
      BY <2>2 DEF Throws
    <3>. QED BY <3>1, <3>2
  <2>4. AppenderDefines(nodes) \in Seq(Defined)
    BY <2>1, <2>2, <2>3, DefinesType
  <2>. QED BY <2>1, <2>2, <2>4 DEF LogDefines
<1>5. ASSUME NEW n \in D PROVE FirstNode(doc, n) \in ToSet(doc)
  <2>1. PICK m \in DOMAIN doc : n = doc[m].name
    BY <1>2
  <2>. QED BY <1>1, <1>2, <2>1, FirstNodeIs
<1>6. Parse(doc) = [n \in D |->
        [level |-> FirstNode(doc, n).level, formatter |-> FirstNode(doc, n).formatter,
         appenders |-> AppenderDefines(FirstNode(doc, n).appenders)]]
  BY DEF Parse
<1>. HIDE DEF D
<1>7. Parse(doc) \in [D -> LogDefines]
  BY <1>4, <1>5, <1>6
<1>. QED BY <1>3, <1>7 DEF Values

(* What a value is *)
LEMMA ValueFacts ==
  ASSUME NEW v \in Values
  PROVE  DOMAIN v \subseteq Names /\ \A n \in DOMAIN v :
           /\ v[n].level \in Levels /\ v[n].formatter \in Strings
           /\ v[n].appenders \in Seq(Defined)
BY DEF Values, LogDefines

-----------------------------------------------------------------------------
(* The initial state *)
LEMMA InitIInv == Init => IInv
<1>. SUFFICES ASSUME Init PROVE IInv
  OBVIOUS
<1>1. /\ Root \in Names /\ DEBUG \in Levels /\ 0 \in Levels /\ Default \in Accepted
      /\ << >> \in Seq(InUse) /\ << >> \in Seq(Defined)
  BY LogConfigAssumption, AcceptedIsFormatted, EmptySeq DEF DEBUG, Levels
<1>2. << >> \in Values /\ DOMAIN << >> = {}
  <2>1. << >> \in [{} -> LogDefines] /\ DOMAIN << >> = {}
    OBVIOUS
  <2>. QED BY <2>1 DEF Values
<1>3. << [dest |-> Stdout, level |-> DEBUG, formatter |-> Default] >> \in Seq(InUse)
  <2>1. [dest |-> Stdout, level |-> DEBUG, formatter |-> Default] \in InUse
    BY <1>1 DEF InUse, Dests
  <2>. QED BY <2>1
<1>4. Idle \in SetterStates /\ Resting \in WriterStates
  BY <1>1, <1>2 DEF Idle, Resting, SetterStates, WriterStates
<1>5. logger \in [Names -> Loggers]
  BY <1>1, <1>3 DEF Init, Loggers
<1>6. TypeInv
  BY <1>2, <1>4, <1>5 DEF Init, TypeInv
<1>7. SetterInv
  BY <1>2 DEF Init, SetterInv, SetterOK, Idle, Inside
<1>8. RootInv
  BY <1>1 DEF Init, RootInv
<1>9. ApplyInv
  BY <1>2 DEF Init, ApplyInv, Settled, Idle
<1>10. FatalReaches
  BY DEF Init, FatalReaches, Resting
<1>. QED BY <1>6, <1>7, <1>8, <1>9, <1>10 DEF IInv

-----------------------------------------------------------------------------
(* The operations of a logger *)

(* An appender of a logger that takes over a formatter *)
LEMMA Reformatted ==
  ASSUME NEW apps \in Seq(InUse), NEW pattern \in Accepted
  PROVE  [i \in DOMAIN apps |-> [apps[i] EXCEPT !.formatter = pattern]] \in Seq(InUse)
<1>1. DOMAIN apps = 1 .. Len(apps) /\ Len(apps) \in Nat
  BY LenProperties
<1>2. ASSUME NEW i \in DOMAIN apps PROVE [apps[i] EXCEPT !.formatter = pattern] \in InUse
  <2>1. PICK a : a = apps[i]
    OBVIOUS
  <2>2. a \in InUse
    BY <1>1, <2>1, ElementOfSeq
  <2>3. [a EXCEPT !.formatter = pattern] \in InUse
    BY <2>2 DEF InUse
  <2>. QED BY <2>1, <2>3
<1>. QED BY <1>1, <1>2

(* Logger::setFormatter() *)
LEMMA SetFormatterOf ==
  ASSUME logger \in [Names -> Loggers], NEW n \in Names, NEW pattern \in Accepted,
         setFormatter(n, pattern)
  PROVE  /\ logger' \in [Names -> Loggers] /\ \A m \in Names \ {n} : logger'[m] = logger[m]
         /\ logger'[n].level = logger[n].level /\ logger'[n].formatter = pattern
<1>1. logger[n] \in Loggers
  OBVIOUS
<1>2. PICK apps : apps = [i \in DOMAIN logger[n].appenders |->
                            [logger[n].appenders[i] EXCEPT !.formatter = pattern]]
  OBVIOUS
<1>3. apps \in Seq(InUse)
  BY <1>1, <1>2, Reformatted DEF Loggers
<1>4. logger' = [logger EXCEPT ![n].formatter = pattern, ![n].appenders = apps]
  BY <1>2 DEF setFormatter
<1>5. /\ logger'[n] = [logger[n] EXCEPT !.formatter = pattern, !.appenders = apps]
      /\ \A m \in Names \ {n} : logger'[m] = logger[m]
      /\ logger' = [m \in Names |-> logger'[m]]
  BY <1>4
<1>6. logger'[n] \in Loggers /\ logger'[n].level = logger[n].level /\ logger'[n].formatter = pattern
  BY <1>1, <1>3, <1>5 DEF Loggers
<1>. QED BY <1>5, <1>6

(* Logger::setLevel() *)
LEMMA SetLevelOf ==
  ASSUME logger \in [Names -> Loggers], NEW n \in Names, NEW level \in Levels,
         logger' = [logger EXCEPT ![n].level = level]
  PROVE  /\ logger' \in [Names -> Loggers] /\ \A m \in Names \ {n} : logger'[m] = logger[m]
         /\ logger'[n].level = level
<1>1. logger[n] \in Loggers
  OBVIOUS
<1>2. /\ logger'[n] = [logger[n] EXCEPT !.level = level]
      /\ \A m \in Names \ {n} : logger'[m] = logger[m]
      /\ logger' = [m \in Names |-> logger'[m]]
  OBVIOUS
<1>3. logger'[n] \in Loggers /\ logger'[n].level = level
  BY <1>1, <1>2 DEF Loggers
<1>. QED BY <1>2, <1>3

(* Logger::clearAppenders() *)
LEMMA ClearAppendersOf ==
  ASSUME logger \in [Names -> Loggers], NEW n \in Names, clearAppenders(n)
  PROVE  /\ logger' \in [Names -> Loggers] /\ \A m \in Names \ {n} : logger'[m] = logger[m]
         /\ logger'[n].level = logger[n].level /\ logger'[n].formatter = logger[n].formatter
         /\ logger'[n].appenders = << >>
<1>1. logger[n] \in Loggers
  OBVIOUS
<1>2. /\ logger'[n] = [logger[n] EXCEPT !.appenders = << >>]
      /\ \A m \in Names \ {n} : logger'[m] = logger[m]
      /\ logger' = [m \in Names |-> logger'[m]]
  BY DEF clearAppenders
<1>3. << >> \in Seq(InUse)
  BY EmptySeq
<1>4. /\ logger'[n] \in Loggers /\ logger'[n].level = logger[n].level
      /\ logger'[n].formatter = logger[n].formatter /\ logger'[n].appenders = << >>
  BY <1>1, <1>2, <1>3 DEF Loggers
<1>. QED BY <1>2, <1>4

(* What the listener builds from a definition, and addAppender() completes *)
Chosen(a) == [a EXCEPT !.formatter = IF Parses(a.formatter) THEN a.formatter ELSE Empty]

Completed(b, own) == IF b.formatter = Empty THEN [b EXCEPT !.formatter = own] ELSE b

(* The appender has its own formatter if that parses, else the logger's.   *)
LEMMA BuiltIs ==
  ASSUME NEW a \in Defined, NEW own \in Accepted
  PROVE  Built(a, own) \in InUse /\ Completed(Chosen(a), own) = Built(a, own)
<1>1. Empty \notin Accepted
  BY AcceptedIsFormatted
<1>2. a = [dest |-> a.dest, level |-> a.level, formatter |-> a.formatter]
        /\ a.dest \in Dests /\ a.level \in Levels
  BY DEF Defined
<1>3. Built(a, own) \in InUse
  BY <1>2 DEF Built, InUse
<1>4. PICK b : b = Chosen(a)
  OBVIOUS
<1>5. CASE a.formatter \in Accepted
  <2>1. b = [dest |-> a.dest, level |-> a.level, formatter |-> a.formatter]
    BY <1>2, <1>4, <1>5 DEF Chosen, Parses
  <2>2. b.formatter # Empty
    BY <1>1, <1>5, <2>1
  <2>. QED BY <1>3, <1>4, <1>5, <2>1, <2>2 DEF Completed, Built
<1>6. CASE a.formatter \notin Accepted
  <2>1. b = [dest |-> a.dest, level |-> a.level, formatter |-> Empty]
    BY <1>2, <1>4, <1>6 DEF Chosen, Parses
  <2>2. [b EXCEPT !.formatter = own] = [dest |-> a.dest, level |-> a.level, formatter |-> own]
    BY <2>1
  <2>. QED BY <1>3, <1>4, <1>6, <2>1, <2>2 DEF Completed, Built
<1>. QED BY <1>5, <1>6

(* Logger::addAppender() *)
LEMMA AddAppenderOf ==
  ASSUME logger \in [Names -> Loggers], NEW n \in Names, NEW a \in Defined,
         addAppender(n, Chosen(a))
  PROVE  /\ logger' \in [Names -> Loggers] /\ \A m \in Names \ {n} : logger'[m] = logger[m]
         /\ logger'[n].level = logger[n].level /\ logger'[n].formatter = logger[n].formatter
         /\ logger'[n].appenders = Append(logger[n].appenders, Built(a, logger[n].formatter))
<1>1. logger[n] \in Loggers
  OBVIOUS
<1>2. PICK b : b = Chosen(a)
  OBVIOUS
<1>3. PICK own : own = logger[n].formatter
  OBVIOUS
<1>4. own \in Accepted
  BY <1>1, <1>3 DEF Loggers
<1>5. PICK new : new = Built(a, own)
  OBVIOUS
<1>6. new \in InUse /\ Completed(b, own) = new
  BY <1>2, <1>4, <1>5, BuiltIs
<1>7. logger' = [logger EXCEPT ![n].appenders = Append(@, new)]
  BY <1>2, <1>3, <1>6 DEF addAppender, Completed
<1>8. /\ logger'[n] = [logger[n] EXCEPT !.appenders = Append(@, new)]
      /\ \A m \in Names \ {n} : logger'[m] = logger[m]
      /\ logger' = [m \in Names |-> logger'[m]]
  BY <1>7
<1>9. logger[n].appenders \in Seq(InUse)
  BY <1>1 DEF Loggers
<1>10. Append(logger[n].appenders, new) \in Seq(InUse)
  BY <1>6, <1>9, AppendProperties
<1>11. /\ logger'[n] \in Loggers /\ logger'[n].level = logger[n].level
       /\ logger'[n].formatter = logger[n].formatter
       /\ logger'[n].appenders = Append(logger[n].appenders, new)
  BY <1>1, <1>8, <1>10 DEF Loggers
<1>. QED BY <1>3, <1>5, <1>8, <1>11

-----------------------------------------------------------------------------
(* All names but n stay as they are, and n is open or agrees with v. *)
LEMMA StaysSettled ==
  ASSUME NEW lgs, NEW lgs2, NEW v, NEW t, NEW open, NEW open2, NEW n,
         Settled(lgs, v, t, open), \A m \in (DOMAIN v \cup t) \ {n} : lgs2[m] = lgs[m],
         open \subseteq open2 \cup {n},
         n \notin open2 /\ n \in DOMAIN v => Applied(lgs2[n], v[n]),
         n \notin open2 /\ n \notin DOMAIN v => Removed(lgs2[n])
  PROVE  Settled(lgs2, v, t, open2)
<1>1. ASSUME NEW m \in DOMAIN v \ open2 PROVE Applied(lgs2[m], v[m])
  <2>1. CASE m = n
    BY <2>1
  <2>2. CASE m # n
    BY <2>2 DEF Settled
  <2>. QED BY <2>1, <2>2
<1>2. ASSUME NEW m \in t \ (DOMAIN v \cup open2) PROVE Removed(lgs2[m])
  <2>1. CASE m = n
    BY <2>1
  <2>2. CASE m # n
    BY <2>2 DEF Settled
  <2>. QED BY <2>1, <2>2
<1>. QED BY <1>1, <1>2 DEF Settled

(* A step of the listener of s, which changes a logger that is touched *)
LEMMA ListenerStep ==
  ASSUME IInv, NEW s \in Setters, setter[s].at # "idle", NEW st,
         setter' \in [Setters -> SetterStates], \A o \in Setters \ {s} : setter'[o] = setter[o],
         setter'[s] = st, st.at # "idle",
         SetterOK(st, touched), UNCHANGED <<m_val, writer, touched, raced>>,
         logger' \in [Names -> Loggers], \A m \in Names \ touched : logger'[m] = logger[m],
         ~raced /\ InProgress(logger, touched, setter[s]) => InProgress(logger', touched, st)
  PROVE  IInv'
<1>1. Root \in Names
  BY LogConfigAssumption
<1>2. setter'[s] = st /\ \A o \in Setters \ {s} : setter'[o] = setter[o]
  OBVIOUS
<1>3. TypeInv'
  BY <1>1 DEF IInv, TypeInv
<1>4. SetterInv'
  <2>1. \A o \in Setters : SetterOK(setter'[o], touched)
    BY <1>2 DEF IInv, SetterInv
  <2>. QED BY <2>1 DEF SetterInv
<1>5. RootInv'
  BY <1>1 DEF IInv, RootInv
<1>6. ApplyInv'
  <2>1. SUFFICES ASSUME ~raced
                 PROVE  /\ \A o, q \in Setters :
                             o # q => setter'[o].at = "idle" \/ setter'[q].at = "idle"
                        /\ ~ (\A o \in Setters : setter'[o].at = "idle")
                        /\ \A o \in Setters :
                             setter'[o].at # "idle" => InProgress(logger', touched, setter'[o])
    BY DEF ApplyInv
  <2>2. \A o \in Setters \ {s} : setter[o].at = "idle"
    BY <2>1 DEF IInv, ApplyInv
  <2>3. InProgress(logger, touched, setter[s])
    BY <2>1 DEF IInv, ApplyInv
  <2>. QED BY <1>2, <2>1, <2>2, <2>3
<1>7. FatalReaches'
  BY DEF IInv, FatalReaches
<1>. QED BY <1>3, <1>4, <1>5, <1>6, <1>7 DEF IInv

(* A setter that goes on, and keeps its locals *)
LEMMA MovesSetter ==
  ASSUME setter \in [Setters -> SetterStates], NEW s \in Setters,
         NEW at \in {"idle", "next", "formatter", "clear", "add", "write"},
         setter' = [setter EXCEPT ![s].at = at]
  PROVE  setter' \in [Setters -> SetterStates]
<1>1. [setter[s] EXCEPT !.at = at] \in SetterStates
  BY DEF SetterStates
<1>. QED BY <1>1

(* What is known of a setter *)
LEMMA SetterFacts ==
  ASSUME IInv, NEW s \in Setters
  PROVE  /\ setter[s] \in SetterStates /\ SetterOK(setter[s], touched)
         /\ logger \in [Names -> Loggers] /\ touched \subseteq Names
         /\ setter[s].v \in Values /\ DOMAIN setter[s].v \subseteq Names
         /\ setter[s].name \in Names /\ setter[s].left \in Seq(Defined)
<1>1. setter[s] \in SetterStates
  BY DEF IInv, TypeInv
<1>. QED BY <1>1, ValueFacts DEF IInv, TypeInv, SetterInv, SetterStates

(* SetLevel() begins with a name: from here on it is open. *)
LEMMA SetLevelIInv ==
  ASSUME IInv, NEW s \in Setters, SetLevel(s)
  PROVE  IInv'
<1>1. PICK old : old = setter[s]
  OBVIOUS
<1>2. /\ old \in SetterStates /\ SetterOK(old, touched) /\ logger \in [Names -> Loggers]
      /\ touched \subseteq Names /\ old.v \in Values /\ DOMAIN old.v \subseteq Names
  BY <1>1, SetterFacts
<1>3. PICK n \in old.todo :
        /\ logger' = [logger EXCEPT ![n].level = old.v[n].level]
        /\ setter' = [setter EXCEPT ![s].at = "formatter", ![s].name = n,
                                    ![s].todo = @ \ {n}, ![s].left = old.v[n].appenders]
  BY <1>1 DEF SetLevel
<1>4. old.at = "next" /\ UNCHANGED <<m_val, writer, touched, raced>>
  BY <1>1 DEF SetLevel
<1>5. n \in DOMAIN old.v /\ n \in touched /\ n \in Names
  BY <1>2 DEF SetterOK
<1>6. PICK st : st = setter'[s]
  OBVIOUS
<1>7. /\ st.at = "formatter" /\ st.v = old.v /\ st.todo = old.todo \ {n} /\ st.gone = old.gone
      /\ st.name = n /\ st.left = old.v[n].appenders
      /\ \A o \in Setters \ {s} : setter'[o] = setter[o]
  BY <1>1, <1>2, <1>3, <1>6 DEF IInv, TypeInv, SetterStates
<1>8. setter' \in [Setters -> SetterStates]
  <2>1. old.v[n].appenders \in Seq(Defined)
    BY <1>2, <1>5, ValueFacts
  <2>. QED BY <1>1, <1>2, <1>3, <1>5, <2>1 DEF IInv, TypeInv, SetterStates
<1>9. SetterOK(st, touched)
  BY <1>2, <1>5, <1>7 DEF SetterOK, Inside
<1>10. /\ logger' \in [Names -> Loggers] /\ \A m \in Names \ {n} : logger'[m] = logger[m]
       /\ logger'[n].level = old.v[n].level
  BY <1>2, <1>3, <1>5, ValueFacts, SetLevelOf
<1>11. ASSUME InProgress(logger, touched, old) PROVE InProgress(logger', touched, st)
  <2>1. Settled(logger, old.v, touched, old.todo \cup old.gone)
    BY <1>4, <1>11 DEF InProgress, Unsettled, Inside
  <2>2. Unsettled(st) = (old.todo \ {n}) \cup old.gone \cup {n} /\ st.v = old.v /\ st.name = n
    BY <1>7 DEF Unsettled, Inside
  <2>3. Settled(logger', old.v, touched, Unsettled(st))
    BY <1>2, <1>10, <2>1, <2>2, StaysSettled
  <2>4. Doing(logger'[n], st)
    BY <1>7, <1>10 DEF Doing
  <2>. QED BY <2>2, <2>3, <2>4 DEF InProgress
<1>12. \A m \in Names \ touched : logger'[m] = logger[m]
  BY <1>5, <1>10
<1>. QED BY <1>1, <1>4, <1>5, <1>6, <1>7, <1>8, <1>9, <1>10, <1>11, <1>12, ListenerStep

(* SetFormatter() takes the formatter of the definition, if that parses. *)
LEMMA SetFormatterIInv ==
  ASSUME IInv, NEW s \in Setters, SetFormatter(s)
  PROVE  IInv'
<1>1. PICK old, n : old = setter[s] /\ n = setter[s].name
  OBVIOUS
<1>2. /\ old \in SetterStates /\ SetterOK(old, touched) /\ logger \in [Names -> Loggers]
      /\ touched \subseteq Names /\ DOMAIN old.v \subseteq Names /\ n \in Names
  BY <1>1, SetterFacts
<1>3. /\ old.at = "formatter" /\ setter' = [setter EXCEPT ![s].at = "clear"]
      /\ UNCHANGED <<m_val, writer, touched, raced>>
  BY <1>1 DEF SetFormatter, GoTo
<1>4. n \in touched /\ n \in DOMAIN old.v /\ n = old.name
  BY <1>1, <1>2, <1>3 DEF SetterOK, Inside
<1>5. PICK st : st = setter'[s]
  OBVIOUS
<1>6. /\ st.at = "clear" /\ st.v = old.v /\ st.todo = old.todo /\ st.gone = old.gone
      /\ st.name = n /\ st.left = old.left /\ \A o \in Setters \ {s} : setter'[o] = setter[o]
  BY <1>1, <1>3, <1>5 DEF IInv, TypeInv, SetterStates
<1>7. setter' \in [Setters -> SetterStates]
  BY <1>3, MovesSetter DEF IInv, TypeInv
<1>8. SetterOK(st, touched)
  BY <1>2, <1>3, <1>4, <1>6 DEF SetterOK, Inside
<1>9. /\ logger' \in [Names -> Loggers] /\ \A m \in Names \ {n} : logger'[m] = logger[m]
      /\ logger'[n].level = logger[n].level
      /\ old.v[n].formatter \in Accepted => logger'[n].formatter = old.v[n].formatter
  <2>1. CASE Parses(old.v[n].formatter) /\ setFormatter(n, old.v[n].formatter)
    BY <1>2, <2>1, SetFormatterOf DEF Parses
  <2>2. CASE ~Parses(old.v[n].formatter) /\ UNCHANGED logger
    BY <1>2, <2>2 DEF Parses
  <2>. QED BY <1>1, <2>1, <2>2 DEF SetFormatter
<1>10. ASSUME InProgress(logger, touched, old) PROVE InProgress(logger', touched, st)
  <2>1. Settled(logger, old.v, touched, Unsettled(old)) /\ Doing(logger[n], old)
    BY <1>4, <1>10 DEF InProgress
  <2>2. Unsettled(st) = Unsettled(old) /\ n \in Unsettled(st)
    BY <1>3, <1>4, <1>6 DEF Unsettled, Inside
  <2>3. Settled(logger', old.v, touched, Unsettled(st))
    BY <1>2, <1>9, <2>1, <2>2, StaysSettled
  <2>4. Doing(logger'[n], st)
    BY <1>3, <1>4, <1>6, <1>9, <2>1 DEF Doing, HeadDone
  <2>. QED BY <1>6, <2>3, <2>4 DEF InProgress
<1>11. \A m \in Names \ touched : logger'[m] = logger[m]
  BY <1>4, <1>9
<1>. QED BY <1>1, <1>3, <1>4, <1>5, <1>6, <1>7, <1>8, <1>9, <1>10, <1>11, ListenerStep

(* Nothing is added yet, *)
LEMMA ProgressBegins ==
  ASSUME NEW lg, NEW d, NEW left \in Seq(Defined), lg.appenders = << >>, left = d.appenders
  PROVE  Progress(lg, d, left)
<1>1. Len(lg.appenders) = 0 /\ Len(left) \in Nat
  OBVIOUS
<1>. QED BY <1>1 DEF Progress

(* and then one appender after the other. *)
LEMMA ProgressGoesOn ==
  ASSUME NEW lg, NEW lg2, NEW d, NEW left \in Seq(Defined), left # << >>,
         lg.appenders \in Seq(InUse), Built(Head(left), lg.formatter) \in InUse,
         lg2.appenders = Append(lg.appenders, Built(Head(left), lg.formatter)),
         lg2.formatter = lg.formatter, Progress(lg, d, left)
  PROVE  Progress(lg2, d, Tail(left))
<1>1. PICK apps, rest, new, k : /\ apps = lg.appenders /\ rest = Tail(left)
                                /\ new = Built(Head(left), lg.formatter) /\ k = Len(lg.appenders)
  OBVIOUS
<1>2. apps \in Seq(InUse) /\ new \in InUse /\ k = Len(apps) /\ k \in Nat
  BY <1>1
<1>3. /\ rest \in Seq(Defined) /\ Len(rest) = Len(left) - 1 /\ Len(left) \in Nat /\ Len(left) # 0
      /\ Head(left) = left[1] /\ \A i \in 1 .. Len(rest) : rest[i] = left[i + 1]
  BY <1>1, EmptySeq, HeadTailProperties
<1>4. PICK apps2 : apps2 = Append(apps, new)
  OBVIOUS
<1>5. /\ Len(apps2) = k + 1 /\ apps2[k + 1] = new
      /\ \A i \in 1 .. k : apps2[i] = apps[i]
  BY <1>2, <1>4, AppendProperties
<1>6. /\ k + Len(left) = Len(d.appenders)
      /\ \A i \in 1 .. k : apps[i] = Built(d.appenders[i], lg.formatter)
      /\ \A i \in 1 .. Len(left) : left[i] = d.appenders[k + i]
  BY <1>1 DEF Progress
<1>7. new = Built(d.appenders[k + 1], lg.formatter)
  <2>1. 1 \in 1 .. Len(left)
    BY <1>3
  <2>. QED BY <1>1, <1>3, <1>6, <2>1
<1>8. \A i \in 1 .. k + 1 : apps2[i] = Built(d.appenders[i], lg.formatter)
  <2>1. \A i \in 1 .. k + 1 : i \in 1 .. k \/ i = k + 1
    BY <1>2
  <2>. QED BY <1>5, <1>6, <1>7, <2>1
<1>9. \A i \in 1 .. Len(rest) : rest[i] = d.appenders[(k + 1) + i]
  <2>1. ASSUME NEW i \in 1 .. Len(rest) PROVE i + 1 \in 1 .. Len(left) /\ k + (i + 1) = (k + 1) + i
    BY <1>2, <1>3
  <2>. QED BY <1>3, <1>6, <2>1
<1>10. (k + 1) + Len(rest) = Len(d.appenders)
  <2>1. (k + 1) + (Len(left) - 1) = k + Len(left)
    BY <1>2, <1>3
  <2>. QED BY <1>3, <1>6, <2>1
<1>11. lg2.appenders = apps2
  BY <1>1, <1>4
<1>. QED BY <1>1, <1>5, <1>8, <1>9, <1>10, <1>11 DEF Progress

(* ClearAppenders() leaves what is to be added, or is done. *)
LEMMA ClearAppendersIInv ==
  ASSUME IInv, NEW s \in Setters, ClearAppenders(s)
  PROVE  IInv'
<1>1. PICK old, n : old = setter[s] /\ n = setter[s].name
  OBVIOUS
<1>2. /\ old \in SetterStates /\ SetterOK(old, touched) /\ logger \in [Names -> Loggers]
      /\ touched \subseteq Names /\ DOMAIN old.v \subseteq Names /\ n \in Names
      /\ old.left \in Seq(Defined)
  BY <1>1, SetterFacts
<1>3. /\ old.at = "clear" /\ clearAppenders(n)
      /\ setter' = [setter EXCEPT ![s].at = IF old.left = << >> THEN "next" ELSE "add"]
      /\ UNCHANGED <<m_val, writer, touched, raced>>
  BY <1>1 DEF ClearAppenders, GoTo
<1>4. n \in touched /\ n = old.name
  BY <1>1, <1>2, <1>3 DEF SetterOK, Inside
<1>5. PICK st : st = setter'[s]
  OBVIOUS
<1>6. /\ st.at = (IF old.left = << >> THEN "next" ELSE "add")
      /\ st.v = old.v /\ st.todo = old.todo /\ st.gone = old.gone
      /\ st.name = n /\ st.left = old.left /\ \A o \in Setters \ {s} : setter'[o] = setter[o]
  BY <1>1, <1>3, <1>5 DEF IInv, TypeInv, SetterStates
<1>7. setter' \in [Setters -> SetterStates]
  BY <1>3, MovesSetter DEF IInv, TypeInv
<1>8. SetterOK(st, touched)
  BY <1>2, <1>3, <1>4, <1>6 DEF SetterOK, Inside
<1>9. /\ logger' \in [Names -> Loggers] /\ \A m \in Names \ {n} : logger'[m] = logger[m]
      /\ logger'[n].level = logger[n].level /\ logger'[n].formatter = logger[n].formatter
      /\ logger'[n].appenders = << >>
  BY <1>2, <1>3, ClearAppendersOf
<1>10. ASSUME InProgress(logger, touched, old) PROVE InProgress(logger', touched, st)
  <2>1. Settled(logger, old.v, touched, old.todo \cup old.gone \cup {n}) /\ Doing(logger[n], old)
    BY <1>3, <1>4, <1>10 DEF InProgress, Unsettled, Inside
  <2>2. CASE n \in DOMAIN old.v
    <3>1. HeadDone(logger'[n], old.v[n]) /\ old.left = old.v[n].appenders
      BY <1>3, <1>4, <1>9, <2>1, <2>2 DEF Doing, HeadDone
    <3>2. Progress(logger'[n], old.v[n], old.left)
      BY <1>2, <1>9, <3>1, ProgressBegins
    <3>3. CASE old.left = << >>
      <4>1. Applied(logger'[n], old.v[n]) /\ Unsettled(st) = old.todo \cup old.gone
        BY <1>6, <3>1, <3>2, <3>3 DEF Applied, Unsettled, Inside
      <4>2. Settled(logger', old.v, touched, Unsettled(st))
        BY <1>2, <1>9, <2>1, <2>2, <4>1, StaysSettled
      <4>. QED BY <1>6, <3>3, <4>2 DEF InProgress, Doing
    <3>4. CASE old.left # << >>
      <4>1. Unsettled(st) = old.todo \cup old.gone \cup {n}
        BY <1>6, <3>4 DEF Unsettled, Inside
      <4>2. Settled(logger', old.v, touched, Unsettled(st))
        BY <1>2, <1>9, <2>1, <4>1, StaysSettled
      <4>3. Doing(logger'[n], st)
        BY <1>6, <2>2, <3>1, <3>2, <3>4 DEF Doing
      <4>. QED BY <1>6, <4>2, <4>3 DEF InProgress
    <3>. QED BY <3>3, <3>4
  <2>3. CASE n \notin DOMAIN old.v
    <3>1. old.left = << >> /\ Removed(logger'[n])
      BY <1>3, <1>4, <1>9, <2>1, <2>3 DEF Doing, Removed
    <3>2. Unsettled(st) = old.todo \cup old.gone
      BY <1>6, <3>1 DEF Unsettled, Inside
    <3>3. Settled(logger', old.v, touched, Unsettled(st))
      BY <1>2, <1>9, <2>1, <2>3, <3>1, <3>2, StaysSettled
    <3>. QED BY <1>6, <3>1, <3>3 DEF InProgress, Doing
  <2>. QED BY <2>2, <2>3
<1>11. st.at # "idle"
  BY <1>6
<1>12. \A m \in Names \ touched : logger'[m] = logger[m]
  BY <1>4, <1>9
<1>. QED BY <1>1, <1>3, <1>4, <1>5, <1>6, <1>7, <1>8, <1>9, <1>10, <1>11, <1>12, ListenerStep

(* AddAppender() adds one appender, and is done with the last. *)
LEMMA AddAppenderIInv ==
  ASSUME IInv, NEW s \in Setters, AddAppender(s)
  PROVE  IInv'
<1>1. PICK old, n, a, left : /\ old = setter[s] /\ n = setter[s].name
                             /\ a = Head(setter[s].left) /\ left = Tail(setter[s].left)
  OBVIOUS
<1>2. /\ old \in SetterStates /\ SetterOK(old, touched) /\ logger \in [Names -> Loggers]
      /\ touched \subseteq Names /\ DOMAIN old.v \subseteq Names /\ n \in Names
      /\ old.left \in Seq(Defined)
  BY <1>1, SetterFacts
<1>3. /\ old.at = "add" /\ addAppender(n, Chosen(a))
      /\ setter' = [setter EXCEPT ![s].left = left,
                                  ![s].at = IF left = << >> THEN "next" ELSE "add"]
      /\ UNCHANGED <<m_val, writer, touched, raced>>
  BY <1>1 DEF AddAppender, Chosen
<1>4. n \in touched /\ n = old.name /\ old.left # << >>
  BY <1>1, <1>2, <1>3 DEF SetterOK, Inside
<1>5. a \in Defined /\ left \in Seq(Defined) /\ a = Head(old.left) /\ left = Tail(old.left)
  BY <1>1, <1>2, <1>4, HeadTailProperties
<1>6. PICK st : st = setter'[s]
  OBVIOUS
<1>7. /\ st.at = (IF left = << >> THEN "next" ELSE "add")
      /\ st.v = old.v /\ st.todo = old.todo /\ st.gone = old.gone
      /\ st.name = n /\ st.left = left /\ \A o \in Setters \ {s} : setter'[o] = setter[o]
  BY <1>1, <1>3, <1>6 DEF IInv, TypeInv, SetterStates
<1>8. setter' \in [Setters -> SetterStates]
  <2>1. PICK at : at = IF left = << >> THEN "next" ELSE "add"
    OBVIOUS
  <2>2. at \in {"idle", "next", "formatter", "clear", "add", "write"}
    BY <2>1
  <2>3. setter' = [setter EXCEPT ![s].left = left, ![s].at = at]
    BY <1>3, <2>1
  <2>4. left \in Seq(Defined) /\ setter \in [Setters -> SetterStates]
    BY <1>5 DEF IInv, TypeInv
  <2>5. [setter[s] EXCEPT !.left = left, !.at = at] \in SetterStates
    BY <2>2, <2>4 DEF SetterStates
  <2>. QED BY <2>3, <2>4, <2>5
<1>9. SetterOK(st, touched)
  BY <1>2, <1>3, <1>4, <1>7 DEF SetterOK, Inside
<1>10. /\ logger' \in [Names -> Loggers] /\ \A m \in Names \ {n} : logger'[m] = logger[m]
       /\ logger'[n].level = logger[n].level /\ logger'[n].formatter = logger[n].formatter
       /\ logger'[n].appenders = Append(logger[n].appenders, Built(a, logger[n].formatter))
  BY <1>2, <1>3, <1>5, AddAppenderOf
<1>11. ASSUME InProgress(logger, touched, old) PROVE InProgress(logger', touched, st)
  <2>1. Settled(logger, old.v, touched, old.todo \cup old.gone \cup {n}) /\ Doing(logger[n], old)
    BY <1>3, <1>4, <1>11 DEF InProgress, Unsettled, Inside
  <2>2. /\ n \in DOMAIN old.v /\ HeadDone(logger[n], old.v[n])
        /\ Progress(logger[n], old.v[n], old.left)
    BY <1>3, <1>4, <2>1 DEF Doing
  <2>3. HeadDone(logger'[n], old.v[n])
    BY <1>10, <2>2 DEF HeadDone
  <2>4. PICK lg, lg2 : lg = logger[n] /\ lg2 = logger'[n]
    OBVIOUS
  <2>5. lg.appenders \in Seq(InUse) /\ lg.formatter \in Accepted
    BY <1>2, <2>4 DEF Loggers
  <2>6. Built(a, lg.formatter) \in InUse
    BY <1>5, <2>5, BuiltIs
  <2>7. Progress(lg2, old.v[n], left)
    BY <1>2, <1>4, <1>5, <1>10, <2>2, <2>4, <2>5, <2>6, ProgressGoesOn
  <2>8. CASE left = << >>
    <3>1. Applied(logger'[n], old.v[n]) /\ Unsettled(st) = old.todo \cup old.gone
      BY <1>7, <2>3, <2>4, <2>7, <2>8 DEF Applied, Unsettled, Inside
    <3>2. Settled(logger', old.v, touched, Unsettled(st))
      BY <1>2, <1>10, <2>1, <2>2, <3>1, StaysSettled
    <3>. QED BY <1>7, <2>8, <3>2 DEF InProgress, Doing
  <2>9. CASE left # << >>
    <3>1. Unsettled(st) = old.todo \cup old.gone \cup {n}
      BY <1>7, <2>9 DEF Unsettled, Inside
    <3>2. Settled(logger', old.v, touched, Unsettled(st))
      BY <1>2, <1>10, <2>1, <3>1, StaysSettled
    <3>3. Doing(logger'[n], st)
      BY <1>7, <2>2, <2>3, <2>4, <2>7, <2>9 DEF Doing
    <3>. QED BY <1>7, <3>2, <3>3 DEF InProgress
  <2>. QED BY <2>8, <2>9
<1>12. st.at # "idle"
  BY <1>7
<1>13. \A m \in Names \ touched : logger'[m] = logger[m]
  BY <1>4, <1>10
<1>. QED BY <1>1, <1>3, <1>4, <1>6, <1>7, <1>8, <1>9, <1>10, <1>11, <1>12, <1>13, ListenerStep

(* Forget() begins with a name that is no longer defined. *)
LEMMA ForgetIInv ==
  ASSUME IInv, NEW s \in Setters, Forget(s)
  PROVE  IInv'
<1>1. PICK old : old = setter[s]
  OBVIOUS
<1>2. /\ old \in SetterStates /\ SetterOK(old, touched) /\ logger \in [Names -> Loggers]
      /\ touched \subseteq Names /\ old.v \in Values /\ DOMAIN old.v \subseteq Names
  BY <1>1, SetterFacts
<1>3. PICK n \in old.gone :
        /\ logger' = [logger EXCEPT ![n].level = 0]
        /\ setter' = [setter EXCEPT ![s].at = "clear", ![s].name = n, ![s].gone = @ \ {n}]
  BY <1>1 DEF Forget
<1>4. old.at = "next" /\ UNCHANGED <<m_val, writer, touched, raced>>
  BY <1>1 DEF Forget
<1>5. n \notin DOMAIN old.v /\ n \in touched /\ n \in Names /\ old.left = << >>
  BY <1>2, <1>4 DEF SetterOK, Inside
<1>6. PICK st : st = setter'[s]
  OBVIOUS
<1>7. /\ st.at = "clear" /\ st.v = old.v /\ st.todo = old.todo /\ st.gone = old.gone \ {n}
      /\ st.name = n /\ st.left = << >> /\ \A o \in Setters \ {s} : setter'[o] = setter[o]
  BY <1>1, <1>2, <1>3, <1>5, <1>6 DEF IInv, TypeInv, SetterStates
<1>8. setter' \in [Setters -> SetterStates]
  BY <1>1, <1>2, <1>3, <1>5 DEF IInv, TypeInv, SetterStates
<1>9. SetterOK(st, touched)
  BY <1>2, <1>5, <1>7 DEF SetterOK, Inside
<1>10. 0 \in Levels
  BY LogConfigAssumption DEF Levels
<1>11. /\ logger' \in [Names -> Loggers] /\ \A m \in Names \ {n} : logger'[m] = logger[m]
       /\ logger'[n].level = 0
  BY <1>2, <1>3, <1>5, <1>10, SetLevelOf
<1>12. ASSUME InProgress(logger, touched, old) PROVE InProgress(logger', touched, st)
  <2>1. Settled(logger, old.v, touched, old.todo \cup old.gone)
    BY <1>4, <1>12 DEF InProgress, Unsettled, Inside
  <2>2. Unsettled(st) = old.todo \cup (old.gone \ {n}) \cup {n}
    BY <1>7 DEF Unsettled, Inside
  <2>3. Settled(logger', old.v, touched, Unsettled(st))
    BY <1>2, <1>11, <2>1, <2>2, StaysSettled
  <2>4. Doing(logger'[n], st)
    BY <1>5, <1>7, <1>11 DEF Doing
  <2>. QED BY <1>7, <2>3, <2>4 DEF InProgress
<1>13. \A m \in Names \ touched : logger'[m] = logger[m]
  BY <1>5, <1>11
<1>. QED BY <1>1, <1>4, <1>5, <1>6, <1>7, <1>8, <1>9, <1>11, <1>12, <1>13, ListenerStep

(* ReadUnlock() finds all names done. *)
LEMMA ReadUnlockIInv ==
  ASSUME IInv, NEW s \in Setters, ReadUnlock(s)
  PROVE  IInv'
<1>1. PICK old : old = setter[s]
  OBVIOUS
<1>2. /\ old \in SetterStates /\ SetterOK(old, touched) /\ logger \in [Names -> Loggers]
  BY <1>1, SetterFacts
<1>3. /\ old.at = "next" /\ old.todo = {} /\ old.gone = {} /\ logger' = logger
      /\ setter' = [setter EXCEPT ![s].at = "write"] /\ UNCHANGED <<m_val, writer, touched, raced>>
  BY <1>1 DEF ReadUnlock, GoTo
<1>4. PICK st : st = setter'[s]
  OBVIOUS
<1>5. /\ st.at = "write" /\ st.v = old.v /\ st.todo = {} /\ st.gone = {} /\ st.left = old.left
      /\ \A o \in Setters \ {s} : setter'[o] = setter[o]
  BY <1>1, <1>2, <1>3, <1>4 DEF IInv, TypeInv, SetterStates
<1>6. setter' \in [Setters -> SetterStates]
  BY <1>3, MovesSetter DEF IInv, TypeInv
<1>7. SetterOK(st, touched)
  BY <1>2, <1>3, <1>5 DEF SetterOK, Inside
<1>8. ASSUME InProgress(logger, touched, old) PROVE InProgress(logger', touched, st)
  <2>1. Settled(logger, old.v, touched, {})
    BY <1>3, <1>8 DEF InProgress, Unsettled, Inside
  <2>2. Unsettled(st) = {}
    BY <1>5 DEF Unsettled, Inside
  <2>. QED BY <1>3, <1>5, <2>1, <2>2 DEF InProgress, Doing
<1>. QED BY <1>1, <1>2, <1>3, <1>4, <1>5, <1>6, <1>7, <1>8, ListenerStep

(* WriteValue() ends the call: all names agree with what m_val becomes. *)
LEMMA WriteValueIInv ==
  ASSUME IInv, NEW s \in Setters, WriteValue(s)
  PROVE  IInv'
<1>1. PICK old : old = setter[s]
  OBVIOUS
<1>2. old \in SetterStates /\ SetterOK(old, touched) /\ old.v \in Values
  BY <1>1, SetterFacts
<1>3. /\ old.at = "write" /\ m_val' = old.v /\ setter' = [setter EXCEPT ![s] = Idle]
      /\ UNCHANGED <<logger, writer, touched, raced>>
  BY <1>1 DEF WriteValue
<1>4. Idle \in SetterStates /\ Idle.at = "idle" /\ SetterOK(Idle, touched)
  <2>1. << >> \in Values /\ << >> \in Seq(Defined) /\ DOMAIN << >> = {} /\ Root \in Names
    <3>1. << >> \in [{} -> LogDefines] /\ DOMAIN << >> = {}
      OBVIOUS
    <3>. QED BY <3>1, EmptySeq, LogConfigAssumption DEF Values
  <2>. QED BY <2>1 DEF Idle, SetterStates, SetterOK, Inside
<1>5. setter'[s] = Idle /\ \A o \in Setters \ {s} : setter'[o] = setter[o]
  BY <1>3 DEF IInv, TypeInv
<1>6. TypeInv'
  BY <1>2, <1>3, <1>4 DEF IInv, TypeInv
<1>7. SetterInv'
  <2>1. \A o \in Setters : SetterOK(setter'[o], touched)
    BY <1>4, <1>5 DEF IInv, SetterInv
  <2>. QED BY <1>3, <2>1 DEF SetterInv
<1>8. RootInv'
  BY <1>3 DEF IInv, RootInv
<1>9. ApplyInv'
  <2>1. SUFFICES ASSUME ~raced
                 PROVE  /\ \A o \in Setters : setter'[o].at = "idle"
                        /\ Settled(logger, m_val', touched, {})
    BY <1>3 DEF ApplyInv
  <2>2. \A o \in Setters \ {s} : setter[o].at = "idle"
    BY <1>1, <1>3, <2>1 DEF IInv, ApplyInv
  <2>3. InProgress(logger, touched, old)
    BY <1>1, <1>3, <2>1 DEF IInv, ApplyInv
  <2>4. Unsettled(old) = {}
    BY <1>2, <1>3 DEF SetterOK, Unsettled, Inside
  <2>. QED BY <1>3, <1>4, <1>5, <2>2, <2>3, <2>4 DEF InProgress
<1>10. FatalReaches'
  BY <1>3 DEF IInv, FatalReaches
<1>. QED BY <1>6, <1>7, <1>8, <1>9, <1>10 DEF IInv

(* setValue() finds the names that differ: all others agree already. *)
LEMMA SetValueIInv ==
  ASSUME IInv, NEW s \in Setters, NEW v \in Values, setValue(s, v)
  PROVE  IInv'
<1>1. PICK old, todo, gone : old = setter[s] /\ todo = Changed(m_val, v) /\ gone = Gone(m_val, v)
  OBVIOUS
<1>2. /\ old \in SetterStates /\ SetterOK(old, touched) /\ logger \in [Names -> Loggers]
      /\ touched \subseteq Names /\ m_val \in Values /\ DOMAIN m_val \subseteq Names
      /\ DOMAIN v \subseteq Names
  BY <1>1, SetterFacts, ValueFacts DEF IInv, TypeInv
<1>3. /\ old.at = "idle" /\ UNCHANGED <<m_val, logger, writer>>
      /\ setter' = [setter EXCEPT ![s].at = "next", ![s].v = v, ![s].todo = todo, ![s].gone = gone]
      /\ touched' = touched \cup todo \cup gone
      /\ raced' = (raced \/ \E o \in Setters \ {s} : setter[o].at # "idle")
  BY <1>1 DEF setValue
<1>4. /\ todo = {n \in DOMAIN v : n \notin DOMAIN m_val \/ v[n] # m_val[n]}
      /\ gone = DOMAIN m_val \ DOMAIN v /\ todo \subseteq Names /\ gone \subseteq Names
  BY <1>1, <1>2 DEF Changed, Gone
<1>5. old.left = << >>
  BY <1>2, <1>3 DEF SetterOK, Inside
<1>6. PICK st : st = setter'[s]
  OBVIOUS
<1>7. /\ st.at = "next" /\ st.v = v /\ st.todo = todo /\ st.gone = gone /\ st.left = << >>
      /\ \A o \in Setters \ {s} : setter'[o] = setter[o]
  BY <1>1, <1>3, <1>5, <1>6 DEF IInv, TypeInv, SetterStates
<1>8. setter' \in [Setters -> SetterStates]
  <2>1. setter \in [Setters -> SetterStates]
    BY DEF IInv, TypeInv
  <2>2. [setter[s] EXCEPT !.at = "next", !.v = v, !.todo = todo, !.gone = gone] \in SetterStates
    BY <1>4, <2>1 DEF SetterStates
  <2>. QED BY <1>3, <2>1, <2>2
<1>9. raced' \in BOOLEAN
  BY <1>3
<1>10. TypeInv'
  BY <1>2, <1>3, <1>4, <1>8, <1>9 DEF IInv, TypeInv
<1>11. SetterInv'
  <2>1. SetterOK(st, touched')
    BY <1>3, <1>4, <1>7 DEF SetterOK, Inside
  <2>2. \A o \in Setters : SetterOK(setter[o], touched) => SetterOK(setter[o], touched')
    BY <1>3 DEF SetterOK
  <2>3. \A o \in Setters : SetterOK(setter'[o], touched')
    BY <1>6, <1>7, <2>1, <2>2 DEF IInv, SetterInv
  <2>. QED BY <2>3 DEF SetterInv
<1>12. RootInv'
  BY <1>3 DEF IInv, RootInv
<1>13. ApplyInv'
  <2>1. SUFFICES ASSUME ~raced'
                 PROVE  /\ \A o \in Setters \ {s} : setter'[o].at = "idle"
                        /\ setter'[s].at # "idle" /\ InProgress(logger', touched', setter'[s])
    BY DEF ApplyInv
  <2>2. ~raced /\ \A o \in Setters : setter[o].at = "idle"
    BY <1>1, <1>3, <2>1
  <2>3. Settled(logger, m_val, touched, {})
    BY <2>2 DEF IInv, ApplyInv
  <2>4. Unsettled(st) = todo \cup gone
    BY <1>7 DEF Unsettled, Inside
  <2>5. \A n \in DOMAIN v \ (todo \cup gone) : Applied(logger[n], v[n])
    BY <1>4, <2>3 DEF Settled
  <2>6. \A n \in touched' \ (DOMAIN v \cup todo \cup gone) : Removed(logger[n])
    BY <1>3, <1>4, <2>3 DEF Settled
  <2>7. Settled(logger, v, touched', todo \cup gone)
    BY <2>5, <2>6 DEF Settled
  <2>8. InProgress(logger, touched', st)
    BY <1>7, <2>4, <2>7 DEF InProgress, Doing
  <2>. QED BY <1>3, <1>6, <1>7, <2>2, <2>8
<1>14. FatalReaches'
  BY <1>3 DEF IInv, FatalReaches
<1>. QED BY <1>10, <1>11, <1>12, <1>13, <1>14 DEF IInv

(* An event of the highest level passes every appender. *)
LEMMA FatalPasses ==
  ASSUME TypeInv, NEW n \in Names
  PROVE  /\ \A level \in Levels : Destinations(n, level) \subseteq Dests
         /\ logger[n].appenders # << >> => Destinations(n, MaxLevel) # {}
         /\ MaxLevel >= logger[n].level
<1>1. logger[n] \in Loggers /\ MaxLevel \in Nat
  BY LogConfigAssumption DEF TypeInv
<1>2. PICK apps : apps = logger[n].appenders
  OBVIOUS
<1>3. apps \in Seq(InUse)
  BY <1>1, <1>2 DEF Loggers
<1>4. \A a \in ToSet(apps) : a.dest \in Dests /\ a.level \in Levels
  <2>1. \A a \in ToSet(apps) : a \in InUse
    BY <1>3, ElementOfSeq, LenProperties DEF ToSet
  <2>. QED BY <2>1 DEF InUse
<1>5. ASSUME apps # << >> PROVE Destinations(n, MaxLevel) # {}
  <2>1. PICK a : a = apps[1]
    OBVIOUS
  <2>2. a \in ToSet(apps)
    BY <1>3, <1>5, <2>1, EmptySeq, LenProperties DEF ToSet
  <2>3. MaxLevel >= a.level
    BY <1>1, <1>4, <2>2 DEF Levels
  <2>. QED BY <1>2, <2>2, <2>3 DEF Destinations
<1>6. MaxLevel >= logger[n].level
  BY <1>1 DEF Loggers, Levels
<1>. QED BY <1>2, <1>4, <1>5, <1>6 DEF Destinations

(* Log() is done, or goes on to the root logger. *)
LEMMA LogIInv ==
  ASSUME IInv, NEW w \in Writers, Log(w)
  PROVE  IInv'
<1>1. PICK n \in Names, level \in 1 .. MaxLevel :
        writer' = [writer EXCEPT ![w] =
          [at |-> IF FallsBack(n) THEN "root" ELSE "done", name |-> n, level |-> level,
           reached |-> IF FallsBack(n) THEN {} ELSE Destinations(n, level)]]
  BY DEF Log
<1>2. UNCHANGED <<m_val, logger, setter, touched, raced>>
  BY DEF Log
<1>3. TypeInv /\ writer \in [Writers -> WriterStates]
  BY DEF IInv, TypeInv
<1>4. level \in Levels
  BY LogConfigAssumption DEF Levels
<1>5. PICK st : st = writer'[w]
  OBVIOUS
<1>6. /\ st.at = (IF FallsBack(n) THEN "root" ELSE "done") /\ st.level = level
      /\ st.reached = (IF FallsBack(n) THEN {} ELSE Destinations(n, level))
      /\ \A x \in Writers \ {w} : writer'[x] = writer[x]
  BY <1>1, <1>3, <1>5
<1>7. writer' \in [Writers -> WriterStates]
  <2>1. Destinations(n, level) \subseteq Dests
    BY <1>3, <1>4, FatalPasses
  <2>. QED BY <1>1, <1>3, <1>4, <2>1 DEF WriterStates
<1>8. TypeInv'
  BY <1>2, <1>3, <1>7 DEF TypeInv
<1>9. FatalReaches'
  <2>1. ASSUME st.at = "done", st.level = MaxLevel, Root \notin touched PROVE st.reached # {}
    <3>1. logger[n].appenders # << >>
      BY <1>6, <2>1 DEF FallsBack, IInv, RootInv
    <3>2. st.reached = Destinations(n, MaxLevel)
      BY <1>6, <2>1
    <3>. QED BY <1>3, <3>1, <3>2, FatalPasses
  <2>2. \A x \in Writers :
          writer'[x].at = "done" /\ writer'[x].level = MaxLevel /\ Root \notin touched
            => writer'[x].reached # {}
    BY <1>5, <1>6, <2>1 DEF IInv, FatalReaches
  <2>. QED BY <1>2, <2>2 DEF FatalReaches
<1>10. (SetterInv /\ RootInv /\ ApplyInv)'
  BY <1>2 DEF IInv, SetterInv, RootInv, ApplyInv
<1>. QED BY <1>8, <1>9, <1>10 DEF IInv

(* LogRoot() ends at the root logger. *)
LEMMA LogRootIInv ==
  ASSUME IInv, NEW w \in Writers, LogRoot(w)
  PROVE  IInv'
<1>1. PICK level, reached :
        /\ level = writer[w].level
        /\ reached = IF writer[w].level >= logger[Root].level
                     THEN Destinations(Root, writer[w].level) ELSE {}
  OBVIOUS
<1>2. /\ writer' = [writer EXCEPT ![w].at = "done", ![w].reached = reached]
      /\ UNCHANGED <<m_val, logger, setter, touched, raced>>
  BY <1>1 DEF LogRoot
<1>3. TypeInv /\ writer \in [Writers -> WriterStates] /\ Root \in Names
  BY LogConfigAssumption DEF IInv, TypeInv
<1>4. level \in Levels
  BY <1>1, <1>3 DEF WriterStates
<1>5. reached \subseteq Dests
  BY <1>1, <1>3, <1>4, FatalPasses
<1>6. PICK st : st = writer'[w]
  OBVIOUS
<1>7. /\ st.at = "done" /\ st.level = level /\ st.reached = reached
      /\ \A x \in Writers \ {w} : writer'[x] = writer[x]
  BY <1>1, <1>2, <1>3, <1>6 DEF WriterStates
<1>8. writer' \in [Writers -> WriterStates]
  BY <1>2, <1>3, <1>5 DEF WriterStates
<1>9. TypeInv'
  BY <1>2, <1>3, <1>8 DEF TypeInv
<1>10. FatalReaches'
  <2>1. ASSUME level = MaxLevel, Root \notin touched PROVE reached # {}
    <3>1. logger[Root].appenders # << >>
      BY <2>1 DEF IInv, RootInv
    <3>2. Destinations(Root, MaxLevel) # {} /\ MaxLevel >= logger[Root].level
      BY <1>3, <3>1, FatalPasses
    <3>. QED BY <1>1, <2>1, <3>2
  <2>2. \A x \in Writers :
          writer'[x].at = "done" /\ writer'[x].level = MaxLevel /\ Root \notin touched
            => writer'[x].reached # {}
    BY <1>6, <1>7, <2>1 DEF IInv, FatalReaches
  <2>. QED BY <1>2, <2>2 DEF FatalReaches
<1>11. (SetterInv /\ RootInv /\ ApplyInv)'
  BY <1>2 DEF IInv, SetterInv, RootInv, ApplyInv
<1>. QED BY <1>9, <1>10, <1>11 DEF IInv

-----------------------------------------------------------------------------
(* The appenders of a logger have their formatters. *)
LEMMA AppendersInUse ==
  ASSUME TypeInv, NEW n \in Names, NEW a \in ToSet(logger[n].appenders)
  PROVE  a \in InUse
<1>1. PICK apps : apps = logger[n].appenders
  OBVIOUS
<1>2. apps \in Seq(InUse)
  BY <1>1 DEF TypeInv, Loggers
<1>. QED BY <1>1, <1>2, ElementOfSeq, LenProperties DEF ToSet

(* An appender as ConfigApplied asks for it *)
Asked(a, own) ==
  [a EXCEPT !.formatter = IF a.formatter \in Formatted \ {Empty} THEN a.formatter ELSE own]

(* With no appender left, the logger has what its definition asks for. *)
LEMMA ProgressEnds ==
  ASSUME NEW lg, NEW d, lg.appenders \in Seq(InUse), d.appenders \in Seq(Defined),
         Progress(lg, d, << >>)
  PROVE  lg.appenders = Wanted(d, lg.formatter)
<1>1. PICK apps, asked, own : apps = lg.appenders /\ asked = d.appenders /\ own = lg.formatter
  OBVIOUS
<1>2. apps \in Seq(InUse) /\ asked \in Seq(Defined)
  BY <1>1
<1>3. Len(apps) = Len(asked) /\ \A i \in 1 .. Len(apps) : apps[i] = Built(asked[i], own)
  BY <1>1, <1>2 DEF Progress
<1>4. DOMAIN asked = 1 .. Len(asked) /\ DOMAIN apps = 1 .. Len(apps)
  BY <1>2, LenProperties
<1>5. ASSUME NEW i \in DOMAIN asked PROVE Built(asked[i], own) = Asked(asked[i], own)
  <2>1. PICK a : a = asked[i]
    OBVIOUS
  <2>2. a \in Defined
    BY <1>2, <1>4, <2>1, ElementOfSeq
  <2>3. a.formatter \in Accepted <=> a.formatter \in Formatted \ {Empty}
    BY AcceptedIsFormatted
  <2>4. Built(a, own) = Asked(a, own)
    BY <2>2, <2>3 DEF Built, Defined, Asked
  <2>. QED BY <2>1, <2>4
<1>6. apps = [i \in DOMAIN asked |-> Built(asked[i], own)]
  BY <1>2, <1>3, <1>4
<1>7. Wanted(d, own) = [i \in DOMAIN asked |-> Asked(asked[i], own)]
  BY <1>1 DEF Wanted, Asked
<1>. QED BY <1>1, <1>5, <1>6, <1>7

-----------------------------------------------------------------------------
(* Every step keeps the invariant. *)
LEMMA NextIInv == IInv /\ [Next]_vars => IInv'
<1>1. SUFFICES ASSUME IInv, [Next]_vars PROVE IInv'
  OBVIOUS
<1>2. ASSUME NEW s \in Setters, Load(s) PROVE IInv'
  <2>1. PICK doc \in Documents : ~Throws(doc) /\ setValue(s, Parse(doc))
    BY <1>2 DEF Load
  <2>2. Parse(doc) \in Values
    BY <2>1, ParseType
  <2>. QED BY <1>1, <2>1, <2>2, SetValueIInv
<1>3. ASSUME NEW s \in Setters, Set(s) PROVE IInv'
  BY <1>1, <1>2, <1>3, SetLevelIInv, SetFormatterIInv, ClearAppendersIInv, AddAppenderIInv,
     ForgetIInv, ReadUnlockIInv, WriteValueIInv DEF Set
<1>4. ASSUME NEW w \in Writers, Log(w) \/ LogRoot(w) PROVE IInv'
  BY <1>1, <1>4, LogIInv, LogRootIInv
<1>5. ASSUME UNCHANGED vars PROVE IInv'
  BY <1>1, <1>5 DEF vars, IInv, TypeInv, SetterInv, RootInv, ApplyInv, FatalReaches
<1>. QED BY <1>1, <1>3, <1>4, <1>5 DEF Next

(* The inductive invariant holds in every reachable state. *)
THEOREM InvariantHolds == Spec => []IInv
<1>1. Init => IInv
  BY InitIInv
<1>2. IInv /\ [Next]_vars => IInv'
  BY NextIInv
<1>. QED BY <1>1, <1>2, PTL DEF Spec

(* What the loggers, the variable and the threads hold has its type, also  *)
(* while calls of setValue() overlap.                                      *)
THEOREM TypeCorrect == Spec => []TypeOK
<1>1. IInv => TypeOK
  <2>. SUFFICES ASSUME IInv PROVE TypeOK
    OBVIOUS
  <2>1. TypeInv
    BY DEF IInv
  <2>2. DOMAIN m_val \subseteq Names
    BY <2>1, ValueFacts DEF TypeInv
  <2>3. ASSUME NEW n \in Names
        PROVE  /\ logger[n].level \in Levels /\ logger[n].formatter \in Strings
               /\ \A a \in ToSet(logger[n].appenders) :
                    a.dest \in Files \cup {Stdout} /\ a.level \in Levels /\ a.formatter \in Strings
    <3>1. \A a \in ToSet(logger[n].appenders) : a \in InUse
      BY <2>1, AppendersInUse
    <3>2. logger[n] \in Loggers /\ Accepted \subseteq Strings
      BY <2>1, AcceptedIsFormatted DEF TypeInv
    <3>3. \A a \in ToSet(logger[n].appenders) :
            a.dest \in Files \cup {Stdout} /\ a.level \in Levels /\ a.formatter \in Strings
      BY <3>1, <3>2 DEF InUse, Dests
    <3>. QED BY <3>2, <3>3 DEF Loggers
  <2>4. ASSUME NEW s \in Setters
        PROVE  /\ setter[s].at \in {"idle", "next", "formatter", "clear", "add", "write"}
               /\ setter[s].todo \cup setter[s].gone \cup {setter[s].name} \subseteq Names
    BY <2>1 DEF TypeInv, SetterStates
  <2>5. ASSUME NEW w \in Writers
        PROVE  /\ writer[w].at \in {"idle", "root", "done"} /\ writer[w].name \in Names
               /\ writer[w].level \in Levels /\ writer[w].reached \subseteq Files \cup {Stdout}
    BY <2>1 DEF TypeInv, WriterStates, Dests
  <2>. QED BY <2>1, <2>2, <2>3, <2>4, <2>5 DEF TypeOK, TypeInv
<1>. QED BY <1>1, InvariantHolds, PTL

(* LogAppender::log() never dereferences a null formatter, whatever the    *)
(* documents say and however calls of setValue() overlap.                  *)
THEOREM FormattersPresent == Spec => []FormatterPresent
<1>1. IInv => FormatterPresent
  <2>. SUFFICES ASSUME IInv, NEW n \in Names, NEW a \in ToSet(logger[n].appenders)
                PROVE  a.formatter # Empty
    BY DEF FormatterPresent
  <2>1. a \in InUse
    BY AppendersInUse DEF IInv
  <2>. QED BY <2>1, AcceptedIsFormatted DEF InUse
<1>. QED BY <1>1, InvariantHolds, PTL

(* The parser agrees with the comment over it on the patterns without "%%" *)
(* of any length bound, and keeps what it reads.                           *)
THEOREM ParserIsExact == ParserAgrees
<1>1. SUFFICES ASSUME NEW p \in BoundedSeq(Chars, MaxLength)
               PROVE  /\ ~HasDoublePercent(p) => (init(p).m_error <=> ~Documented(p))
                      /\ ~init(p).m_error /\ NoEmptyFormat(p)
                           => FlattenSeq([i \in DOMAIN init(p).vec |-> Written(init(p).vec[i])]) = p
  BY DEF ParserAgrees, Chars, NoEmptyFormat
<1>2. p \in Seq(Chars)
  BY <1>1, LogConfigAssumption, BoundedIsSeq
<1>. QED BY <1>2, ParserRefuses, ParserWritesBack, DocumentedIsWellFormed DEF isError

(* Loggers and appenders format with documented patterns, apart from those *)
(* with "%%", and with what init() makes of them, which is how they read.  *)
THEOREM FormatsAreExact == Spec => []FormatsExact
<1>1. ParserAgrees
  BY ParserIsExact
<1>2. ASSUME NEW f \in Accepted PROVE f \in Sensible
  <2>1. f \in Patterns /\ WellFormed(Spelling[f])
    BY AcceptedIsFormatted DEF Accepted
  <2>. QED BY <2>1, DocumentedIsWellFormed DEF Sensible
<1>3. Empty \in Sensible
  BY DEF Sensible
<1>4. IInv => FormatsExact
  <2>. SUFFICES ASSUME IInv, NEW n \in Names
                PROVE  /\ logger[n].formatter \in Sensible
                       /\ \A a \in ToSet(logger[n].appenders) : a.formatter \in Sensible
    BY <1>1 DEF FormatsExact
  <2>1. \A a \in ToSet(logger[n].appenders) : a \in InUse
    BY AppendersInUse DEF IInv
  <2>2. logger[n].formatter \in Accepted
    BY DEF IInv, TypeInv, Loggers
  <2>. QED BY <1>2, <1>3, <2>1, <2>2 DEF InUse
<1>. QED BY <1>4, InvariantHolds, PTL

(* Between calls of setValue() that have not overlapped, the loggers have  *)
(* the levels, formatters and appenders of the current value, and those    *)
(* whose definition was removed have none.                                 *)
THEOREM ConfigIsApplied == Spec => []ConfigApplied
<1>1. IInv => ConfigApplied
  <2>. SUFFICES ASSUME IInv, ~raced, \A s \in Setters : setter[s].at = "idle"
                PROVE  /\ \A n \in DOMAIN m_val :
                            /\ logger[n].level = m_val[n].level
                            /\ m_val[n].formatter \in Formatted \ {Empty}
                                 => logger[n].formatter = m_val[n].formatter
                            /\ logger[n].appenders = Wanted(m_val[n], logger[n].formatter)
                       /\ \A n \in touched \ DOMAIN m_val :
                            logger[n].level = 0 /\ logger[n].appenders = << >>
    BY DEF ConfigApplied
  <2>1. Settled(logger, m_val, touched, {})
    BY DEF IInv, ApplyInv
  <2>2. ASSUME NEW n \in DOMAIN m_val
        PROVE  /\ logger[n].level = m_val[n].level
               /\ m_val[n].formatter \in Formatted \ {Empty}
                    => logger[n].formatter = m_val[n].formatter
               /\ logger[n].appenders = Wanted(m_val[n], logger[n].formatter)
    <3>1. HeadDone(logger[n], m_val[n]) /\ Progress(logger[n], m_val[n], << >>)
      BY <2>1 DEF Settled, Applied
    <3>2. /\ m_val \in Values /\ logger \in [Names -> Loggers] /\ DOMAIN m_val \subseteq Names
          /\ m_val[n].appenders \in Seq(Defined)
      BY ValueFacts DEF IInv, TypeInv
    <3>3. PICK lg : lg = logger[n]
      OBVIOUS
    <3>4. lg.appenders \in Seq(InUse)
      BY <3>2, <3>3 DEF Loggers
    <3>5. lg.appenders = Wanted(m_val[n], lg.formatter)
      BY <3>1, <3>2, <3>3, <3>4, ProgressEnds
    <3>. QED BY <3>1, <3>3, <3>5, AcceptedIsFormatted DEF HeadDone
  <2>3. ASSUME NEW n \in touched \ DOMAIN m_val
        PROVE  logger[n].level = 0 /\ logger[n].appenders = << >>
    BY <2>1 DEF Settled, Removed
  <2>. QED BY <2>2, <2>3
<1>. QED BY <1>1, InvariantHolds, PTL

(* A FATAL event reaches a destination for as long as the root logger is   *)
(* the one that LoggerManager created.                                     *)
THEOREM FatalAlwaysReaches == Spec => []FatalReaches
<1>1. IInv => FatalReaches
  BY DEF IInv
<1>. QED BY <1>1, InvariantHolds, PTL

=============================================================================
