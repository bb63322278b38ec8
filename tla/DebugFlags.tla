----------------------------- MODULE DebugFlags -----------------------------
(***************************************************************************)
(* What a process logs: -d and -t of its command line, and the file        *)
(* <centre_id>.debug that it reads again and again (type debugFlag of      *)
(* cmd/antiloop).                                                          *)
(*                                                                         *)
(* Most categories are looked up at every message; "paho" and "dedup"      *)
(* switch a logger of another package when they change.  The watcher runs  *)
(* beside the goroutines that log.                                         *)
(***************************************************************************)
EXTENDS Naturals, Sequences

CONSTANTS
  CommandLines,  \* [words, topics] that -d and -t may give
  Contents,      \* [words, topics] that the file may hold; both {} is no file
  LoggedTopics,  \* to log or not; they and filters are sequences of levels
  MaxEdits       \* bound

Switched   == {"paho", "dedup"}
Categories == Switched \cup {"checks"}
Words      == Categories \cup {"all"}

Empty == [words |-> {}, topics |-> {}]

DebugFlagsAssumption ==
  /\ \A c \in CommandLines \cup Contents : c.words \subseteq Words
  /\ Empty \in Contents
  /\ MaxEdits \in Nat

VARIABLES
  static,        \* -d
  topicStatic,   \* -t
  file,
  at,            \* what the watcher does next
  next,          \* what it has read
  dynamic, topicDynamic,
  applied,       \* pahoLogging, dedupLogging
  logger,        \* logger[c]: the loggers as the packages have them
  edits

flags == <<static, topicStatic>>
vars == <<flags, file, at, next, dynamic, topicDynamic, applied, logger, edits>>

In(set, category) == {"all", category} \cap set # {}

\* main() sets both loggers from -d before the watcher starts.
Init ==
  /\ \E c \in CommandLines : static = c.words /\ topicStatic = c.topics
  /\ file \in Contents
  /\ at = "read" /\ next = Empty
  /\ dynamic = {} /\ topicDynamic = {}
  /\ applied = [c \in Switched |-> In(static, c)]
  /\ logger = applied
  /\ edits = 0

-----------------------------------------------------------------------------
(* reloadFile                                                              *)

Read ==
  /\ at = "read" /\ next' = file
  /\ at' = "store"
  /\ UNCHANGED <<flags, file, dynamic, topicDynamic, applied, logger, edits>>

Store ==
  /\ at = "store" /\ dynamic' = next.words
  /\ at' = "paho"
  /\ UNCHANGED <<flags, file, next, topicDynamic, applied, logger, edits>>

\* Mutant, as it was: only -d switches a logger.
SwitchNothing(c) ==
  /\ at = c /\ at' = IF c = "paho" THEN "dedup" ELSE "topics"
  /\ UNCHANGED <<flags, file, next, dynamic, topicDynamic, applied, logger, edits>>

\* EnableLogging, if that is not what was applied last.
Switch(c) ==
  LET on == In(static, c) \/ In(next.words, c) IN
  /\ at = c /\ at' = IF c = "paho" THEN "dedup" ELSE "topics"
  /\ logger' = IF applied[c] # on THEN [logger EXCEPT ![c] = on] ELSE logger
  /\ applied' = [applied EXCEPT ![c] = on]
  /\ UNCHANGED <<flags, file, next, dynamic, topicDynamic, edits>>

StoreTopics ==
  /\ at = "topics" /\ topicDynamic' = next.topics
  /\ at' = "read" /\ next' = Empty
  /\ UNCHANGED <<flags, file, dynamic, applied, logger, edits>>

\* Somebody writes or removes the file.
Edit ==
  /\ edits < MaxEdits /\ edits' = edits + 1
  /\ file' \in Contents /\ file' # file
  /\ UNCHANGED <<flags, at, next, dynamic, topicDynamic, applied, logger>>

Reload == Read \/ Store \/ (\E c \in Switched : Switch(c)) \/ StoreTopics

Next == Reload \/ Edit

\* The watcher's ticker.
Fairness == WF_vars(Reload)

Spec == Init /\ [][Next]_vars /\ Fairness

-----------------------------------------------------------------------------
(* What is logged.                                                         *)

Has(category) == In(static, category) \/ In(dynamic, category)

\* Mutant: '#' stands for at least one level.
mqttTopicMatchBelow(filter, topic) ==
  LET from[i \in Nat] ==
        CASE i > Len(filter) -> Len(topic) = Len(filter)
          [] i <= Len(filter) /\ i > Len(topic) -> FALSE
          [] i = Len(filter) /\ filter[i] = "#" -> TRUE
          [] OTHER -> filter[i] \in {"+", topic[i]} /\ from[i + 1]
  IN from[1]

\* Level by level; '#' is special in last place only.
mqttTopicMatch(filter, topic) ==
  LET from[i \in Nat] ==
        CASE i > Len(filter) -> Len(topic) = Len(filter)
          [] i = Len(filter) /\ filter[i] = "#" -> TRUE
          [] i <= Len(filter) /\ i > Len(topic) -> FALSE
          [] OTHER -> filter[i] \in {"+", topic[i]} /\ from[i + 1]
  IN from[1]

match(filters, topic) == filters = {} \/ \E f \in filters : mqttTopicMatch(f, topic)
TopicMatch(topic) == match(topicStatic \cup topicDynamic, topic)

-----------------------------------------------------------------------------

TypeOK ==
  /\ [words |-> static, topics |-> topicStatic] \in CommandLines
  /\ file \in Contents /\ next \in Contents
  /\ at \in {"read", "store", "topics"} \cup Switched
  /\ dynamic \subseteq Words
  /\ topicDynamic \in {c.topics : c \in Contents}
  /\ applied \in [Switched -> BOOLEAN] /\ logger \in [Switched -> BOOLEAN]
  /\ edits \in 0..MaxEdits

\* What MQTT says of a filter: a last level '#' stands for the level above it
\* and any number of levels below, '+' for one.
Covers(filter, topic) ==
  LET n == Len(filter)
      open == n > 0 /\ filter[n] = "#"
      fixed == IF open THEN n - 1 ELSE n
  IN /\ IF open THEN Len(topic) >= fixed ELSE Len(topic) = fixed
     /\ \A i \in 1..fixed : filter[i] \in {"+", topic[i]}

\* When nobody edits the file any more, what is logged comes to be, and stays,
\* what it and the command line ask for together: for the categories that are
\* looked up, for those that switch a logger, on and off again, and by topic.
LoggingFollowsFile ==
  LET words == static \cup file.words
      filters == topicStatic \cup file.topics
  IN <>[](/\ \A c \in Categories : Has(c) <=> In(words, c)
          /\ \A c \in Switched : logger[c] <=> In(words, c)
          /\ \A topic \in LoggedTopics :
               TopicMatch(topic) <=> (filters = {} \/ \E f \in filters : Covers(f, topic)))
=============================================================================
