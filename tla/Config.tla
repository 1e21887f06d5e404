------------------------------- MODULE Config -------------------------------
(***************************************************************************)
(* How main settles the configuration: the defaults, then the arguments of *)
(* the command line, then the file, line by line.                          *)
(*                                                                         *)
(* A text is the sequence of the pieces that the comparisons tell apart,   *)
(* all of them but "M" written in lower case.  A line is what fgets        *)
(* returns: a comment, a blank, a key with its value, or the "tail" of a   *)
(* comment too long for the buffer.                                        *)
(***************************************************************************)
EXTENDS Integers, Sequences, SequencesExt

CONSTANTS Lines,      \* the lines a file may hold
          Args,       \* the <<flag, text>> pairs of a command line
          Words,      \* what may follow the flags, as sequences of words
          Number,     \* the digits among the pieces -> what they stand for
          KB,         \* 1024
          SOMAXCONN,
          MaxLines, MaxArgs  \* bounds

VARIABLES config,
          debug,    \* -v was given
          words,    \* what follows the flags of the command line
          connect,  \* seed.connect
          step,     \* "args", "load" or "start"
          base,     \* history: the configuration before the file
          said,     \* history: the lines read
          argc      \* history: arguments taken

configVars == <<config, debug, words, connect, step, base, said, argc>>

-----------------------------------------------------------------------------
(* Reading values *)

Lower(text) == [i \in DOMAIN text |-> IF text[i] = "M" THEN "m" ELSE text[i]]

\* strncasecmp over the length of `start`, which is never the longer one.
STREQ(start, text) == IsPrefix(Lower(start), Lower(text))

IsDigits(text) == text # <<>> /\ Head(text) \in DOMAIN Number
parse_int(text) == IF IsDigits(text) THEN Number[Head(text)] ELSE 0
Unit(text) == IF IsDigits(text) THEN Tail(text) ELSE text

read_memory_with_mul(text) ==
  parse_int(text) * CASE STREQ(<<"k", "b">>, Unit(text)) -> KB
                      [] STREQ(<<"m", "b">>, Unit(text)) -> KB * KB
                      [] STREQ(<<"g", "b">>, Unit(text)) -> KB * KB * KB
                      [] OTHER -> 1

\* The letter is compared as it is: 3M are three seconds, and so are 3h.
read_time_with_mul(text) ==
  parse_int(text) * CASE IsPrefix(<<"m">>, Unit(text)) -> 60
                      [] IsPrefix(<<"d">>, Unit(text)) -> 60 * 60 * 24
                      [] OTHER -> 1

\* The names of lmap that the loop of add_config_value gets to.
lmap == << <<"debug">>, <<"warning">>, <<"error">> >>
level(text, old) ==
  LET fits == {i \in DOMAIN lmap : STREQ(text, lmap[i])}
  IN  IF fits = {} THEN old ELSE lmap[Max(fits)]

\* STREQ has no parentheses: `STREQ(..) ? STANDALONE : CLUSTER` is `true`,
\* which is CLUSTER, for the mode asked about and CLUSTER for any other.
file_mode(text) == "CLUSTER"
args_mode(text) == IF STREQ(<<"cluster">>, text) THEN "CLUSTER" ELSE "STANDALONE"

-----------------------------------------------------------------------------
(* add_config_value: the first option that the key is a start of *)

options ==
  << [name |-> "log_level", text |-> <<"log_", "level">>],
     [name |-> "log_path", text |-> <<"log_", "path">>],
     [name |-> "unix_socket", text |-> <<"unix_socket">>],
     [name |-> "ip_address", text |-> <<"ip_", "address">>],
     [name |-> "ip_port", text |-> <<"ip_", "port">>],
     [name |-> "max_memory", text |-> <<"m", "ax_", "memory">>],
     [name |-> "mem_reclaim_time", text |-> <<"m", "em_reclaim_time">>],
     [name |-> "max_request_size", text |-> <<"m", "ax_", "request_size">>],
     [name |-> "tcp_backlog", text |-> <<"tcp_backlog">>],
     [name |-> "mode", text |-> <<"m", "ode">>] >>

\* Mutant: compares no more than the first piece of the key.
option_of_loose(key) ==
  LET fits == {i \in DOMAIN options : STREQ(<<Head(key)>>, options[i].text)}
  IN  IF fits = {} THEN "none" ELSE options[Min(fits)].name

option_of(key) ==
  LET fits == {i \in DOMAIN options : STREQ(key, options[i].text)}
  IN  IF fits = {} THEN "none" ELSE options[Min(fits)].name

\* The fields an option sets, with what it sets them to.
Settings(c, option, v) ==
  CASE option = "log_level" -> [loglevel |-> level(v, c.loglevel)]
    [] option = "log_path" -> [logpath |-> v]
    [] option = "unix_socket" -> [socket_family |-> "UNIX", hostname |-> v]
    [] option = "ip_address" -> [socket_family |-> "INET", hostname |-> v]
    [] option = "ip_port" -> [port |-> v]
    [] option = "max_memory" -> [max_memory |-> read_memory_with_mul(v)]
    [] option = "mem_reclaim_time" -> [mem_reclaim_time |-> read_time_with_mul(v)]
    [] option = "max_request_size" -> [max_request_size |-> read_memory_with_mul(v)]
    [] option = "tcp_backlog" ->
         [tcp_backlog |-> IF parse_int(v) <= SOMAXCONN THEN parse_int(v) ELSE SOMAXCONN]
    [] option = "mode" -> [mode |-> file_mode(v)]
    [] OTHER -> <<>>

add_config_value(c, key, v) == Settings(c, option_of(key), v) @@ c

-----------------------------------------------------------------------------
(* main *)

config_set_default ==
  [mode |-> "STANDALONE", socket_family |-> "INET", loglevel |-> <<"info">>,
   logpath |-> <<"default">>, hostname |-> <<"default">>, port |-> <<"default">>,
   max_memory |-> 4 * KB * KB * KB, mem_reclaim_time |-> 60 * 60 * 24,
   max_request_size |-> 2 * KB * KB, tcp_backlog |-> SOMAXCONN]

Init ==
  /\ config = config_set_default /\ debug = FALSE
  /\ words = <<>> /\ connect = FALSE /\ step = "args" /\ argc = 0
  /\ base = config /\ said = <<>>

\* getopt: an argument sets its option at once, -v when all are read.
Argument ==
  /\ step = "args" /\ argc < MaxArgs
  /\ \E a \in Args :
       /\ debug' = (debug \/ a[1] = "v")
       /\ config' = CASE a[1] = "a" -> [config EXCEPT !.hostname = a[2]]
                      [] a[1] = "p" -> [config EXCEPT !.port = a[2]]
                      [] a[1] = "m" -> [config EXCEPT !.mode = args_mode(a[2])]
                      [] a[1] = "v" -> config
  /\ argc' = argc + 1
  /\ UNCHANGED <<words, connect, step, base, said>>

\* The level is set, and the file opened if there is one.
Load ==
  /\ step = "args"
  /\ config' = [config EXCEPT !.loglevel = IF debug THEN <<"debug">> ELSE <<"warning">>]
  /\ step' = "load" /\ base' = config'
  /\ UNCHANGED <<debug, words, connect, said, argc>>

\* A turn of the loop of config_load.  The test for a line without a value
\* looks at the start of the line, so that such a line goes on.
ReadLine ==
  /\ step = "load" /\ Len(said) < MaxLines
  /\ \E line \in Lines :
       /\ said' = Append(said, line)
       /\ config' = IF line.kind \in {"comment", "blank"} THEN config
                    ELSE add_config_value(config, line.key, line.value)
  /\ UNCHANGED <<debug, words, connect, step, base, argc>>

\* The end of the file.  `STREQ(..) == 0` is true of every word.
Start ==
  /\ step = "load" /\ step' = "start"
  /\ words' \in Words
  /\ connect' = (words' # <<>>)
  /\ UNCHANGED <<config, debug, base, said, argc>>

Next == Argument \/ Load \/ ReadLine \/ Start

Spec == Init /\ [][Next]_configVars
-----------------------------------------------------------------------------
(* Properties *)

Read == SelectSeq(said, LAMBDA line : line.kind = "entry")
Named(line) == CHOOSE name \in {options[i].name : i \in DOMAIN options} \cup {"none"} :
                 \A i \in DOMAIN options :
                   (options[i].name = name) <=> (options[i].text = line.key)

\* A file whose lines spell their keys out and give a value.
Plain == \A i \in DOMAIN said :
           /\ said[i].kind # "tail"
           /\ said[i].kind = "entry" =>
                said[i].value # <<>> /\ \A o \in Range(options) :
                                         STREQ(said[i].key, o.text) => o.text = said[i].key

\* The last line of the file about a field, if it has one.
About(field) == {i \in DOMAIN Read :
                   field \in DOMAIN Settings(base, Named(Read[i]), Read[i].value)}
Meant(field) ==
  IF About(field) = {} THEN base[field]
  ELSE LET line == Read[Max(About(field))]
       IN  Settings(base, Named(line), line.value)[field]

\* A file of plain lines gives every field but the level what its last line
\* about the field says and leaves the others as the command line set them; and
\* the socket is a Unix one just when the address is a path, however the lines
\* and the arguments are mixed (add_config_value, config_load).
FileObeyed ==
  step # "args" /\ Plain =>
    /\ \A field \in DOMAIN config \ {"loglevel"} : config[field] = Meant(field)
    /\ config.socket_family = "UNIX" <=>
         About("hostname") # {} /\ Named(Read[Max(About("hostname"))]) = "unix_socket"

Levels == {<<"debug">>, <<"info">>, <<"information">>, <<"warning">>, <<"error">>}

\* The level is the one the last plain line names: "Could be either DEBUG,
\* INFO/INFORMATION, WARNING, ERROR" (conf/triedb.conf).
LevelObeyed ==
  \A i \in DOMAIN said :
    /\ i = Len(said) /\ said[i].kind = "entry"
    /\ said[i].key = <<"log_", "level">> /\ said[i].value \in Levels
    => config.loglevel = said[i].value

\* The mode is the one the last line names: "Instance run mode, can be either
\* STANDALONE for a single node or CLUSTER for a distributed system" (config.h).
ModeObeyed ==
  \A i \in DOMAIN said :
    /\ i = Len(said) /\ said[i].kind = "entry"
    /\ said[i].key = <<"m", "ode">> /\ said[i].value = <<"standalone">>
    => config.mode = "STANDALONE"

\* A line without a value changes nothing: "Ignore eventually incomplete
\* configuration, but notify it" (config.c).
IncompleteIgnored ==
  [][said' # said /\ Last(said').kind = "entry" /\ Last(said').value = <<>>
       => config' = config]_configVars

\* A node joins another one when it is told to ("join", triedb.c).
JoinsWhenTold == connect => Head(words) = "join"
=============================================================================
