---------------------------- MODULE RuntimeConf ----------------------------
(***************************************************************************)
(* The runtime configuration: main() fills it from the defaults, the       *)
(* command line and the files; SIGHUP loads the files again into a copy    *)
(* and installs it; the writer goes by it when a metric's first value      *)
(* makes it create a whisper file.                                         *)
(*                                                                         *)
(* Each of the three files is read in one step, and somebody may edit      *)
(* files between two of them.  The pausing of the workers around the       *)
(* installation is CarbonThreads' matter: one round of the writer sees one *)
(* configuration, so the creation of a file is one step here, and so is    *)
(* the installation.                                                       *)
(*                                                                         *)
(* A metric name is the sequence of what stands between its dots, and a    *)
(* path the sequence of its components, the storage directory first.       *)
(***************************************************************************)
EXTENDS ConfParser, FiniteSetsExt

CONSTANTS
  ConfDir,                \* directories CONF_DIR may name, and the default one
  SYSCONFDIR, LOCALSTATEDIR,
  CarbonContents,         \* contents carbon.conf may have
  SchemaContents, AggregationContents,
  InitialFiles,           \* the files there may be at first: [carbon, schemas, aggregations]
  Options,                \* sets of options on the command line
  Name,                   \* metric names
  Matching,               \* pairs <<pattern, name>> for which pcre_exec() succeeds
  BadPattern,             \* patterns pcre_compile() refuses
  Timestamps,             \* timestamps of values
  DirFails,               \* whether stat() and mkdir() may fail
  MaxEdits,               \* bound: edits of files
  MaxHup,                 \* bound: SIGHUPs
  MaxFiles                \* bound: whisper files

ASSUME ConfAssumption ==
  /\ SYSCONFDIR \in ConfDir
  /\ InitialFiles \subseteq [carbon : CarbonContents, schemas : [ConfDir -> SchemaContents],
                            aggregations : [ConfDir -> AggregationContents]]
  /\ Options \subseteq SUBSET {"h", "d", "c"}
  /\ \A name \in Name : Len(name) \in Nat
  /\ Timestamps \subseteq Nat
  /\ MaxEdits \in Nat /\ MaxHup \in Nat /\ MaxFiles \in Nat /\ DirFails \in BOOLEAN

(* Files are finite; the ports they give are numbers, and the default port  *)
(* fits an int.                                                             *)
ASSUME ContentsAssumption ==
  /\ \A f \in CarbonContents :
       /\ Len(f.lines) \in Nat
       /\ \A i \in 1 .. Len(f.lines) :
            /\ f.lines[i][1] = "CONF_DIR" => f.lines[i][2] \in ConfDir
            /\ f.lines[i][1] \in DOMAIN PortKey => f.lines[i][2] \in Int
  /\ \A f \in SchemaContents :
       /\ Len(f.lines) \in Nat
       /\ \A i \in 1 .. Len(f.lines) :
            f.lines[i][1] = "retentions" => Len(f.lines[i][2]) \in Nat
  /\ \A f \in AggregationContents : Len(f.lines) \in Nat
  /\ 2003 < Wrap

Absent == [there |-> FALSE, lines |-> <<>>]       \* fopen() fails
Text(lines) == [there |-> TRUE, lines |-> lines]

VARIABLES
  carbon, schemas, aggregations,   \* the file conf_file names; the others, per directory
  proc,      \* the process: "args", "starting", "running", or how it ended
  load,      \* the load in progress: [pc, conf, read]
  conf,      \* the runtime configuration
  dirs,      \* directories made under the storage directories
  wsp,       \* whisper files: [path, name, retentions, aggregation, by]
  edits, hups,
  from,      \* history: what the files held when conf was loaded
  keys,      \* history: keys of carbon.conf that some installed load set
  opts,      \* the options given
  dropped    \* why the last value of a new metric was dropped

fileVars == <<carbon, schemas, aggregations, edits>>
loadVars == <<load, hups>>
confVars == <<conf, from, keys, opts>>
treeVars == <<dirs, wsp, dropped>>
vars == <<fileVars, proc, loadVars, confVars, treeVars>>

NothingRead == [carbon |-> <<>>, schema |-> <<>>, aggregation |-> <<>>]

default_conf ==
  [conf_dir |-> SYSCONFDIR, conf_file |-> "default", storage_dir |-> LOCALSTATEDIR,
   line_receiver_port |-> 2003, udp_receiver_port |-> 2003,
   tracing |-> FALSE, log_level |-> "info", schema |-> <<>>, aggregation |-> <<>>]
NoLoad == [pc |-> "idle", conf |-> default_conf, read |-> NothingRead]

Init ==
  /\ \E f \in InitialFiles : carbon = f.carbon /\ schemas = f.schemas
                              /\ aggregations = f.aggregations
  /\ proc = "args" /\ load = NoLoad /\ conf = default_conf
  /\ dirs = {} /\ wsp = {}
  /\ edits = 0 /\ hups = 0 /\ from = NothingRead /\ keys = {} /\ opts = {}
  /\ dropped = "none"

-----------------------------------------------------------------------------
(* main() up to the launch of the threads                                   *)

(* The memory for the path given with -c is not cleared and strncpy() does  *)
(* not end the string: garbage may follow the path.                         *)
Outcomes(o) == IF "c" \in o THEN {o, o \cup {"garbled"}} ELSE {o}

WithOptions(c, o) ==
  [c EXCEPT !.conf_file = IF "garbled" \in o THEN "garbled" ELSE IF "c" \in o THEN "given" ELSE @,
            !.tracing   = IF "d" \in o THEN TRUE ELSE @,
            !.log_level = IF "d" \in o THEN "debug" ELSE @]

(* parse_args(), then conf_parse() of the configuration itself              *)
parse_args(o) ==
  /\ proc = "args"
  /\ opts' \in Outcomes(o)
  /\ IF "h" \in o
       THEN proc' = "exit" /\ UNCHANGED load
       ELSE /\ proc' = "starting"
            /\ load' = [NoLoad EXCEPT !.pc = "carbon", !.conf = WithOptions(default_conf, opts')]
  /\ UNCHANGED <<fileVars, hups, conf, from, keys, treeVars>>

-----------------------------------------------------------------------------
(* conf_parse(): three files, and the first error ends it                   *)

Parsing(pc) == proc \in {"starting", "running"} /\ load.pc = pc

(* main() returns EXIT_FAILURE; conf_reload() goes on with the old          *)
(* configuration.                                                           *)
ParseError ==
  /\ proc' = IF proc = "starting" THEN "failure" ELSE proc
  /\ load' = NoLoad

conf_parse_carbon_file ==
  /\ Parsing("carbon")
  /\ LET r == carbon_file(load.conf, carbon.lines) IN
       IF load.conf.conf_file = "garbled" \/ ~carbon.there \/ r.status # "ok" THEN ParseError
       ELSE /\ load' = [pc |-> "schema", conf |-> r.conf,
                        read |-> [load.read EXCEPT !.carbon = carbon.lines]]
            /\ UNCHANGED proc
  /\ UNCHANGED <<fileVars, hups, confVars, treeVars>>

(* The directory is the one carbon.conf has just named.                     *)
conf_parse_storage_schema_file ==
  /\ Parsing("schema")
  /\ LET file == schemas[load.conf.conf_dir]
         r    == schema_file(file.lines)
     IN  IF ~file.there THEN ParseError
         ELSE IF r.status # "ok" THEN proc' = r.status /\ UNCHANGED load
         ELSE /\ load' = [pc   |-> "aggregation",
                          conf |-> [load.conf EXCEPT !.schema = IF r.rules = <<>> THEN @
                                                                ELSE r.rules],
                          read |-> [load.read EXCEPT !.schema = file.lines]]
              /\ UNCHANGED proc
  /\ UNCHANGED <<fileVars, hups, confVars, treeVars>>

(* Rules are appended to the ones the configuration already has.            *)
conf_parse_storage_aggregation_file ==
  /\ Parsing("aggregation")
  /\ LET file == aggregations[load.conf.conf_dir] IN
       IF ~file.there THEN ParseError
       ELSE /\ load' = [pc   |-> "install",
                        conf |-> [load.conf EXCEPT !.aggregation =
                                                     @ \o aggregation_file(file.lines)],
                        read |-> [load.read EXCEPT !.aggregation = file.lines]]
            /\ UNCHANGED proc
  /\ UNCHANGED <<fileVars, hups, confVars, treeVars>>

Install ==
  /\ Parsing("install")
  /\ conf' = load.conf
  /\ from' = load.read
  /\ keys' = keys \cup {k \in KnownKey : Positions(load.read.carbon, k) # {}}
  /\ load' = NoLoad
  /\ UNCHANGED <<fileVars, hups, opts, treeVars>>

(* main() goes on to launch the threads.                                    *)
start ==
  /\ proc = "starting"
  /\ Install
  /\ proc' = "running"

-----------------------------------------------------------------------------
(* conf_reload()                                                            *)

(* Mutant: the reload starts from the defaults.                             *)
conf_copy_default(c) == default_conf

(* Mutant: the copy keeps the pointer to the aggregation rules.             *)
conf_copy_rules(c) == [c EXCEPT !.schema = <<>>]

conf_copy(c) == [c EXCEPT !.schema = <<>>, !.aggregation = <<>>]

sighup_handler ==
  /\ proc = "running" /\ load.pc = "idle" /\ hups < MaxHup
  /\ hups' = hups + 1
  /\ load' = [NoLoad EXCEPT !.pc = "carbon", !.conf = conf_copy(conf)]
  /\ UNCHANGED <<fileVars, proc, confVars, treeVars>>

(* threads_pause_all(), conf_free(), conf = new_conf, threads_resume_all()  *)
conf_reload ==
  /\ proc = "running"
  /\ Install
  /\ UNCHANGED proc

(* Somebody edits a file.                                                   *)
edit ==
  /\ proc \in {"starting", "running"}
  /\ edits < MaxEdits
  /\ edits' = edits + 1
  /\ \/ carbon' \in CarbonContents /\ UNCHANGED <<schemas, aggregations>>
     \/ /\ \E d \in ConfDir, f \in SchemaContents : schemas' = [schemas EXCEPT ![d] = f]
        /\ UNCHANGED <<carbon, aggregations>>
     \/ /\ \E d \in ConfDir, f \in AggregationContents :
             aggregations' = [aggregations EXCEPT ![d] = f]
        /\ UNCHANGED <<carbon, schemas>>
  /\ UNCHANGED <<proc, loadVars, confVars, treeVars>>

-----------------------------------------------------------------------------
(* The writer: a metric that has no file yet, and one that has              *)

(* strtok_r(name, "."): what stands between the dots, unless nothing does   *)
Tokens(name) ==
  LET among[n \in 0 .. Len(name)] ==
        IF n = 0 THEN <<>>
        ELSE IF name[n] = "" THEN among[n - 1] ELSE Append(among[n - 1], name[n])
  IN  among[Len(name)]
whisper_metric_filename(name) == <<conf.storage_dir>> \o Tokens(name)

(* Mutant: the directory that holds the file is not made.                   *)
whisper_create_dirs_short(name, n) ==
  LET path == whisper_metric_filename(name)
  IN  {SubSeq(path, 1, k) : k \in 1 .. IF n < Len(path) - 2 THEN n ELSE Len(path) - 2}

(* create_dir() of the storage directory and of every component but the     *)
(* last.  mkdir() fails without notice, and once it has, so do the others:  *)
(* n directories of the path exist in the end.                              *)
whisper_create_dirs(name, n) ==
  LET path  == whisper_metric_filename(name)
      depth == IF Len(path) = 1 THEN 1 ELSE Len(path) - 1
  IN  {SubSeq(path, 1, k) : k \in 1 .. IF n < depth THEN n ELSE depth}

(* whisper_pattern_match(): 0 match, 1 no match, 2 error                    *)
whisper_pattern_match(pattern, name) ==
  IF pattern \in BadPattern THEN 2 ELSE IF <<pattern, name>> \in Matching THEN 0 ELSE 1

(* The rules a walk stops at: whichever matches or does not compile.        *)
Stops(rules, name) ==
  {i \in 1 .. Len(rules) : whisper_pattern_match(rules[i].pattern, name) # 1}
RuleAt(rules, name, i) ==
  IF whisper_pattern_match(rules[i].pattern, name) = 2 THEN <<>> ELSE <<rules[i]>>

(* Mutants: the last match wins; the last rule is not looked at.            *)
FirstRule_last(rules, name) ==
  LET S == Stops(rules, name) IN IF S = {} THEN <<>> ELSE RuleAt(rules, name, Max(S))
FirstRule_butlast(rules, name) ==
  LET S == Stops(rules, name) \ {Len(rules)}
  IN  IF S = {} THEN <<>> ELSE RuleAt(rules, name, Min(S))

(* whisper_find_retention() and whisper_find_aggregation() walk the rules   *)
(* in order.  <<>> is NULL: no rule, or an error.                           *)
FirstRule(rules, name) ==
  LET S == Stops(rules, name) IN IF S = {} THEN <<>> ELSE RuleAt(rules, name, Min(S))

whisper_find_retention(name) ==
  LET r == FirstRule(conf.schema, name) IN IF r = <<>> THEN <<>> ELSE r[1].retentions
whisper_find_aggregation(name) == FirstRule(conf.aggregation, name)

HasFile(name) == \E w \in wsp : w.path = whisper_metric_filename(name)

WHISPER_POINT_SIZE == 12

(* The size of a ring in bytes, 0 without points and when the product wraps *)
archive_size(retention) ==
  (WHISPER_POINT_SIZE * (retention.store \div retention.tpp)) % Wrap

(* The lower archives a value is propagated to: the loop ends at the first  *)
(* one whose step does not divide the aligned timestamp.                    *)
Reached(retentions, timestamp) ==
  LET aligned == timestamp - (timestamp % retentions[1].tpp)
  IN  {k \in 2 .. Len(retentions) : \A j \in 2 .. k : aligned % retentions[j].tpp = 0}

(* The creation divides by time_per_point.  A point that goes to a ring     *)
(* that is begun already is placed modulo the ring's size, and so is the    *)
(* window of a propagation in the ring above; the share of known points is  *)
(* over the number of steps in the window.                                  *)
DividesByZero(retentions, timestamp, begun) ==
  \/ retentions = <<>>
  \/ \E i \in 1 .. Len(retentions) : retentions[i].tpp = 0
  \/ 1 \in begun /\ archive_size(retentions[1]) = 0
  \/ \E k \in Reached(retentions, timestamp) :
       \/ archive_size(retentions[k - 1]) = 0
       \/ retentions[k].tpp \div retentions[k - 1].tpp = 0
       \/ k \in begun /\ archive_size(retentions[k]) = 0

(* whisper_create_file() of a metric, where mkdir() leaves n directories,   *)
(* and the rest of whisper_write_value(): no ring of the new file is begun. *)
whisper_create_file(name, n, timestamp) ==
  LET path == whisper_metric_filename(name)
      ret  == whisper_find_retention(name)
      agg  == whisper_find_aggregation(name)
      made == dirs \cup whisper_create_dirs(name, n)
  IN  /\ dirs' = made
      /\ CASE agg = <<>> -> dropped' = "aggregation" /\ UNCHANGED <<wsp, proc>>
           [] agg # <<>> /\ Len(path) = 1 -> dropped' = "name" /\ UNCHANGED <<wsp, proc>>
           [] agg # <<>> /\ Len(path) # 1 /\ SubSeq(path, 1, Len(path) - 1) \notin made ->
                dropped' = "directory" /\ UNCHANGED <<wsp, proc>>
           [] OTHER ->
                /\ wsp' = wsp \cup {[path |-> path, name |-> name, retentions |-> ret,
                                     aggregation |-> agg[1], by |-> from]}
                /\ proc' = IF DividesByZero(ret, timestamp, {}) THEN "sigfpe" ELSE proc
                /\ dropped' = "none"

(* whisper_write_value() finds no file.                                     *)
first_value(name, timestamp) ==
  /\ proc = "running" /\ ~HasFile(name)
  /\ Cardinality(wsp) < MaxFiles
  /\ whisper_create_file(name, Len(name) + 1, timestamp)
  /\ UNCHANGED <<fileVars, loadVars, confVars>>

(* The same where a mkdir() fails.                                          *)
mkdir_fails(name, n, timestamp) ==
  /\ proc = "running" /\ DirFails /\ ~HasFile(name)
  /\ Cardinality(wsp) < MaxFiles
  /\ whisper_create_file(name, n, timestamp)
  /\ UNCHANGED <<fileVars, loadVars, confVars>>

(* whisper_write_value() finds the file, which keeps the retentions it was  *)
(* made with.  Which of its rings are begun is WhisperFile's matter: any.   *)
later_value(name, timestamp) ==
  /\ proc = "running"
  /\ \E w \in wsp : \E begun \in SUBSET (1 .. Len(w.retentions)) :
       /\ w.path = whisper_metric_filename(name)
       /\ proc' = IF DividesByZero(w.retentions, timestamp, begun) THEN "sigfpe" ELSE proc
  /\ UNCHANGED <<fileVars, loadVars, confVars, treeVars>>

(* create_dir() exits when stat() fails or finds something that is not a    *)
(* directory.                                                               *)
stat_fails(name) ==
  /\ proc = "running" /\ DirFails /\ ~HasFile(name)
  /\ Cardinality(wsp) < MaxFiles
  /\ proc' = "exit"
  /\ UNCHANGED <<fileVars, loadVars, confVars, treeVars>>

-----------------------------------------------------------------------------
Next ==
  \/ \E o \in Options : parse_args(o)
  \/ conf_parse_carbon_file \/ conf_parse_storage_schema_file
  \/ conf_parse_storage_aggregation_file
  \/ start \/ sighup_handler \/ conf_reload \/ edit
  \/ \E name \in Name : stat_fails(name)
  \/ \E name \in Name : \E timestamp \in Timestamps :
       \/ first_value(name, timestamp) \/ later_value(name, timestamp)
       \/ \E n \in 0 .. Len(name) : mkdir_fails(name, n, timestamp)

Spec == Init /\ [][Next]_vars

-----------------------------------------------------------------------------
(* Properties                                                               *)

LoadPc == {"idle", "carbon", "schema", "aggregation", "install"}

(* Types of the variables; ports fit an int, and the two lists hold rules.  *)
IsConf(c) ==
  /\ c.conf_dir \in ConfDir /\ c.conf_file \in {"default", "given", "garbled"}
  /\ {c.line_receiver_port, c.udp_receiver_port} \subseteq 0 .. Wrap - 1
  /\ c.tracing \in BOOLEAN /\ c.log_level \in {"info", "debug"}
  /\ \A i \in 1 .. Len(c.schema) : DOMAIN c.schema[i] = {"pattern", "retentions"}
  /\ \A i \in 1 .. Len(c.aggregation) :
       /\ DOMAIN c.aggregation[i] = {"pattern", "xff", "method"}
       /\ c.aggregation[i].method \in {"average", "sum", "last", "max", "min", "undef"}
TypeOK ==
  /\ carbon \in CarbonContents
  /\ schemas \in [ConfDir -> SchemaContents]
  /\ aggregations \in [ConfDir -> AggregationContents]
  /\ proc \in {"args", "starting", "running", "exit", "failure", "segv", "sigfpe"}
  /\ load.pc \in LoadPc /\ IsConf(load.conf) /\ IsConf(conf)
  /\ edits \in 0 .. MaxEdits /\ hups \in 0 .. MaxHup
  /\ keys \subseteq KnownKey /\ opts \subseteq {"h", "d", "c", "garbled"}
  /\ dropped \in {"none", "aggregation", "name", "directory"}
  /\ \A w \in wsp : w.name \in Name /\ SubSeq(w.path, 1, Len(w.path) - 1) \in dirs

(* The rules in force are those of the files as they were read for the load *)
(* in force: one per section, in the order of the sections, none of an      *)
(* earlier or of a failed load, where the files have the documented form    *)
(* (conf_parse_storage_schema_file, conf_parse_storage_aggregation_file,    *)
(* conf_copy).                                                              *)
RulesAsWritten ==
  proc = "running" =>
    /\ WellFormed(from.schema, SchemaKeys) => conf.schema = SchemaAsWritten(from.schema)
    /\ WellFormed(from.aggregation, AggregationKeys)
         => conf.aggregation = AggregationAsWritten(from.aggregation)

(* What main() makes of the same files and options.                         *)
Restarted ==
  [carbon_file(WithOptions(default_conf, opts), from.carbon).conf EXCEPT
     !.schema = schema_file(from.schema).rules,
     !.aggregation = aggregation_file(from.aggregation)]

(* A reload leaves the configuration a restart on the same files and        *)
(* options would give, after any number of reloads, failed ones included,   *)
(* as long as carbon.conf still sets every key it has ever set: a key that  *)
(* is removed keeps its former value (conf_reload, conf_copy).              *)
ReloadEqualsRestart ==
  proc = "running" /\ (\A k \in keys : Positions(from.carbon, k) # {}) => conf = Restarted

(* Rule i is the first of the rules that matches the name.                  *)
FirstMatch(rules, name, i) ==
  /\ whisper_pattern_match(rules[i].pattern, name) = 0
  /\ \A j \in 1 .. i - 1 : whisper_pattern_match(rules[j].pattern, name) = 1

(* "Entries are scanned in order, and first match wins": a whisper file is  *)
(* made by the first section that matches its metric, in both files and of  *)
(* one and the same load, even while a reload is under way.  (That the      *)
(* files are scanned for changes every 60 seconds, as they go on to say, is *)
(* not so: only SIGHUP loads them; whisper_find_retention,                  *)
(* whisper_find_aggregation.)                                               *)
FirstMatchWins ==
  \A w \in wsp :
    /\ WellFormed(w.by.schema, SchemaKeys) /\ w.retentions # <<>> =>
         LET rules == SchemaAsWritten(w.by.schema) IN
           \E i \in 1 .. Len(rules) : FirstMatch(rules, w.name, i)
                                       /\ rules[i].retentions = w.retentions
    /\ WellFormed(w.by.aggregation, AggregationKeys) =>
         LET rules == AggregationAsWritten(w.by.aggregation) IN
           \E i \in 1 .. Len(rules) : FirstMatch(rules, w.name, i) /\ rules[i] = w.aggregation

(* Retentions every value can be stored by: each archive has a point, its   *)
(* size does not wrap to 0, and no step is shorter than that of the archive *)
(* before.                                                                  *)
Usable(retentions) ==
  /\ retentions # <<>>
  /\ \A i \in 1 .. Len(retentions) : retentions[i].tpp # 0 /\ archive_size(retentions[i]) # 0
  /\ \A i \in 2 .. Len(retentions) : retentions[i].tpp \div retentions[i - 1].tpp # 0

(* Every metric matches some section, all patterns compile and all          *)
(* retentions are usable.                                                   *)
Complete(lines) ==
  /\ WellFormed(lines, SchemaKeys)
  /\ LET rules == SchemaAsWritten(lines) IN
       /\ \A i \in 1 .. Len(rules) : rules[i].pattern \notin BadPattern
                                     /\ Usable(rules[i].retentions)
       /\ \A name \in Name : \E i \in 1 .. Len(rules) : <<rules[i].pattern, name>> \in Matching

(* A value divides by zero, when its file is made or at any later time and  *)
(* under whatever configuration, only if some file was made by a schema     *)
(* file that had no rule for every metric, or retentions that are not       *)
(* usable (whisper_create_file, whisper_write_value,                        *)
(* whisper_write_point, whisper_write_propagate).                           *)
CompleteSchemaKeepsRunning ==
  proc = "sigfpe" => \E w \in wsp : ~Complete(w.by.schema)

(* When no mkdir() fails the directory of a new file is there, whatever     *)
(* other metrics, failures and changes of STORAGE_DIR have left             *)
(* (whisper_create_dirs).                                                   *)
DirsSuffice ==
  [][(\E name \in Name, timestamp \in Timestamps : first_value(name, timestamp))
       => dropped' # "directory"]_vars
=============================================================================
