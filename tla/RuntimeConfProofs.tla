-------------------------- MODULE RuntimeConfProofs --------------------------
(***************************************************************************)
(* Proofs about RuntimeConf, for any contents of the files, any number of  *)
(* edits and reloads, and any metrics.                                     *)
(***************************************************************************)
EXTENDS RuntimeConf, ConfParserProofs

-----------------------------------------------------------------------------
(* The walk over the rules                                                  *)

(* A nonempty set of natural numbers has a least member.                    *)
LEMMA LeastOf ==
  ASSUME NEW S, S \subseteq Nat, S # {}
  PROVE  Min(S) \in S /\ \A y \in S : Min(S) <= y
<1> DEFINE R == OpToRel(<, Nat)
<1>1. IsWellFoundedOn(R, Nat)
  BY NatLessThanWellFounded
<1>2. PICK x \in S : \A y \in S : ~(<<y, x>> \in R)
  <2> HIDE DEF R
  <2> QED
    BY <1>1, WFMin
<1>3. \A y \in S : x <= y
  <2> SUFFICES ASSUME NEW y \in S, y < x PROVE FALSE
    OBVIOUS
  <2>1. y \in Nat /\ x \in Nat
    OBVIOUS
  <2>2. <<y, x>> \in R
    BY <2>1, SMT DEF OpToRel
  <2> HIDE DEF R
  <2> QED
    BY <1>2, <2>2
<1> QED
  BY <1>3, Zenon DEF Min

(* whisper_find_retention() and whisper_find_aggregation() stop at the      *)
(* first rule that matches, if all before it compile.                       *)
LEMMA FirstRuleMatches ==
  ASSUME NEW rules, Len(rules) \in Nat, NEW name, FirstRule(rules, name) # <<>>
  PROVE  \E i \in 1 .. Len(rules) :
           FirstMatch(rules, name, i) /\ FirstRule(rules, name) = <<rules[i]>>
<1> DEFINE S == Stops(rules, name)
           m == Min(S)
<1>1. S # {} /\ FirstRule(rules, name) = RuleAt(rules, name, m)
  BY DEF FirstRule
<1>2. m \in S /\ \A y \in S : m <= y
  <2>1. S \subseteq Nat
    BY DEF Stops
  <2> HIDE DEF S
  <2> QED
    BY <1>1, <2>1, LeastOf
<1>3. m \in 1 .. Len(rules) /\ whisper_pattern_match(rules[m].pattern, name) # 1
  BY <1>2 DEF Stops
<1> HIDE DEF m
<1>4. whisper_pattern_match(rules[m].pattern, name) # 2
  BY <1>1 DEF RuleAt
<1>5. whisper_pattern_match(rules[m].pattern, name) = 0 /\ FirstRule(rules, name) = <<rules[m]>>
  BY <1>1, <1>3, <1>4 DEF whisper_pattern_match, RuleAt
<1>6. ASSUME NEW j \in 1 .. m - 1 PROVE whisper_pattern_match(rules[j].pattern, name) = 1
  <2>1. j \in 1 .. Len(rules) /\ ~(m <= j)
    BY <1>3
  <2> QED
    BY <1>2, <2>1 DEF Stops
<1> QED
  BY <1>3, <1>5, <1>6 DEF FirstMatch

(* They find a rule when all compile and one matches.                       *)
LEMMA FirstRuleFound ==
  ASSUME NEW rules, Len(rules) \in Nat, NEW name,
         \A i \in 1 .. Len(rules) : rules[i].pattern \notin BadPattern,
         \E i \in 1 .. Len(rules) : <<rules[i].pattern, name>> \in Matching
  PROVE  \E i \in 1 .. Len(rules) : FirstRule(rules, name) = <<rules[i]>>
<1> DEFINE S == Stops(rules, name)
           m == Min(S)
<1>1. S # {}
  <2>1. PICK i \in 1 .. Len(rules) : <<rules[i].pattern, name>> \in Matching
    OBVIOUS
  <2>2. whisper_pattern_match(rules[i].pattern, name) = 0
    BY <2>1 DEF whisper_pattern_match
  <2> QED
    BY <2>2 DEF Stops
<1>2. m \in S
  <2>1. S \subseteq Nat
    BY DEF Stops
  <2> HIDE DEF S
  <2> QED
    BY <1>1, <2>1, LeastOf
<1>3. m \in 1 .. Len(rules)
  BY <1>2 DEF Stops
<1>4. FirstRule(rules, name) = RuleAt(rules, name, m)
  BY <1>1 DEF FirstRule
<1> HIDE DEF m
<1>5. whisper_pattern_match(rules[m].pattern, name) # 2
  BY <1>3 DEF whisper_pattern_match
<1> QED
  BY <1>3, <1>4, <1>5 DEF RuleAt

-----------------------------------------------------------------------------
(* What a load has made so far                                              *)

Members == {"conf_dir", "conf_file", "storage_dir", "line_receiver_port", "udp_receiver_port",
            "tracing", "log_level", "schema", "aggregation"}
Lists   == {"schema", "aggregation"}

IsRecord(c) == DOMAIN c = Members /\ c = [x \in Members |-> c[x]]

(* The members that are not lists have their types.                         *)
Plain(c) ==
  /\ c.conf_dir \in ConfDir /\ c.conf_file \in {"default", "given", "garbled"}
  /\ c.line_receiver_port \in 0 .. Wrap - 1 /\ c.udp_receiver_port \in 0 .. Wrap - 1
  /\ c.tracing \in BOOLEAN /\ c.log_level \in {"info", "debug"}

ParsedSchema(rules, lines) ==
  /\ Len(lines) \in Nat /\ schema_file(lines).status = "ok" /\ rules = schema_file(lines).rules
  /\ \A i \in 1 .. Len(lines) : lines[i][1] = "retentions" => Len(lines[i][2]) \in Nat
ParsedAggregation(rules, lines) == Len(lines) \in Nat /\ rules = aggregation_file(lines)

(* Members are as options o leave them unless a key in ks has set them.     *)
Base(o) == WithOptions(default_conf, o)
Kept(c, ks, o) == \A x \in Members \ Lists : c[x] = Base(o)[x] \/ \E k \in ks : Field(k) = x

(* Members are as carbon.conf makes them at a start with options o, unless  *)
(* a key in ks that the file does not have has set them.                    *)
Fresh(c, lines, ks, o) ==
  /\ Len(lines) \in Nat /\ carbon_file(Base(o), lines).status = "ok"
  /\ \A x \in Members \ Lists :
       \/ c[x] = carbon_file(Base(o), lines).conf[x]
       \/ \E k \in ks : Field(k) = x /\ Positions(lines, k) = {}

FileKeys(lines) == {k \in KnownKey : Positions(lines, k) # {}}

Read(a, s, g) == [carbon |-> a, schema |-> s, aggregation |-> g]
Load(pc, c, a, s, g) == [pc |-> pc, conf |-> c, read |-> Read(a, s, g)]

(* The load in progress, file by file                                       *)
LoadOK(l, ks, o) ==
  /\ l = Load(l.pc, l.conf, l.read.carbon, l.read.schema, l.read.aggregation)
  /\ l.pc \in LoadPc /\ IsRecord(l.conf) /\ Plain(l.conf)
  /\ l.pc \in {"idle", "carbon", "schema"} => l.conf.schema = <<>>
  /\ l.pc \in {"idle", "carbon", "schema", "aggregation"} => l.conf.aggregation = <<>>
  /\ l.pc \in {"aggregation", "install"} => ParsedSchema(l.conf.schema, l.read.schema)
  /\ l.pc = "install" => ParsedAggregation(l.conf.aggregation, l.read.aggregation)
  /\ l.pc = "carbon" => Kept(l.conf, ks, o)
  /\ l.pc \in {"schema", "aggregation", "install"} =>
       /\ Fresh(l.conf, l.read.carbon, ks, o)
       /\ Kept(l.conf, ks \cup FileKeys(l.read.carbon), o)

(* The configuration in force, and what the files held                      *)
ConfOK(c, f, ks, o) ==
  /\ ParsedSchema(c.schema, f.schema) /\ ParsedAggregation(c.aggregation, f.aggregation)
  /\ Fresh(c, f.carbon, ks, o) /\ Kept(c, ks, o)

(* The defaults, with options.                                              *)
LEMMA BaseForm ==
  ASSUME NEW o
  PROVE  /\ IsRecord(default_conf) /\ Plain(default_conf)
         /\ default_conf.schema = <<>> /\ default_conf.aggregation = <<>>
         /\ IsRecord(Base(o)) /\ Plain(Base(o))
         /\ Base(o).schema = <<>> /\ Base(o).aggregation = <<>>
<1>1. 2003 \in 0 .. Wrap - 1 /\ SYSCONFDIR \in ConfDir
  BY ContentsAssumption, ParserAssumption, ConfAssumption
<1>2. IsRecord(default_conf) /\ default_conf.schema = <<>> /\ default_conf.aggregation = <<>>
  BY DEF default_conf, IsRecord, Members
<1>3. Plain(default_conf)
  BY <1>1 DEF default_conf, Plain
<1>4. /\ IsRecord(Base(o))
      /\ Base(o).schema = <<>> /\ Base(o).aggregation = <<>>
  BY <1>2 DEF Base, WithOptions, IsRecord, Members
<1>5. Plain(Base(o))
  <2>1. /\ Base(o).conf_dir = default_conf.conf_dir
        /\ Base(o).line_receiver_port = default_conf.line_receiver_port
        /\ Base(o).udp_receiver_port = default_conf.udp_receiver_port
        /\ Base(o).conf_file \in {"default", "given", "garbled"}
        /\ Base(o).tracing \in BOOLEAN /\ Base(o).log_level \in {"info", "debug"}
    BY <1>2, <1>3 DEF Base, WithOptions, IsRecord, Members, Plain
  <2> QED
    BY <1>3, <2>1 DEF Plain
<1> QED
  BY <1>2, <1>3, <1>4, <1>5

(* No load.                                                                 *)
LEMMA NoLoadOK ==
  ASSUME NEW ks, NEW o
  PROVE  LoadOK(NoLoad, ks, o) /\ NoLoad.pc = "idle"
<1>1. /\ NoLoad = Load("idle", default_conf, <<>>, <<>>, <<>>)
      /\ NoLoad.pc = "idle" /\ NoLoad.conf = default_conf
      /\ NoLoad.read.carbon = <<>> /\ NoLoad.read.schema = <<>> /\ NoLoad.read.aggregation = <<>>
  BY DEF NoLoad, Load, Read, NothingRead
<1> QED
  BY <1>1, BaseForm DEF LoadOK, LoadPc

(* A load begins with a configuration that has no rules.                    *)
LEMMA LoadBegins ==
  ASSUME NEW ks, NEW o, NEW c, IsRecord(c), Plain(c), c.schema = <<>>, c.aggregation = <<>>,
         Kept(c, ks, o), NEW l, l = [NoLoad EXCEPT !.pc = "carbon", !.conf = c]
  PROVE  LoadOK(l, ks, o)
<1>1. /\ l = Load("carbon", c, <<>>, <<>>, <<>>) /\ l.pc = "carbon" /\ l.conf = c
      /\ l.read.carbon = <<>> /\ l.read.schema = <<>> /\ l.read.aggregation = <<>>
  BY DEF NoLoad, Load, Read, NothingRead
<1> QED
  BY <1>1 DEF LoadOK, LoadPc

(* The command line.                                                        *)
LEMMA BaseKept ==
  ASSUME NEW ks, NEW o
  PROVE  Kept(Base(o), ks, o)
BY DEF Kept

(* A copy for a reload: the members that are not lists are the old ones.    *)
LEMMA CopyKept ==
  ASSUME NEW ks, NEW o, NEW c, IsRecord(c), Plain(c), Kept(c, ks, o)
  PROVE  /\ IsRecord(conf_copy(c)) /\ Plain(conf_copy(c))
         /\ conf_copy(c).schema = <<>> /\ conf_copy(c).aggregation = <<>>
         /\ Kept(conf_copy(c), ks, o)
<1> DEFINE d == conf_copy(c)
<1>1. IsRecord(d) /\ d.schema = <<>> /\ d.aggregation = <<>>
      /\ \A x \in Members \ Lists : d[x] = c[x]
  BY DEF conf_copy, IsRecord, Members, Lists
<1> HIDE DEF d
<1>2. /\ d.conf_dir = c.conf_dir /\ d.conf_file = c.conf_file
      /\ d.line_receiver_port = c.line_receiver_port
      /\ d.udp_receiver_port = c.udp_receiver_port
      /\ d.tracing = c.tracing /\ d.log_level = c.log_level
  BY <1>1 DEF Members, Lists
<1>3. Plain(d)
  BY <1>2 DEF Plain
<1>4. Kept(d, ks, o)
  BY <1>1 DEF Kept
<1> QED
  BY <1>1, <1>3, <1>4 DEF d

(* The members of a load.                                                   *)
LEMMA LoadMembers ==
  \A p, c, a, s, g :
    /\ Load(p, c, a, s, g).pc = p /\ Load(p, c, a, s, g).conf = c
    /\ Load(p, c, a, s, g).read = Read(a, s, g)
    /\ Load(p, c, a, s, g).read.carbon = a /\ Load(p, c, a, s, g).read.schema = s
    /\ Load(p, c, a, s, g).read.aggregation = g
<1>1. \A a, s, g : /\ Read(a, s, g).carbon = a /\ Read(a, s, g).schema = s
                   /\ Read(a, s, g).aggregation = g
  BY DEF Read
<1>2. \A p, c, a, s, g :
        /\ Load(p, c, a, s, g).pc = p /\ Load(p, c, a, s, g).conf = c
        /\ Load(p, c, a, s, g).read = Read(a, s, g)
  BY DEF Load
<1> QED
  BY <1>1, <1>2

(* What the three parsers note in it.                                       *)
LEMMA ReadMembers ==
  \A a, s, g, x :
    /\ [Read(a, s, g) EXCEPT !.carbon = x] = Read(x, s, g)
    /\ [Read(a, s, g) EXCEPT !.schema = x] = Read(a, x, g)
    /\ [Read(a, s, g) EXCEPT !.aggregation = x] = Read(a, s, x)
BY DEF Read

(* conf_parse_carbon_file() in a load.                                      *)
LEMMA CarbonLoaded ==
  ASSUME NEW ks, ks \subseteq KnownKey, NEW o, NEW l, LoadOK(l, ks, o), l.pc = "carbon",
         NEW file \in CarbonContents, NEW r, r = carbon_file(l.conf, file.lines), r.status = "ok",
         NEW t, t = [pc |-> "schema", conf |-> r.conf, read |-> [l.read EXCEPT !.carbon = file.lines]]
  PROVE  LoadOK(t, ks, o)
<1> DEFINE c == l.conf
           d == r.conf
           lines == file.lines
           b == Base(o)
           q == carbon_file(b, lines)
<1>1. /\ IsRecord(c) /\ Plain(c) /\ c.schema = <<>> /\ c.aggregation = <<>> /\ Kept(c, ks, o)
      /\ l = Load(l.pc, c, l.read.carbon, l.read.schema, l.read.aggregation)
  BY DEF LoadOK
<1>2. Len(lines) \in Nat /\ CarbonValues(lines, ConfDir)
  BY ContentsAssumption DEF CarbonValues
<1>3. IsRecord(b)
  BY BaseForm
<1>4. /\ c = [x \in DOMAIN c |-> c[x]] /\ b = [x \in DOMAIN b |-> b[x]]
      /\ DOMAIN c = Members /\ DOMAIN b = DOMAIN c /\ CarbonField \subseteq DOMAIN c
  BY <1>1, <1>3 DEF IsRecord, CarbonField, Members
<1>5. CarbonFit(c, c, ConfDir)
  BY <1>1 DEF CarbonFit, Plain
<1> HIDE DEF c, lines, b
<1>6. CarbonFit(c, d, ConfDir) /\ CarbonState(r)
  BY <1>2, <1>4, <1>5, CarbonKeepsRest DEF c, lines
<1>7. /\ r.status = q.status
      /\ r.status = "ok" => \A x \in DOMAIN c : c[x] = b[x] \/ HasKey(lines, x) => d[x] = q.conf[x]
      /\ \A x \in DOMAIN c : d[x] = c[x] \/ HasKey(lines, x)
  <2>1. r = carbon_file(c, lines)
    BY DEF c, lines
  <2> QED
    BY <1>2, <1>4, <2>1, CarbonAgrees
<1> HIDE DEF q
<1>8. IsRecord(d) /\ d.schema = <<>> /\ d.aggregation = <<>>
  <2>1. DOMAIN d = Members /\ \A x \in Members : x \notin CarbonField => d[x] = c[x]
    BY <1>4, <1>6 DEF CarbonFit
  <2>2. d["schema"] = c["schema"] /\ d["aggregation"] = c["aggregation"]
    BY <2>1 DEF CarbonField, Members
  <2> QED
    BY <1>1, <1>6, <2>1, <2>2 DEF IsRecord, CarbonState
<1>9. Plain(d)
  <2>1. \A x \in Members : x \notin CarbonField => d[x] = c[x]
    BY <1>4, <1>6 DEF CarbonFit
  <2>2. d.conf_file = c.conf_file /\ d.tracing = c.tracing /\ d.log_level = c.log_level
    BY <2>1 DEF CarbonField, Members
  <2>3. /\ d.conf_dir \in ConfDir /\ d.line_receiver_port \in 0 .. Wrap - 1
        /\ d.udp_receiver_port \in 0 .. Wrap - 1
    BY <1>6 DEF CarbonFit
  <2> QED
    BY <1>1, <2>2, <2>3 DEF Plain
<1>10. Fresh(d, lines, ks, o)
  <2>1. ASSUME NEW x \in Members \ Lists
        PROVE  d[x] = q.conf[x] \/ \E k \in ks : Field(k) = x /\ Positions(lines, k) = {}
    <3>1. CASE c[x] = b[x] \/ HasKey(lines, x)
      BY <1>4, <1>7, <3>1
    <3>2. CASE c[x] # b[x] /\ ~HasKey(lines, x)
      <4>1. PICK k \in ks : Field(k) = x
        BY <1>1, <3>2 DEF Kept, b
      <4>2. Positions(lines, k) = {}
        BY <3>2, <4>1 DEF HasKey
      <4> QED
        BY <4>1, <4>2
    <3> QED
      BY <3>1, <3>2
  <2> QED
    BY <1>2, <1>7, <2>1 DEF Fresh, q, b
<1>11. Kept(d, ks \cup FileKeys(lines), o)
  <2>1. ASSUME NEW x \in Members \ Lists
        PROVE  d[x] = b[x] \/ \E k \in ks \cup FileKeys(lines) : Field(k) = x
    <3>1. CASE HasKey(lines, x)
      BY <3>1 DEF HasKey, FileKeys
    <3>2. CASE d[x] = c[x]
      <4>1. c[x] = b[x] \/ \E k \in ks : Field(k) = x
        BY <1>1 DEF Kept, b
      <4> QED
        BY <3>2, <4>1
    <3> QED
      BY <1>4, <1>7, <3>1, <3>2
  <2> QED
    BY <2>1 DEF Kept, b
<1>12. t = Load("schema", d, lines, l.read.schema, l.read.aggregation)
  <2>1. t = [pc |-> "schema", conf |-> d, read |-> [l.read EXCEPT !.carbon = lines]]
    BY DEF lines
  <2> HIDE DEF d
  <2> QED
    <3>1. l.read = Read(l.read.carbon, l.read.schema, l.read.aggregation)
      BY <1>1, LoadMembers
    <3>2. [l.read EXCEPT !.carbon = lines] = Read(lines, l.read.schema, l.read.aggregation)
      BY <3>1, ReadMembers
    <3> QED
      BY <2>1, <3>2 DEF Load
<1> HIDE DEF d
<1>13. /\ t.pc = "schema" /\ t.conf = d /\ t.read.carbon = lines
       /\ t.read.schema = l.read.schema /\ t.read.aggregation = l.read.aggregation
  BY <1>12, LoadMembers
<1> QED
  BY <1>8, <1>9, <1>10, <1>11, <1>12, <1>13 DEF LoadOK, LoadPc

(* What conf_parse_storage_schema_file() leaves for any file.               *)
LEMMA SchemaFile ==
  ASSUME NEW lines, Len(lines) \in Nat
  PROVE  SchemaState(schema_file(lines))
BY SchemaStates DEF schema_file

(* What conf_parse_storage_aggregation_file() leaves for any file.          *)
LEMMA AggregationFile ==
  ASSUME NEW lines, Len(lines) \in Nat
  PROVE  /\ IsList(aggregation_file(lines))
         /\ \A i \in 1 .. Len(aggregation_file(lines)) :
              /\ DOMAIN aggregation_file(lines)[i] = {"pattern", "xff", "method"}
              /\ aggregation_file(lines)[i].method \in Methods
<1> DEFINE st == Loop("aggregation", NoAggregation, lines)[Len(lines)]
<1>1. AggregationState(st) /\ aggregation_file(lines) = st.rules
  BY AggregationStates DEF aggregation_file
<1> HIDE DEF st
<1>2. ASSUME NEW i \in 1 .. Len(st.rules)
      PROVE  DOMAIN st.rules[i] = {"pattern", "xff", "method"}
  <2>1. st.rules[i] = Aggregation(st.rules[i].pattern, st.rules[i].xff, st.rules[i].method)
    BY <1>1 DEF AggregationState
  <2>2. \A p, x, m : DOMAIN Aggregation(p, x, m) = {"pattern", "xff", "method"}
    BY DEF Aggregation
  <2> QED
    BY <2>1, <2>2, Zenon
<1> QED
  BY <1>1, <1>2 DEF AggregationState

WithList(c, m, v, d) == IsRecord(c) /\ Plain(c) /\ m \in Lists /\ d = [c EXCEPT ![m] = v]

(* A change to a list leaves the other members alone.                       *)
LEMMA ListSet ==
  ASSUME NEW c, NEW m, NEW v, NEW d, WithList(c, m, v, d)
  PROVE  /\ IsRecord(d) /\ Plain(d) /\ d[m] = v
         /\ \A x \in Members : x # m => d[x] = c[x]
         /\ \A ks, o : Kept(c, ks, o) => Kept(d, ks, o)
         /\ \A lines, ks, o : Fresh(c, lines, ks, o) => Fresh(d, lines, ks, o)
<1> USE DEF WithList
<1>1. IsRecord(d) /\ d[m] = v /\ \A x \in Members : x # m => d[x] = c[x]
  BY DEF IsRecord, Members, Lists
<1>2. \A x \in Members \ Lists : d[x] = c[x]
  BY <1>1
<1>3. Plain(d)
  <2>1. /\ d.conf_dir = c.conf_dir /\ d.conf_file = c.conf_file
        /\ d.line_receiver_port = c.line_receiver_port
        /\ d.udp_receiver_port = c.udp_receiver_port
        /\ d.tracing = c.tracing /\ d.log_level = c.log_level
    BY <1>2 DEF Members, Lists
  <2> QED
    BY <2>1 DEF Plain
<1>4. \A ks, o : Kept(c, ks, o) => Kept(d, ks, o)
  BY <1>2 DEF Kept
<1>5. \A lines, ks, o : Fresh(c, lines, ks, o) => Fresh(d, lines, ks, o)
  BY <1>2 DEF Fresh
<1> QED
  BY <1>1, <1>3, <1>4, <1>5

(* conf_parse_storage_schema_file() in a load.                              *)
LEMMA SchemaLoaded ==
  ASSUME NEW ks, NEW o, NEW l, LoadOK(l, ks, o), l.pc = "schema",
         NEW file \in SchemaContents, NEW r, r = schema_file(file.lines), r.status = "ok",
         NEW t, t = [pc   |-> "aggregation",
                     conf |-> [l.conf EXCEPT !.schema = IF r.rules = <<>> THEN @ ELSE r.rules],
                     read |-> [l.read EXCEPT !.schema = file.lines]]
  PROVE  LoadOK(t, ks, o)
<1> DEFINE c == l.conf
           d == [c EXCEPT !["schema"] = r.rules]
           lines == file.lines
<1>1. /\ IsRecord(c) /\ Plain(c) /\ c.schema = <<>> /\ c.aggregation = <<>>
      /\ Fresh(c, l.read.carbon, ks, o) /\ Kept(c, ks \cup FileKeys(l.read.carbon), o)
  BY DEF LoadOK
<1>2. l = Load(l.pc, c, l.read.carbon, l.read.schema, l.read.aggregation)
  BY DEF LoadOK
<1> HIDE DEF c
<1>3. /\ IsRecord(d) /\ Plain(d) /\ d["schema"] = r.rules
      /\ \A x \in Members : x # "schema" => d[x] = c[x]
      /\ Fresh(d, l.read.carbon, ks, o) /\ Kept(d, ks \cup FileKeys(l.read.carbon), o)
  <2>1. WithList(c, "schema", r.rules, d)
    BY <1>1 DEF WithList, Lists
  <2> HIDE DEF d
  <2>2. /\ IsRecord(d) /\ Plain(d) /\ d["schema"] = r.rules
        /\ \A x \in Members : x # "schema" => d[x] = c[x]
        /\ \A qs, p : Kept(c, qs, p) => Kept(d, qs, p)
        /\ \A ls, qs, p : Fresh(c, ls, qs, p) => Fresh(d, ls, qs, p)
    BY <2>1, ListSet
  <2> QED
    BY <1>1, <2>2
<1>4. d.schema = r.rules /\ d.aggregation = <<>>
  BY <1>1, <1>3 DEF Members
<1>5. ParsedSchema(d.schema, lines)
  BY <1>4, ContentsAssumption DEF ParsedSchema
<1>6. t = [pc |-> "aggregation", conf |-> d, read |-> [l.read EXCEPT !.schema = lines]]
  <2>1. (IF r.rules = <<>> THEN c.schema ELSE r.rules) = r.rules
    BY <1>1
  <2> QED
    BY <2>1 DEF c
<1> HIDE DEF d, lines
<1>7. t = Load("aggregation", d, l.read.carbon, lines, l.read.aggregation)
  <2>1. l.read = Read(l.read.carbon, l.read.schema, l.read.aggregation)
    BY <1>2, LoadMembers
  <2>2. [l.read EXCEPT !.schema = lines] = Read(l.read.carbon, lines, l.read.aggregation)
    BY <2>1, ReadMembers
  <2> QED
    BY <1>6, <2>2 DEF Load
<1>8. /\ t.pc = "aggregation" /\ t.conf = d /\ t.read.carbon = l.read.carbon
      /\ t.read.schema = lines /\ t.read.aggregation = l.read.aggregation
  BY <1>7, LoadMembers
<1> QED
  BY <1>3, <1>4, <1>5, <1>7, <1>8 DEF LoadOK, LoadPc

(* conf_parse_storage_aggregation_file() in a load.                         *)
LEMMA AggregationLoaded ==
  ASSUME NEW ks, NEW o, NEW l, LoadOK(l, ks, o), l.pc = "aggregation",
         NEW file \in AggregationContents,
         NEW t, t = [pc   |-> "install",
                     conf |-> [l.conf EXCEPT !.aggregation = @ \o aggregation_file(file.lines)],
                     read |-> [l.read EXCEPT !.aggregation = file.lines]]
  PROVE  LoadOK(t, ks, o)
<1> DEFINE c == l.conf
           lines == file.lines
           rules == aggregation_file(lines)
           d == [c EXCEPT !["aggregation"] = rules]
<1>1. /\ IsRecord(c) /\ Plain(c) /\ c.aggregation = <<>> /\ ParsedSchema(c.schema, l.read.schema)
      /\ Fresh(c, l.read.carbon, ks, o) /\ Kept(c, ks \cup FileKeys(l.read.carbon), o)
  BY DEF LoadOK
<1>2. l = Load(l.pc, c, l.read.carbon, l.read.schema, l.read.aggregation)
  BY DEF LoadOK
<1>3. Len(lines) \in Nat
  BY ContentsAssumption
<1>4. <<>> \o rules = rules
  <2>1. PICK S : rules \in Seq(S)
    BY <1>3, AggregationFile DEF IsList
  <2> HIDE DEF rules
  <2> QED
    BY <2>1
<1> HIDE DEF c, rules
<1>5. /\ IsRecord(d) /\ Plain(d) /\ d["aggregation"] = rules
      /\ \A x \in Members : x # "aggregation" => d[x] = c[x]
      /\ Fresh(d, l.read.carbon, ks, o) /\ Kept(d, ks \cup FileKeys(l.read.carbon), o)
  <2>1. WithList(c, "aggregation", rules, d)
    BY <1>1 DEF WithList, Lists
  <2> HIDE DEF d
  <2>2. /\ IsRecord(d) /\ Plain(d) /\ d["aggregation"] = rules
        /\ \A x \in Members : x # "aggregation" => d[x] = c[x]
        /\ \A qs, p : Kept(c, qs, p) => Kept(d, qs, p)
        /\ \A ls, qs, p : Fresh(c, ls, qs, p) => Fresh(d, ls, qs, p)
    BY <2>1, ListSet
  <2> QED
    BY <1>1, <2>2
<1>6. d.aggregation = rules /\ d.schema = c.schema
  BY <1>5 DEF Members
<1>7. ParsedSchema(d.schema, l.read.schema) /\ ParsedAggregation(d.aggregation, lines)
  BY <1>1, <1>3, <1>6 DEF ParsedAggregation, rules
<1>8. t = [pc |-> "install", conf |-> d, read |-> [l.read EXCEPT !.aggregation = lines]]
  <2>1. c.aggregation \o rules = rules
    BY <1>1, <1>4
  <2> QED
    BY <2>1 DEF c, rules
<1> HIDE DEF d, lines
<1>9. t = Load("install", d, l.read.carbon, l.read.schema, lines)
  <2>1. l.read = Read(l.read.carbon, l.read.schema, l.read.aggregation)
    BY <1>2, LoadMembers
  <2>2. [l.read EXCEPT !.aggregation = lines] = Read(l.read.carbon, l.read.schema, lines)
    BY <2>1, ReadMembers
  <2> QED
    BY <1>8, <2>2 DEF Load
<1>10. /\ t.pc = "install" /\ t.conf = d /\ t.read.carbon = l.read.carbon
       /\ t.read.schema = l.read.schema /\ t.read.aggregation = lines
  <2> DEFINE u == Load("install", d, l.read.carbon, l.read.schema, lines)
  <2>1. /\ u.pc = "install" /\ u.conf = d /\ u.read.carbon = l.read.carbon
        /\ u.read.schema = l.read.schema /\ u.read.aggregation = lines
    BY LoadMembers
  <2> HIDE DEF u
  <2> QED
    BY <1>9, <2>1 DEF u
<1> QED
  BY <1>5, <1>7, <1>9, <1>10 DEF LoadOK, LoadPc

(* The finished load is installed.                                          *)
LEMMA Installed ==
  ASSUME NEW ks, NEW o, NEW l, LoadOK(l, ks, o), l.pc = "install"
  PROVE  /\ IsRecord(l.conf) /\ Plain(l.conf)
         /\ ConfOK(l.conf, l.read, ks \cup FileKeys(l.read.carbon), o)
<1>1. Fresh(l.conf, l.read.carbon, ks \cup FileKeys(l.read.carbon), o)
  BY DEF LoadOK, Fresh
<1> QED
  BY <1>1 DEF LoadOK, ConfOK

(* If the file still has all the keys, a start makes the same of it.        *)
LEMMA SameAsStart ==
  ASSUME NEW c, IsRecord(c), NEW f, NEW ks, NEW o, ConfOK(c, f, ks, o),
         \A k \in ks : Positions(f.carbon, k) # {}
  PROVE  c = [carbon_file(Base(o), f.carbon).conf EXCEPT
                !.schema = schema_file(f.schema).rules,
                !.aggregation = aggregation_file(f.aggregation)]
<1> DEFINE b == Base(o)
           r == carbon_file(b, f.carbon)
           g == [r.conf EXCEPT !.schema = schema_file(f.schema).rules,
                               !.aggregation = aggregation_file(f.aggregation)]
<1>1. /\ Len(f.carbon) \in Nat
      /\ \A x \in Members \ Lists : c[x] = r.conf[x]
      /\ c.schema = schema_file(f.schema).rules
      /\ c.aggregation = aggregation_file(f.aggregation)
  BY DEF ConfOK, Fresh, ParsedSchema, ParsedAggregation
<1>2. DOMAIN r.conf = Members
  <2>1. b = [x \in DOMAIN b |-> b[x]] /\ DOMAIN b = Members /\ CarbonField \subseteq DOMAIN b
    BY BaseForm DEF IsRecord, CarbonField, Members
  <2> HIDE DEF b
  <2> QED
    BY <1>1, <2>1, CarbonAgrees
<1> HIDE DEF r
<1>3. /\ DOMAIN g = Members /\ g = [x \in Members |-> g[x]]
      /\ g["schema"] = schema_file(f.schema).rules
      /\ g["aggregation"] = aggregation_file(f.aggregation)
      /\ \A x \in Members \ Lists : g[x] = r.conf[x]
  BY <1>2 DEF Members, Lists
<1>4. ASSUME NEW x \in Members PROVE c[x] = g[x]
  <2> HIDE DEF g
  <2> QED
    BY <1>1, <1>3 DEF Lists
<1> HIDE DEF g
<1>5. c = g
  BY <1>3, <1>4 DEF IsRecord
<1> QED
  BY <1>5 DEF g, r

-----------------------------------------------------------------------------
(* The invariant of the configuration                                       *)

ConfInv ==
  /\ carbon \in CarbonContents /\ schemas \in [ConfDir -> SchemaContents]
  /\ aggregations \in [ConfDir -> AggregationContents]
  /\ keys \subseteq KnownKey
  /\ LoadOK(load, keys, opts)
  /\ IsRecord(conf) /\ Plain(conf)
  /\ conf = default_conf \/ ConfOK(conf, from, keys, opts)
  /\ proc = "running" => ConfOK(conf, from, keys, opts)
  /\ proc = "args" => load = NoLoad /\ conf = default_conf

(* It holds when main() begins.                                             *)
LEMMA ConfInvInit == Init => ConfInv
<1> SUFFICES ASSUME Init PROVE ConfInv
  OBVIOUS
<1>1. PICK f \in InitialFiles : carbon = f.carbon /\ schemas = f.schemas
                                /\ aggregations = f.aggregations
  BY DEF Init
<1>2. /\ carbon \in CarbonContents /\ schemas \in [ConfDir -> SchemaContents]
      /\ aggregations \in [ConfDir -> AggregationContents]
  BY <1>1, ConfAssumption
<1>3. load = NoLoad /\ conf = default_conf /\ keys = {} /\ proc = "args"
  BY DEF Init
<1> QED
  BY <1>2, <1>3, NoLoadOK, BaseForm DEF ConfInv

(* A step of the writer, or of an editor, leaves the configuration alone.   *)
LEMMA ConfFrame ==
  ASSUME ConfInv,
         carbon' \in CarbonContents, schemas' \in [ConfDir -> SchemaContents],
         aggregations' \in [ConfDir -> AggregationContents],
         UNCHANGED <<keys, load, opts, conf, from>>,
         proc' = proc \/ proc' \notin {"running", "args"}
  PROVE  ConfInv'
<1>1. keys' = keys /\ load' = load /\ opts' = opts /\ conf' = conf /\ from' = from
  OBVIOUS
<1>2. /\ keys' \subseteq KnownKey /\ LoadOK(load', keys', opts')
      /\ IsRecord(conf') /\ Plain(conf')
      /\ conf' = default_conf \/ ConfOK(conf', from', keys', opts')
      /\ proc' = "running" => ConfOK(conf', from', keys', opts')
      /\ proc' = "args" => load' = NoLoad /\ conf' = default_conf
  BY <1>1 DEF ConfInv
<1> QED
  BY <1>2 DEF ConfInv

(* A load changes, the configuration in force does not.                     *)
LEMMA LoadStep ==
  ASSUME ConfInv, proc \in {"starting", "running"},
         UNCHANGED <<carbon, schemas, aggregations, keys, opts, conf, from>>,
         LoadOK(load', keys, opts),
         proc' = proc \/ proc' \notin {"running", "args"}
  PROVE  ConfInv'
<1>1. /\ carbon' = carbon /\ schemas' = schemas /\ aggregations' = aggregations
      /\ keys' = keys /\ opts' = opts /\ conf' = conf /\ from' = from
  OBVIOUS
<1>2. /\ carbon' \in CarbonContents /\ schemas' \in [ConfDir -> SchemaContents]
      /\ aggregations' \in [ConfDir -> AggregationContents]
      /\ keys' \subseteq KnownKey /\ LoadOK(load', keys', opts')
      /\ IsRecord(conf') /\ Plain(conf')
      /\ conf' = default_conf \/ ConfOK(conf', from', keys', opts')
      /\ proc' = "running" => ConfOK(conf', from', keys', opts')
      /\ proc' = "args" => load' = NoLoad /\ conf' = default_conf
  BY <1>1 DEF ConfInv
<1> QED
  BY <1>2 DEF ConfInv

(* parse_args() keeps it.                                                   *)
LEMMA ConfInvArgs ==
  ASSUME ConfInv, NEW o, parse_args(o)
  PROVE  ConfInv'
<1>1. /\ carbon' = carbon /\ schemas' = schemas /\ aggregations' = aggregations
      /\ keys' = keys /\ conf' = conf /\ from' = from /\ proc = "args"
      /\ proc' \in {"exit", "starting"}
  BY DEF parse_args, fileVars
<1>2. load = NoLoad /\ conf = default_conf
  BY <1>1 DEF ConfInv
<1>3. LoadOK(load', keys, opts')
  <2>1. CASE load' = load
    BY <1>2, <2>1, NoLoadOK
  <2>2. CASE load' # load
    <3>1. load' = [NoLoad EXCEPT !.pc = "carbon", !.conf = Base(opts')]
      BY <2>2 DEF parse_args, Base
    <3>2. /\ IsRecord(Base(opts')) /\ Plain(Base(opts'))
          /\ Base(opts').schema = <<>> /\ Base(opts').aggregation = <<>>
      BY BaseForm
    <3>3. Kept(Base(opts'), keys, opts')
      BY BaseKept
    <3> QED
      BY <3>1, <3>2, <3>3, LoadBegins
  <2> QED
    BY <2>1, <2>2
<1>4. /\ carbon' \in CarbonContents /\ schemas' \in [ConfDir -> SchemaContents]
      /\ aggregations' \in [ConfDir -> AggregationContents]
      /\ keys' \subseteq KnownKey /\ LoadOK(load', keys', opts')
      /\ IsRecord(conf') /\ Plain(conf') /\ conf' = default_conf
      /\ proc' # "running" /\ proc' # "args"
  BY <1>1, <1>2, <1>3 DEF ConfInv
<1> QED
  BY <1>4 DEF ConfInv

(* conf_parse_carbon_file() keeps it.                                       *)
LEMMA ConfInvCarbon ==
  ASSUME ConfInv, conf_parse_carbon_file
  PROVE  ConfInv'
<1> DEFINE r == carbon_file(load.conf, carbon.lines)
<1>1. /\ proc \in {"starting", "running"} /\ load.pc = "carbon"
      /\ UNCHANGED <<carbon, schemas, aggregations, keys, opts, conf, from>>
  BY DEF conf_parse_carbon_file, Parsing, fileVars, confVars
<1>2. LoadOK(load, keys, opts) /\ keys \subseteq KnownKey /\ carbon \in CarbonContents
  BY DEF ConfInv
<1>3. CASE ParseError
  <2>1. LoadOK(load', keys, opts)
    BY <1>3, NoLoadOK DEF ParseError
  <2>2. proc' = proc \/ proc' = "failure"
    BY <1>3 DEF ParseError
  <2> QED
    BY <1>1, <2>1, <2>2, LoadStep
<1>4. CASE ~ParseError
  <2>1. /\ r.status = "ok" /\ proc' = proc
        /\ load' = [pc |-> "schema", conf |-> r.conf,
                    read |-> [load.read EXCEPT !.carbon = carbon.lines]]
    BY <1>4 DEF conf_parse_carbon_file
  <2> HIDE DEF r
  <2>2. LoadOK(load', keys, opts)
    BY <1>1, <1>2, <2>1, CarbonLoaded DEF r
  <2> QED
    BY <1>1, <2>1, <2>2, LoadStep
<1> QED
  BY <1>3, <1>4

(* conf_parse_storage_schema_file() keeps it.                               *)
LEMMA ConfInvSchema ==
  ASSUME ConfInv, conf_parse_storage_schema_file
  PROVE  ConfInv'
<1> DEFINE file == schemas[load.conf.conf_dir]
           r == schema_file(file.lines)
<1>1. /\ proc \in {"starting", "running"} /\ load.pc = "schema"
      /\ UNCHANGED <<carbon, schemas, aggregations, keys, opts, conf, from>>
  BY DEF conf_parse_storage_schema_file, Parsing, fileVars, confVars
<1>2. LoadOK(load, keys, opts) /\ file \in SchemaContents
  BY DEF ConfInv, LoadOK, Plain
<1>3. CASE ParseError
  <2>1. LoadOK(load', keys, opts)
    BY <1>3, NoLoadOK DEF ParseError
  <2>2. proc' = proc \/ proc' = "failure"
    BY <1>3 DEF ParseError
  <2> QED
    BY <1>1, <2>1, <2>2, LoadStep
<1>4. CASE ~ParseError /\ r.status # "ok"
  <2>1. proc' = r.status /\ load' = load
    BY <1>4 DEF conf_parse_storage_schema_file
  <2>2. r.status \in {"ok", "segv"}
    BY <1>2, SchemaFile, ContentsAssumption DEF SchemaState
  <2>3. proc' \notin {"running", "args"}
    BY <2>1, <2>2
  <2> QED
    BY <1>1, <1>2, <2>1, <2>3, LoadStep
<1>5. CASE ~ParseError /\ r.status = "ok"
  <2>1. /\ proc' = proc
        /\ load' = [pc   |-> "aggregation",
                    conf |-> [load.conf EXCEPT !.schema = IF r.rules = <<>> THEN @ ELSE r.rules],
                    read |-> [load.read EXCEPT !.schema = file.lines]]
    BY <1>5 DEF conf_parse_storage_schema_file
  <2>2. r = schema_file(file.lines)
    OBVIOUS
  <2> HIDE DEF r, file
  <2>3. LoadOK(load', keys, opts)
    BY <1>1, <1>2, <1>5, <2>1, <2>2, SchemaLoaded
  <2> QED
    BY <1>1, <2>1, <2>3, LoadStep
<1> QED
  BY <1>3, <1>4, <1>5

(* conf_parse_storage_aggregation_file() keeps it.                          *)
LEMMA ConfInvAggregation ==
  ASSUME ConfInv, conf_parse_storage_aggregation_file
  PROVE  ConfInv'
<1> DEFINE file == aggregations[load.conf.conf_dir]
<1>1. /\ proc \in {"starting", "running"} /\ load.pc = "aggregation"
      /\ UNCHANGED <<carbon, schemas, aggregations, keys, opts, conf, from>>
  BY DEF conf_parse_storage_aggregation_file, Parsing, fileVars, confVars
<1>2. LoadOK(load, keys, opts) /\ file \in AggregationContents
  BY DEF ConfInv, LoadOK, Plain
<1>3. CASE ParseError
  <2>1. LoadOK(load', keys, opts)
    BY <1>3, NoLoadOK DEF ParseError
  <2>2. proc' = proc \/ proc' = "failure"
    BY <1>3 DEF ParseError
  <2> QED
    BY <1>1, <2>1, <2>2, LoadStep
<1>4. CASE ~ParseError
  <2>1. /\ proc' = proc
        /\ load' = [pc   |-> "install",
                    conf |-> [load.conf EXCEPT !.aggregation = @ \o aggregation_file(file.lines)],
                    read |-> [load.read EXCEPT !.aggregation = file.lines]]
    BY <1>4 DEF conf_parse_storage_aggregation_file
  <2> HIDE DEF file
  <2>2. LoadOK(load', keys, opts)
    BY <1>1, <1>2, <2>1, AggregationLoaded
  <2> QED
    BY <1>1, <2>1, <2>2, LoadStep
<1> QED
  BY <1>3, <1>4

(* The installation, at the start and by conf_reload(), keeps it.           *)
LEMMA ConfInvInstall ==
  ASSUME ConfInv, Install, proc' = "running"
  PROVE  ConfInv'
<1> DEFINE ks == keys \cup FileKeys(load.read.carbon)
<1>1. /\ load.pc = "install" /\ conf' = load.conf /\ from' = load.read /\ load' = NoLoad
      /\ UNCHANGED <<carbon, schemas, aggregations, opts>> /\ keys' = ks
  BY DEF Install, Parsing, fileVars, FileKeys
<1>2. LoadOK(load, keys, opts)
  BY DEF ConfInv
<1>3. IsRecord(load.conf) /\ Plain(load.conf) /\ ConfOK(load.conf, load.read, ks, opts)
  BY <1>1, <1>2, Installed
<1>4. keys' \subseteq KnownKey
  BY <1>1 DEF ConfInv, FileKeys
<1>5. /\ IsRecord(conf') /\ Plain(conf') /\ ConfOK(conf', from', keys', opts')
      /\ LoadOK(load', keys', opts')
  <2> HIDE DEF ks
  <2> QED
    BY <1>1, <1>3, NoLoadOK
<1>6. /\ carbon' \in CarbonContents /\ schemas' \in [ConfDir -> SchemaContents]
      /\ aggregations' \in [ConfDir -> AggregationContents]
  BY <1>1 DEF ConfInv
<1> QED
  BY <1>4, <1>5, <1>6 DEF ConfInv

(* The handler of SIGHUP keeps it.                                          *)
LEMMA ConfInvHup ==
  ASSUME ConfInv, sighup_handler
  PROVE  ConfInv'
<1> DEFINE c == conf_copy(conf)
<1>1. /\ proc = "running" /\ load' = [NoLoad EXCEPT !.pc = "carbon", !.conf = c]
      /\ UNCHANGED <<carbon, schemas, aggregations, keys, opts, conf, from, proc>>
  BY DEF sighup_handler, fileVars, confVars
<1>2. IsRecord(conf) /\ Plain(conf) /\ Kept(conf, keys, opts)
  BY <1>1 DEF ConfInv, ConfOK
<1>3. /\ IsRecord(c) /\ Plain(c) /\ c.schema = <<>> /\ c.aggregation = <<>>
      /\ Kept(c, keys, opts)
  BY <1>2, CopyKept
<1> HIDE DEF c
<1>4. LoadOK(load', keys, opts)
  BY <1>1, <1>3, LoadBegins
<1> QED
  BY <1>1, <1>4, LoadStep

(* An edit keeps it.                                                        *)
LEMMA ConfInvEdit ==
  ASSUME ConfInv, edit
  PROVE  ConfInv'
<1>1. UNCHANGED <<keys, load, opts, conf, from, proc>>
  BY DEF edit, loadVars, confVars
<1>2. /\ carbon' \in CarbonContents /\ schemas' \in [ConfDir -> SchemaContents]
      /\ aggregations' \in [ConfDir -> AggregationContents]
  BY DEF edit, ConfInv
<1> QED
  BY <1>1, <1>2, ConfFrame

(* What the writer does to the state of the process.                        *)
LEMMA CreateOutcome ==
  ASSUME NEW name, NEW n, NEW t, whisper_create_file(name, n, t)
  PROVE  proc' = proc \/ proc' = "sigfpe"
BY DEF whisper_create_file

(* The writer keeps it.                                                     *)
LEMMA ConfInvWriter ==
  ASSUME ConfInv, NEW name, NEW n, NEW t,
         \/ first_value(name, t) \/ mkdir_fails(name, n, t)
         \/ later_value(name, t) \/ stat_fails(name)
  PROVE  ConfInv'
<1>1. UNCHANGED <<carbon, schemas, aggregations, keys, load, opts, conf, from>>
  BY DEF first_value, mkdir_fails, later_value, stat_fails, fileVars, loadVars, confVars
<1>2. proc' = proc \/ proc' \notin {"running", "args"}
  BY CreateOutcome DEF first_value, mkdir_fails, later_value, stat_fails
<1>3. /\ carbon' \in CarbonContents /\ schemas' \in [ConfDir -> SchemaContents]
      /\ aggregations' \in [ConfDir -> AggregationContents]
  BY <1>1 DEF ConfInv
<1> QED
  BY <1>1, <1>2, <1>3, ConfFrame

(* Every step keeps it.                                                     *)
LEMMA ConfInvNext == ConfInv /\ [Next]_vars => ConfInv'
<1> SUFFICES ASSUME ConfInv, [Next]_vars PROVE ConfInv'
  OBVIOUS
<1>1. CASE UNCHANGED vars
  <2>1. /\ UNCHANGED <<keys, load, opts, conf, from, proc>>
        /\ carbon' = carbon /\ schemas' = schemas /\ aggregations' = aggregations
    BY <1>1 DEF vars, fileVars, loadVars, confVars
  <2>2. /\ carbon' \in CarbonContents /\ schemas' \in [ConfDir -> SchemaContents]
        /\ aggregations' \in [ConfDir -> AggregationContents]
    BY <2>1 DEF ConfInv
  <2> QED
    BY <2>1, <2>2, ConfFrame
<1>2. ASSUME NEW o \in Options, parse_args(o) PROVE ConfInv'
  BY <1>2, ConfInvArgs
<1>3. CASE conf_parse_carbon_file
  BY <1>3, ConfInvCarbon
<1>4. CASE conf_parse_storage_schema_file
  BY <1>4, ConfInvSchema
<1>5. CASE conf_parse_storage_aggregation_file
  BY <1>5, ConfInvAggregation
<1>6. CASE start \/ conf_reload
  BY <1>6, ConfInvInstall DEF start, conf_reload
<1>7. CASE sighup_handler
  BY <1>7, ConfInvHup
<1>8. CASE edit
  BY <1>8, ConfInvEdit
<1>9. ASSUME NEW name \in Name, stat_fails(name) PROVE ConfInv'
  BY <1>9, ConfInvWriter
<1>10. ASSUME NEW name \in Name, NEW t \in Timestamps,
              first_value(name, t) \/ later_value(name, t)
                \/ \E n \in 0 .. Len(name) : mkdir_fails(name, n, t)
       PROVE  ConfInv'
  BY <1>10, ConfInvWriter
<1> QED
  BY <1>1, <1>2, <1>3, <1>4, <1>5, <1>6, <1>7, <1>8, <1>9, <1>10 DEF Next

-----------------------------------------------------------------------------
(* Theorems about the rules in force                                        *)

(* The inductive invariant holds of every behaviour of the process.         *)
THEOREM ConfInvariant == Spec => []ConfInv
BY ConfInvInit, ConfInvNext, PTL DEF Spec

(* The rules of a parsed file are as they are written in it.                *)
LEMMA ParsedAsWritten ==
  ASSUME NEW c, NEW f, NEW ks, NEW o, ConfOK(c, f, ks, o)
  PROVE  /\ WellFormed(f.schema, SchemaKeys) => c.schema = SchemaAsWritten(f.schema)
         /\ WellFormed(f.aggregation, AggregationKeys)
              => c.aggregation = AggregationAsWritten(f.aggregation)
<1>1. /\ Len(f.schema) \in Nat /\ schema_file(f.schema).status = "ok"
      /\ c.schema = schema_file(f.schema).rules
      /\ Len(f.aggregation) \in Nat /\ c.aggregation = aggregation_file(f.aggregation)
  BY DEF ConfOK, ParsedSchema, ParsedAggregation
<1>2. WellFormed(f.schema, SchemaKeys) => c.schema = SchemaAsWritten(f.schema)
  BY <1>1, SchemaParsed
<1>3. WellFormed(f.aggregation, AggregationKeys)
        => c.aggregation = AggregationAsWritten(f.aggregation)
  BY <1>1, AggregationParsed
<1> QED
  BY <1>2, <1>3

(* conf_parse_storage_schema_file(), conf_parse_storage_aggregation_file()  *)
(* and conf_copy() put in force exactly the rules of the files that were    *)
(* read, one per section, after any edits and any loads, failed ones        *)
(* included.                                                                *)
THEOREM RulesInForce == Spec => []RulesAsWritten
<1>1. ConfInv => RulesAsWritten
  <2> SUFFICES ASSUME ConfInv, proc = "running"
               PROVE  /\ WellFormed(from.schema, SchemaKeys)
                           => conf.schema = SchemaAsWritten(from.schema)
                      /\ WellFormed(from.aggregation, AggregationKeys)
                           => conf.aggregation = AggregationAsWritten(from.aggregation)
    BY DEF RulesAsWritten
  <2>1. ConfOK(conf, from, keys, opts)
    BY DEF ConfInv
  <2> QED
    BY <2>1, ParsedAsWritten
<1> QED
  BY <1>1, ConfInvariant, PTL

(* conf_reload() leaves what a restart would, as long as carbon.conf still  *)
(* has every key it ever set.                                               *)
THEOREM ReloadIsRestart == Spec => []ReloadEqualsRestart
<1>1. ConfInv => ReloadEqualsRestart
  <2> SUFFICES ASSUME ConfInv, proc = "running", \A k \in keys : Positions(from.carbon, k) # {}
               PROVE  conf = Restarted
    BY DEF ReloadEqualsRestart
  <2>1. ConfOK(conf, from, keys, opts) /\ IsRecord(conf)
    BY DEF ConfInv
  <2>2. conf = [carbon_file(Base(opts), from.carbon).conf EXCEPT
                  !.schema = schema_file(from.schema).rules,
                  !.aggregation = aggregation_file(from.aggregation)]
    BY <2>1, SameAsStart
  <2> QED
    BY <2>2 DEF Restarted, Base
<1> QED
  BY <1>1, ConfInvariant, PTL

-----------------------------------------------------------------------------
(* The files the writer makes                                               *)

(* What FirstMatchWins says of one file                                     *)
ByFirstMatch(w) ==
  /\ WellFormed(w.by.schema, SchemaKeys) /\ w.retentions # <<>> =>
       LET rules == SchemaAsWritten(w.by.schema) IN
         \E i \in 1 .. Len(rules) : FirstMatch(rules, w.name, i)
                                     /\ rules[i].retentions = w.retentions
  /\ WellFormed(w.by.aggregation, AggregationKeys) =>
       LET rules == AggregationAsWritten(w.by.aggregation) IN
         \E i \in 1 .. Len(rules) : FirstMatch(rules, w.name, i) /\ rules[i] = w.aggregation

FileOf(name, ret, agg) ==
  [path |-> whisper_metric_filename(name), name |-> name, retentions |-> ret,
   aggregation |-> agg[1], by |-> from]

(* The lists of rules in force are finite.                                  *)
LEMMA RulesFinite ==
  ASSUME NEW c, NEW f, NEW ks, NEW o, ConfOK(c, f, ks, o)
  PROVE  /\ Len(c.schema) \in Nat /\ Len(c.aggregation) \in Nat
         /\ IsList(c.schema) /\ IsList(c.aggregation)
<1>1. IsList(c.schema)
  BY SchemaFile DEF ConfOK, ParsedSchema, SchemaState
<1>2. IsList(c.aggregation)
  BY AggregationFile DEF ConfOK, ParsedAggregation
<1>3. Len(c.schema) \in Nat
  <2>1. PICK S : c.schema \in Seq(S)
    BY <1>1 DEF IsList
  <2> QED
    BY <2>1, LenProperties
<1>4. Len(c.aggregation) \in Nat
  <2>1. PICK S : c.aggregation \in Seq(S)
    BY <1>2 DEF IsList
  <2> QED
    BY <2>1, LenProperties
<1> QED
  BY <1>1, <1>2, <1>3, <1>4

(* A file made by the configuration in force is made by the first matches.  *)
LEMMA NewFile ==
  ASSUME ConfInv, proc = "running", NEW name, whisper_find_aggregation(name) # <<>>
  PROVE  ByFirstMatch(FileOf(name, whisper_find_retention(name), whisper_find_aggregation(name)))
<1> DEFINE ret == whisper_find_retention(name)
           agg == whisper_find_aggregation(name)
           w   == FileOf(name, ret, agg)
<1>1. ConfOK(conf, from, keys, opts)
  BY DEF ConfInv
<1>2. Len(conf.schema) \in Nat /\ Len(conf.aggregation) \in Nat
  BY <1>1, RulesFinite
<1>3. /\ WellFormed(from.schema, SchemaKeys) => conf.schema = SchemaAsWritten(from.schema)
      /\ WellFormed(from.aggregation, AggregationKeys)
           => conf.aggregation = AggregationAsWritten(from.aggregation)
  BY <1>1, ParsedAsWritten
<1>4. w.name = name /\ w.retentions = ret /\ w.aggregation = agg[1] /\ w.by = from
  BY DEF FileOf
<1>5. \E i \in 1 .. Len(conf.aggregation) :
        FirstMatch(conf.aggregation, name, i) /\ conf.aggregation[i] = agg[1]
  <2>1. PICK i \in 1 .. Len(conf.aggregation) :
          FirstMatch(conf.aggregation, name, i) /\ agg = <<conf.aggregation[i]>>
    BY <1>2, FirstRuleMatches DEF whisper_find_aggregation
  <2> HIDE DEF agg
  <2> QED
    BY <2>1
<1>6. ret # <<>> => \E i \in 1 .. Len(conf.schema) :
        FirstMatch(conf.schema, name, i) /\ conf.schema[i].retentions = ret
  <2> SUFFICES ASSUME ret # <<>>
               PROVE  \E i \in 1 .. Len(conf.schema) :
                        FirstMatch(conf.schema, name, i) /\ conf.schema[i].retentions = ret
    OBVIOUS
  <2> DEFINE r == FirstRule(conf.schema, name)
  <2>1. r # <<>> /\ ret = r[1].retentions
    BY DEF whisper_find_retention
  <2>2. PICK i \in 1 .. Len(conf.schema) :
          FirstMatch(conf.schema, name, i) /\ r = <<conf.schema[i]>>
    BY <1>2, <2>1, FirstRuleMatches
  <2> HIDE DEF r, ret
  <2> QED
    BY <2>1, <2>2
<1> HIDE DEF ret, agg, w
<1>7. ByFirstMatch(w)
  BY <1>3, <1>4, <1>5, <1>6 DEF ByFirstMatch
<1> QED
  BY <1>7 DEF w, ret, agg

(* What whisper_create_file() does: nothing but directories, or one file.   *)
LEMMA Created ==
  ASSUME NEW name, NEW n, NEW t, whisper_create_file(name, n, t)
  PROVE  /\ dirs \subseteq dirs' /\ dropped' \in {"none", "aggregation", "name", "directory"}
         /\ \/ wsp' = wsp /\ proc' = proc
            \/ /\ whisper_find_aggregation(name) # <<>>
               /\ wsp' = wsp \cup {FileOf(name, whisper_find_retention(name),
                                           whisper_find_aggregation(name))}
               /\ LET path == whisper_metric_filename(name)
                  IN  SubSeq(path, 1, Len(path) - 1) \in dirs'
               /\ proc' = IF DividesByZero(whisper_find_retention(name), t, {}) THEN "sigfpe"
                                                                               ELSE proc
<1> DEFINE path == whisper_metric_filename(name)
           ret  == whisper_find_retention(name)
           agg  == whisper_find_aggregation(name)
           up   == SubSeq(path, 1, Len(path) - 1)
           one  == Len(path) = 1
           w    == [path |-> path, name |-> name, retentions |-> ret,
                    aggregation |-> agg[1], by |-> from]
<1>1. /\ dirs' = dirs \cup whisper_create_dirs(name, n)
      /\ CASE agg = <<>> -> dropped' = "aggregation" /\ UNCHANGED <<wsp, proc>>
           [] agg # <<>> /\ one -> dropped' = "name" /\ UNCHANGED <<wsp, proc>>
           [] agg # <<>> /\ ~one /\ up \notin dirs' -> dropped' = "directory" /\ UNCHANGED <<wsp, proc>>
           [] OTHER -> /\ wsp' = wsp \cup {w}
                       /\ proc' = IF DividesByZero(ret, t, {}) THEN "sigfpe" ELSE proc
                       /\ dropped' = "none"
  BY DEF whisper_create_file
<1>2. w = FileOf(name, ret, agg)
  BY DEF FileOf
<1> HIDE DEF agg, ret, up, one, w
<1>3. CASE agg = <<>> \/ one \/ up \notin dirs'
  BY <1>1, <1>3
<1>4. CASE agg # <<>> /\ ~one /\ up \in dirs'
  <2>1. /\ wsp' = wsp \cup {w} /\ proc' = (IF DividesByZero(ret, t, {}) THEN "sigfpe" ELSE proc)
        /\ dropped' = "none"
    BY <1>1, <1>4
  <2> QED
    BY <1>1, <1>2, <1>4, <2>1 DEF agg, ret, up
<1> QED
  BY <1>3, <1>4

(* The steps that make files.                                               *)
WriterStep ==
  \E name \in Name : \E n, t : first_value(name, t) \/ mkdir_fails(name, n, t)

(* The steps that store values in them.                                     *)
LaterStep == \E name \in Name : \E t : later_value(name, t)

(* Every other step leaves the files alone.                                 *)
LEMMA OtherStep ==
  ASSUME ConfInv, [Next]_vars, ~WriterStep
  PROVE  /\ wsp' = wsp /\ dirs' = dirs /\ dropped' = dropped
         /\ proc' = "sigfpe" => proc = "sigfpe" \/ LaterStep
<1>1. CASE UNCHANGED vars
  BY <1>1 DEF vars, treeVars, confVars
<1>2. ASSUME NEW o \in Options, parse_args(o)
      PROVE  wsp' = wsp /\ dirs' = dirs /\ dropped' = dropped /\ proc' # "sigfpe"
  BY <1>2 DEF parse_args, treeVars
<1>3. CASE conf_parse_carbon_file
  BY <1>3 DEF conf_parse_carbon_file, Parsing, ParseError, treeVars
<1>4. CASE conf_parse_storage_schema_file
  <2> DEFINE file == schemas[load.conf.conf_dir]
             r == schema_file(file.lines)
  <2>1. /\ wsp' = wsp /\ dirs' = dirs /\ dropped' = dropped
        /\ proc \in {"starting", "running"}
        /\ proc' = proc \/ proc' = "failure" \/ proc' = r.status
    BY <1>4 DEF conf_parse_storage_schema_file, Parsing, ParseError, treeVars
  <2>2. file \in SchemaContents
    BY DEF ConfInv, LoadOK, Plain
  <2>3. r.status \in {"ok", "segv"}
    BY <2>2, SchemaFile, ContentsAssumption DEF SchemaState
  <2> HIDE DEF r
  <2> QED
    BY <2>1, <2>3
<1>5. CASE conf_parse_storage_aggregation_file
  BY <1>5 DEF conf_parse_storage_aggregation_file, Parsing, ParseError, treeVars
<1>6. CASE start \/ conf_reload
  BY <1>6 DEF start, conf_reload, Install, treeVars
<1>7. CASE sighup_handler
  BY <1>7 DEF sighup_handler, treeVars
<1>8. CASE edit
  BY <1>8 DEF edit, treeVars
<1>9. ASSUME NEW name \in Name, stat_fails(name)
      PROVE  wsp' = wsp /\ dirs' = dirs /\ dropped' = dropped /\ proc' # "sigfpe"
  BY <1>9 DEF stat_fails, treeVars
<1>10. ASSUME NEW name \in Name, NEW t, first_value(name, t) PROVE FALSE
  BY <1>10 DEF WriterStep
<1>11. ASSUME NEW name \in Name, NEW t, NEW n, mkdir_fails(name, n, t) PROVE FALSE
  BY <1>11 DEF WriterStep
<1>12. ASSUME NEW name \in Name, NEW t, later_value(name, t)
       PROVE  wsp' = wsp /\ dirs' = dirs /\ dropped' = dropped /\ LaterStep
  BY <1>12 DEF later_value, treeVars, LaterStep
<1> QED
  BY <1>1, <1>2, <1>3, <1>4, <1>5, <1>6, <1>7, <1>8, <1>9, <1>10, <1>11,
     <1>12 DEF Next

(* What a step that may make a file does.                                   *)
LEMMA WriterMakes ==
  ASSUME WriterStep
  PROVE  /\ proc = "running" /\ from' = from /\ conf' = conf
         /\ \E name \in Name : \E n, t : whisper_create_file(name, n, t)
BY DEF WriterStep, first_value, mkdir_fails, confVars

(* Every whisper file is made by the first section that matches its metric, *)
(* in both files and of one load (whisper_find_retention,                   *)
(* whisper_find_aggregation), for any rules, names and reloads.             *)
THEOREM FirstMatchMade == Spec => []FirstMatchWins
<1>1. Init => FirstMatchWins
  BY DEF Init, FirstMatchWins
<1>2. ConfInv /\ FirstMatchWins /\ [Next]_vars => FirstMatchWins'
  <2> SUFFICES ASSUME ConfInv, FirstMatchWins, [Next]_vars PROVE FirstMatchWins'
    OBVIOUS
  <2>1. \A w \in wsp : ByFirstMatch(w)
    BY DEF FirstMatchWins, ByFirstMatch
  <2>2. \A w \in wsp' : ByFirstMatch(w)
    <3>1. CASE ~WriterStep
      BY <2>1, <3>1, OtherStep
    <3>2. CASE WriterStep
      <4>1. PICK name \in Name : \E n, t : whisper_create_file(name, n, t)
        BY <3>2, WriterMakes
      <4>2. proc = "running"
        BY <3>2, WriterMakes
      <4> DEFINE ret == whisper_find_retention(name)
                 agg == whisper_find_aggregation(name)
      <4>3. \/ wsp' = wsp
            \/ agg # <<>> /\ wsp' = wsp \cup {FileOf(name, ret, agg)}
        BY <4>1, Created
      <4>4. agg # <<>> => ByFirstMatch(FileOf(name, ret, agg))
        BY <4>2, NewFile
      <4> HIDE DEF ret, agg
      <4> QED
        BY <2>1, <4>3, <4>4
    <3> QED
      BY <3>1, <3>2
  <2> QED
    BY <2>2 DEF FirstMatchWins, ByFirstMatch
<1> QED
  BY <1>1, <1>2, ConfInvariant, PTL DEF Spec

(* Usable retentions divide by zero at no value and in no state of the      *)
(* rings.                                                                   *)
LEMMA UsableNeverDivides ==
  ASSUME NEW ret, Len(ret) \in Nat, Usable(ret), NEW t, NEW begun
  PROVE  ~DividesByZero(ret, t, begun)
<1>1. /\ ret # <<>>
      /\ \A i \in 1 .. Len(ret) : ret[i].tpp # 0 /\ archive_size(ret[i]) # 0
      /\ \A i \in 2 .. Len(ret) : ret[i].tpp \div ret[i - 1].tpp # 0
  BY DEF Usable
<1> HIDE DEF archive_size
<1>2. ASSUME NEW k \in Reached(ret, t)
      PROVE  /\ archive_size(ret[k - 1]) # 0 /\ archive_size(ret[k]) # 0
             /\ ret[k].tpp \div ret[k - 1].tpp # 0
  <2>1. k \in 2 .. Len(ret)
    BY DEF Reached
  <2>2. k \in 1 .. Len(ret) /\ k - 1 \in 1 .. Len(ret)
    BY <2>1
  <2> QED
    BY <1>1, <2>1, <2>2
<1>3. Len(ret) = 0 \/ 1 \in 1 .. Len(ret)
  OBVIOUS
<1> QED
  BY <1>1, <1>2, <1>3 DEF DividesByZero

(* What a complete schema file gives the files made by it                   *)
UsableFile(w) == Complete(w.by.schema) => Usable(w.retentions) /\ Len(w.retentions) \in Nat
UsableFiles == \A w \in wsp : UsableFile(w)

(* The lists of retentions of a schema file of the documented form are      *)
(* finite.                                                                  *)
LEMMA RetentionsFinite ==
  ASSUME NEW rules, NEW lines, ParsedSchema(rules, lines), WellFormed(lines, SchemaKeys),
         NEW n \in 1 .. Cardinality(SectionAt(lines))
  PROVE  Len(SchemaAsWritten(lines)[n].retentions) \in Nat
<1>1. PICK s \in SectionAt(lines) : Rank(lines, s) = n
  BY RankOnto DEF ParsedSchema
<1>2. Section(lines, n) = s
  BY <1>1, SectionRank DEF ParsedSchema
<1> DEFINE at    == Place(lines, s, "retentions")
           items == lines[at][2]
<1>3. at \in 1 .. Len(lines) /\ lines[at][1] = "retentions"
  BY FormOfSchema, PlaceOfKey DEF ParsedSchema
<1>4. Len(items) \in Nat
  BY <1>3 DEF ParsedSchema
<1>5. Entry(lines, n, "retentions") = items
  BY <1>2 DEF Entry, Place
<1>6. SchemaAsWritten(lines)[n].retentions = parse_retention_list_str(items)
  BY <1>5 DEF SchemaAsWritten, SectionAt
<1> HIDE DEF items
<1>7. Len(parse_retention_list_str(items)) = Len(items)
  BY <1>4 DEF parse_retention_list_str
<1> QED
  BY <1>4, <1>6, <1>7

(* The retentions in force, under a complete schema file.                   *)
LEMMA RetentionUsable ==
  ASSUME ConfInv, proc = "running", Complete(from.schema), NEW name \in Name
  PROVE  Usable(whisper_find_retention(name)) /\ Len(whisper_find_retention(name)) \in Nat
<1> DEFINE rules == SchemaAsWritten(from.schema)
<1>1. ConfOK(conf, from, keys, opts)
  BY DEF ConfInv
<1>2. Len(conf.schema) \in Nat /\ conf.schema = rules
  BY <1>1, RulesFinite, ParsedAsWritten DEF Complete
<1>3. /\ \A i \in 1 .. Len(rules) : rules[i].pattern \notin BadPattern
                                      /\ Usable(rules[i].retentions)
      /\ \E i \in 1 .. Len(rules) : <<rules[i].pattern, name>> \in Matching
  BY DEF Complete
<1>4. \A i \in 1 .. Len(rules) : Len(rules[i].retentions) \in Nat
  <2>1. Len(rules) = Cardinality(SectionAt(from.schema))
    <3>1. IsFiniteSet(SectionAt(from.schema))
      BY <1>1, SectionLines DEF ConfOK, ParsedSchema
    <3>2. Cardinality(SectionAt(from.schema)) \in Nat
      BY <3>1, FS_CardinalityType
    <3> QED
      BY <3>2 DEF SchemaAsWritten, SectionAt
  <2> QED
    BY <1>1, <2>1, RetentionsFinite DEF ConfOK, Complete
<1> HIDE DEF rules
<1>5. PICK i \in 1 .. Len(rules) : FirstRule(rules, name) = <<rules[i]>>
  BY <1>2, <1>3, FirstRuleFound
<1>6. whisper_find_retention(name) = rules[i].retentions
  BY <1>2, <1>5 DEF whisper_find_retention
<1> QED
  BY <1>3, <1>4, <1>6

(* With a usable rule for every metric in every schema file that made a     *)
(* file, no value divides by zero, in whisper_create_file(),                *)
(* whisper_write_point() or whisper_write_propagate().                      *)
THEOREM CompleteSchemaSafe == Spec => []CompleteSchemaKeepsRunning
<1> DEFINE IInv == UsableFiles /\ CompleteSchemaKeepsRunning
<1>1. Init => IInv
  BY DEF Init, CompleteSchemaKeepsRunning, UsableFiles
<1>2. ConfInv /\ IInv /\ [Next]_vars => IInv'
  <2> SUFFICES ASSUME ConfInv, UsableFiles, CompleteSchemaKeepsRunning, [Next]_vars
               PROVE  UsableFiles' /\ CompleteSchemaKeepsRunning'
    OBVIOUS
  <2>1. CASE WriterStep
    <3>1. PICK name \in Name : \E n, t : whisper_create_file(name, n, t)
      BY <2>1, WriterMakes
    <3>2. PICK t : \E n : whisper_create_file(name, n, t)
      BY <3>1
    <3>3. proc = "running"
      BY <2>1, WriterMakes
    <3> DEFINE ret == whisper_find_retention(name)
               w   == FileOf(name, ret, whisper_find_aggregation(name))
    <3>4. \/ wsp' = wsp /\ proc' = proc
          \/ /\ wsp' = wsp \cup {w}
             /\ proc' = IF DividesByZero(ret, t, {}) THEN "sigfpe" ELSE proc
      BY <3>2, Created
    <3>5. w.retentions = ret /\ w.by = from
      BY DEF FileOf
    <3>6. Complete(from.schema) => Usable(ret) /\ Len(ret) \in Nat
      BY <3>3, RetentionUsable
    <3> HIDE DEF ret, w
    <3>7. UsableFile(w)
      BY <3>5, <3>6 DEF UsableFile
    <3>8. DividesByZero(ret, t, {}) => ~Complete(w.by.schema)
      BY <3>5, <3>6, UsableNeverDivides
    <3>9. \A v \in wsp' : UsableFile(v)
      BY <3>4, <3>7 DEF UsableFiles
    <3>10. proc' = "sigfpe" => \E v \in wsp' : ~Complete(v.by.schema)
      BY <3>3, <3>4, <3>8
    <3> QED
      BY <3>9, <3>10 DEF UsableFiles, UsableFile, CompleteSchemaKeepsRunning
  <2>2. CASE ~WriterStep
    <3>1. wsp' = wsp /\ (proc' = "sigfpe" => proc = "sigfpe" \/ LaterStep)
      BY <2>2, OtherStep
    <3>2. ASSUME LaterStep, proc' = "sigfpe" PROVE \E w \in wsp : ~Complete(w.by.schema)
      <4>1. PICK name \in Name : \E t : later_value(name, t)
        BY <3>2 DEF LaterStep
      <4>2. PICK w \in wsp : \E t, begun : DividesByZero(w.retentions, t, begun)
        BY <3>2, <4>1 DEF later_value
      <4> QED
        BY <4>2, UsableNeverDivides DEF UsableFiles, UsableFile
    <3>3. proc' = "sigfpe" => \E w \in wsp' : ~Complete(w.by.schema)
      BY <3>1, <3>2 DEF CompleteSchemaKeepsRunning
    <3>4. \A w \in wsp' : UsableFile(w)
      BY <3>1 DEF UsableFiles
    <3> QED
      BY <3>3, <3>4 DEF UsableFiles, UsableFile, CompleteSchemaKeepsRunning
  <2> QED
    BY <2>1, <2>2
<1> QED
  BY <1>1, <1>2, ConfInvariant, PTL DEF Spec

-----------------------------------------------------------------------------
(* The directories of a new file                                            *)

Token(name, f, n) ==
  IF n = 0 THEN <<>> ELSE IF name[n] = "" THEN f[n - 1] ELSE Append(f[n - 1], name[n])
Among(name) == CHOOSE f : f = [n \in 0 .. Len(name) |-> Token(name, f, n)]

(* The recursive definition in Tokens has a solution.                       *)
LEMMA TokenTurns ==
  ASSUME NEW name, Len(name) \in Nat
  PROVE  \A n \in 0 .. Len(name) : Among(name)[n] = Token(name, Among(name), n)
<1> DEFINE Far == {n \in Nat : \E f : f = [k \in 0 .. n |-> Token(name, f, k)]}
<1>1. 0 \in Far
  <2> DEFINE f == [k \in 0 .. 0 |-> <<>>]
  <2>1. f = [k \in 0 .. 0 |-> Token(name, f, k)]
    BY DEF Token
  <2> QED
    BY <2>1
<1>2. ASSUME NEW n \in Nat, n \in Far PROVE n + 1 \in Far
  <2>1. PICK f : f = [k \in 0 .. n |-> Token(name, f, k)]
    BY <1>2
  <2> DEFINE g == [k \in 0 .. n + 1 |-> IF k = n + 1 THEN Token(name, f, k) ELSE f[k]]
  <2>2. ASSUME NEW k \in 0 .. n + 1 PROVE g[k] = Token(name, g, k)
    <3>1. CASE k = n + 1
      <4>1. (n + 1) - 1 = n /\ n + 1 # 0 /\ n \in 0 .. n + 1 /\ n # n + 1
        OBVIOUS
      <4>2. g[n] = f[n] /\ g[k] = Token(name, f, k)
        BY <3>1, <4>1
      <4> QED
        BY <3>1, <4>1, <4>2 DEF Token
    <3>2. CASE k # n + 1
      <4>1. k \in 0 .. n /\ (k # 0 => k - 1 \in 0 .. n)
        BY <3>2
      <4>2. g[k] = f[k] /\ f[k] = Token(name, f, k) /\ (k # 0 => g[k - 1] = f[k - 1])
        BY <2>1, <3>2, <4>1
      <4> QED
        BY <4>2 DEF Token
    <3> QED
      BY <3>1, <3>2
  <2>3. g = [k \in 0 .. n + 1 |-> Token(name, g, k)]
    BY <2>2
  <2>4. n + 1 \in Nat
    OBVIOUS
  <2> HIDE DEF g
  <2> QED
    BY <2>3, <2>4
<1>3. Len(name) \in Far
  BY <1>1, <1>2, NatSet
<1>4. PICK f : f = [k \in 0 .. Len(name) |-> Token(name, f, k)]
  BY <1>3
<1> DEFINE l == Among(name)
<1>5. l = [k \in 0 .. Len(name) |-> Token(name, l, k)]
  BY <1>4, Zenon DEF Among
<1> HIDE DEF l
<1>6. \A n \in 0 .. Len(name) : l[n] = Token(name, l, n)
  BY <1>5
<1> QED
  BY <1>6 DEF l

(* A path has at most one component more than the name has parts.           *)
LEMMA TokensBound ==
  ASSUME NEW name, Len(name) \in Nat
  PROVE  IsList(Tokens(name)) /\ Len(Tokens(name)) \in 0 .. Len(name)
<1> DEFINE l == Among(name)
           Good == {n \in Nat : n <= Len(name) => IsList(l[n]) /\ Len(l[n]) \in 0 .. n}
<1>1. \A n \in 0 .. Len(name) : l[n] = Token(name, l, n)
  BY TokenTurns
<1>2. Tokens(name) = l[Len(name)]
  BY DEF Tokens, Among, Token
<1> HIDE DEF l
<1>3. 0 \in Good
  <2>1. l[0] = <<>>
    <3>1. 0 \in 0 .. Len(name)
      OBVIOUS
    <3> QED
      BY <1>1, <3>1 DEF Token
  <2>2. IsList(<<>>) /\ Len(<<>>) = 0
    BY DEF IsList
  <2> QED
    BY <2>1, <2>2
<1>4. ASSUME NEW n \in Nat, n \in Good PROVE n + 1 \in Good
  <2> SUFFICES ASSUME n + 1 <= Len(name) PROVE IsList(l[n + 1]) /\ Len(l[n + 1]) \in 0 .. n + 1
    OBVIOUS
  <2>1. IsList(l[n]) /\ Len(l[n]) \in 0 .. n
    BY <1>4
  <2>2. l[n + 1] = l[n] \/ l[n + 1] = Append(l[n], name[n + 1])
    <3>1. n + 1 \in 0 .. Len(name) /\ n + 1 # 0 /\ (n + 1) - 1 = n
      OBVIOUS
    <3> QED
      BY <1>1, <3>1 DEF Token
  <2>3. IsList(Append(l[n], name[n + 1])) /\ Len(Append(l[n], name[n + 1])) = Len(l[n]) + 1
    BY <2>1, ListAppend
  <2>4. CASE l[n + 1] = l[n]
    BY <2>1, <2>4
  <2>5. CASE l[n + 1] = Append(l[n], name[n + 1])
    <3> DEFINE a == Append(l[n], name[n + 1])
               k == Len(l[n])
    <3> HIDE DEF a, k
    <3>1. k \in 0 .. n /\ Len(a) = k + 1 /\ IsList(a)
      BY <2>1, <2>3 DEF a, k
    <3>2. Len(a) \in 0 .. n + 1
      BY <3>1
    <3> QED
      BY <2>5, <3>1, <3>2 DEF a
  <2> QED
    BY <2>2, <2>4, <2>5
<1>5. Nat \subseteq Good
  <2> HIDE DEF Good
  <2> QED
    BY <1>3, <1>4, NatSet
<1> QED
  BY <1>2, <1>5

(* The path of a metric's file.                                             *)
LEMMA PathLength ==
  ASSUME NEW name, Len(name) \in Nat
  PROVE  Len(whisper_metric_filename(name)) \in 1 .. Len(name) + 1
<1> DEFINE t == Tokens(name)
<1>1. PICK S : t \in Seq(S)
  BY TokensBound DEF IsList
<1>2. Len(t) \in 0 .. Len(name)
  BY TokensBound
<1> HIDE DEF t
<1> DEFINE T == S \cup {conf.storage_dir}
<1>3. t \in Seq(T) /\ <<conf.storage_dir>> \in Seq(T) /\ Len(<<conf.storage_dir>>) = 1
  BY <1>1
<1> HIDE DEF T
<1>4. Len(<<conf.storage_dir>> \o t) = 1 + Len(t)
  BY <1>3
<1> QED
  BY <1>2, <1>4 DEF whisper_metric_filename, t

(* When no mkdir() fails, whisper_create_dirs() has made the directory      *)
(* that the new file is created in.                                         *)
THEOREM DirectoryThere == Spec => DirsSuffice
<1>1. ASSUME NEW name \in Name, NEW t \in Timestamps, first_value(name, t)
      PROVE  dropped' # "directory"
  <2> DEFINE path == whisper_metric_filename(name)
             agg  == whisper_find_aggregation(name)
             up   == SubSeq(path, 1, Len(path) - 1)
  <2> SUFFICES ASSUME dropped' = "directory" PROVE FALSE
    OBVIOUS
  <2>1. whisper_create_file(name, Len(name) + 1, t) /\ Len(name) \in Nat
    BY <1>1, ConfAssumption DEF first_value
  <2>2. Len(path) \in 1 .. Len(name) + 1
    BY <2>1, PathLength
  <2>3. Len(path) # 1 /\ up \notin dirs \cup whisper_create_dirs(name, Len(name) + 1)
    BY <2>1 DEF whisper_create_file
  <2>4. up \in whisper_create_dirs(name, Len(name) + 1)
    <3>1. Len(path) - 1 \in 1 .. Len(path) - 1
      <4> DEFINE m == Len(path)
      <4> HIDE DEF m
      <4>1. m \in 1 .. Len(name) + 1 /\ m # 1
        BY <2>2, <2>3 DEF m
      <4>2. m - 1 \in 1 .. m - 1
        BY <2>1, <4>1
      <4> QED
        BY <4>2 DEF m
    <3>2. \/ Len(name) + 1 < Len(path) - 1
          \/ whisper_create_dirs(name, Len(name) + 1) = {SubSeq(path, 1, k) : k \in 1 .. Len(path) - 1}
      BY <2>3 DEF whisper_create_dirs
    <3>3. ~(Len(name) + 1 < Len(path) - 1)
      BY <2>1, <2>2
    <3> QED
      BY <3>1, <3>2, <3>3
  <2> QED
    BY <2>3, <2>4
<1>2. [Next]_vars => [(\E name \in Name, timestamp \in Timestamps : first_value(name, timestamp))
                         => dropped' # "directory"]_vars
  BY <1>1
<1> QED
  BY <1>2, PTL DEF Spec, DirsSuffice

-----------------------------------------------------------------------------
(* Types                                                                    *)

(* What conf_parse_storage_schema_file() leaves are rules.                  *)
LEMMA SchemaRules ==
  ASSUME NEW rules, NEW lines, ParsedSchema(rules, lines)
  PROVE  \A i \in 1 .. Len(rules) : DOMAIN rules[i] = {"pattern", "retentions"}
<1>1. SchemaState(schema_file(lines)) /\ rules = schema_file(lines).rules
  BY SchemaFile DEF ParsedSchema
<1>2. \A i \in 1 .. Len(rules) : rules[i] = Rule(rules[i].pattern, rules[i].retentions)
  BY <1>1 DEF SchemaState
<1>3. \A p, r : DOMAIN Rule(p, r) = {"pattern", "retentions"}
  BY DEF Rule
<1> SUFFICES ASSUME NEW i \in 1 .. Len(rules)
             PROVE  DOMAIN rules[i] = {"pattern", "retentions"}
  OBVIOUS
<1>4. rules[i] = Rule(rules[i].pattern, rules[i].retentions)
  BY <1>2
<1> QED
  BY <1>3, <1>4, Zenon

(* So are those of conf_parse_storage_aggregation_file().                   *)
LEMMA AggregationRules ==
  ASSUME NEW rules, NEW lines, ParsedAggregation(rules, lines)
  PROVE  \A i \in 1 .. Len(rules) :
           /\ DOMAIN rules[i] = {"pattern", "xff", "method"}
           /\ rules[i].method \in {"average", "sum", "last", "max", "min", "undef"}
BY AggregationFile DEF ParsedAggregation, Methods

(* The two configurations have their types.                                 *)
LEMMA ConfTypes == ConfInv => IsConf(load.conf) /\ IsConf(conf)
<1> SUFFICES ASSUME ConfInv PROVE IsConf(load.conf) /\ IsConf(conf)
  OBVIOUS
<1>1. ASSUME NEW c, Plain(c),
             c.schema = <<>> \/ \E f : ParsedSchema(c.schema, f),
             c.aggregation = <<>> \/ \E f : ParsedAggregation(c.aggregation, f)
      PROVE  IsConf(c)
  <2>1. \A i \in 1 .. Len(c.schema) : DOMAIN c.schema[i] = {"pattern", "retentions"}
    <3>1. CASE c.schema = <<>>
      BY <3>1
    <3>2. CASE \E f : ParsedSchema(c.schema, f)
      BY <3>2, SchemaRules
    <3> QED
      BY <1>1, <3>1, <3>2
  <2>2. \A i \in 1 .. Len(c.aggregation) :
          /\ DOMAIN c.aggregation[i] = {"pattern", "xff", "method"}
          /\ c.aggregation[i].method \in {"average", "sum", "last", "max", "min", "undef"}
    <3>1. CASE c.aggregation = <<>>
      BY <3>1
    <3>2. CASE \E f : ParsedAggregation(c.aggregation, f)
      BY <3>2, AggregationRules
    <3> QED
      BY <1>1, <3>1, <3>2
  <2> QED
    BY <1>1, <2>1, <2>2 DEF Plain, IsConf
<1>2. IsConf(load.conf)
  <2>1. /\ Plain(load.conf)
        /\ load.conf.schema = <<>> \/ ParsedSchema(load.conf.schema, load.read.schema)
        /\ \/ load.conf.aggregation = <<>>
           \/ ParsedAggregation(load.conf.aggregation, load.read.aggregation)
    BY DEF ConfInv, LoadOK, LoadPc
  <2> QED
    BY <1>1, <2>1
<1>3. IsConf(conf)
  <2>1. /\ Plain(conf)
        /\ conf.schema = <<>> \/ ParsedSchema(conf.schema, from.schema)
        /\ conf.aggregation = <<>> \/ ParsedAggregation(conf.aggregation, from.aggregation)
    BY BaseForm DEF ConfInv, ConfOK
  <2> QED
    BY <1>1, <2>1
<1> QED
  BY <1>2, <1>3

(* What TypeOK says of the other variables                                  *)
RestOK ==
  /\ proc \in {"args", "starting", "running", "exit", "failure", "segv", "sigfpe"}
  /\ edits \in 0 .. MaxEdits /\ hups \in 0 .. MaxHup
  /\ opts \subseteq {"h", "d", "c", "garbled"}
  /\ dropped \in {"none", "aggregation", "name", "directory"}
  /\ \A w \in wsp : w.name \in Name /\ SubSeq(w.path, 1, Len(w.path) - 1) \in dirs

(* The steps that are not the writer's keep it.                             *)
LEMMA RestKept ==
  ASSUME ConfInv, RestOK, [Next]_vars, ~WriterStep
  PROVE  RestOK'
<1>1. wsp' = wsp /\ dirs' = dirs /\ dropped' = dropped
  BY OtherStep
<1> SUFFICES /\ proc' \in {"args", "starting", "running", "exit", "failure", "segv", "sigfpe"}
             /\ edits' \in 0 .. MaxEdits /\ hups' \in 0 .. MaxHup
             /\ opts' \subseteq {"h", "d", "c", "garbled"}
  BY <1>1 DEF RestOK
<1>2. CASE UNCHANGED vars
  BY <1>2 DEF RestOK, vars, fileVars, loadVars, confVars
<1>3. ASSUME NEW o \in Options, parse_args(o)
      PROVE  /\ proc' \in {"exit", "starting"} /\ edits' = edits /\ hups' = hups
             /\ opts' \subseteq {"h", "d", "c", "garbled"}
  BY <1>3, ConfAssumption DEF parse_args, Outcomes, fileVars
<1>4. CASE conf_parse_carbon_file
  BY <1>4 DEF conf_parse_carbon_file, ParseError, RestOK, fileVars, confVars
<1>5. CASE conf_parse_storage_schema_file
  <2> DEFINE file == schemas[load.conf.conf_dir]
             r == schema_file(file.lines)
  <2>1. /\ edits' = edits /\ hups' = hups /\ opts' = opts
        /\ proc' = proc \/ proc' = "failure" \/ proc' = r.status
    BY <1>5 DEF conf_parse_storage_schema_file, ParseError, fileVars, confVars
  <2>2. proc' \in {proc, "failure", "segv", "ok"} /\ proc' # "ok"
    <3>1. file \in SchemaContents
      BY DEF ConfInv, LoadOK, Plain
    <3>2. r.status \in {"ok", "segv"}
      BY <3>1, SchemaFile, ContentsAssumption DEF SchemaState
    <3>3. proc' = proc \/ proc' = "failure" \/ (proc' = r.status /\ r.status # "ok")
      BY <1>5 DEF conf_parse_storage_schema_file, ParseError
    <3> HIDE DEF r
    <3> QED
      BY <3>2, <3>3 DEF RestOK
  <2> QED
    BY <2>1, <2>2 DEF RestOK
<1>6. CASE conf_parse_storage_aggregation_file
  BY <1>6 DEF conf_parse_storage_aggregation_file, ParseError, RestOK, fileVars, confVars
<1>7. CASE start \/ conf_reload
  BY <1>7 DEF start, conf_reload, Install, RestOK, fileVars
<1>8. CASE sighup_handler
  BY <1>8, ConfAssumption DEF sighup_handler, RestOK, fileVars, confVars
<1>9. CASE edit
  BY <1>9, ConfAssumption DEF edit, RestOK, loadVars, confVars
<1>10. ASSUME NEW name \in Name, stat_fails(name)
       PROVE  proc' = "exit" /\ edits' = edits /\ hups' = hups /\ opts' = opts
  BY <1>10 DEF stat_fails, fileVars, loadVars, confVars
<1>11. ASSUME NEW name \in Name, NEW t, first_value(name, t) PROVE FALSE
  BY <1>11 DEF WriterStep
<1>12. ASSUME NEW name \in Name, NEW t, NEW n, mkdir_fails(name, n, t) PROVE FALSE
  BY <1>12 DEF WriterStep
<1>13. ASSUME NEW name \in Name, NEW t, later_value(name, t)
       PROVE  proc' \in {proc, "sigfpe"} /\ edits' = edits /\ hups' = hups /\ opts' = opts
  BY <1>13 DEF later_value, fileVars, loadVars, confVars
<1> QED
  <2>1. (\E o \in Options : parse_args(o)) \/ (\E name \in Name : stat_fails(name)) =>
          /\ proc' \in {"exit", "starting"} /\ edits' = edits /\ hups' = hups
          /\ opts' \subseteq {"h", "d", "c", "garbled"}
    BY <1>3, <1>10 DEF RestOK
  <2> QED
    BY <1>2, <1>4, <1>5, <1>6, <1>7, <1>8, <1>9, <1>11, <1>12, <1>13, <2>1 DEF Next, RestOK

(* The writer keeps it: a file is in a directory that exists.               *)
LEMMA RestWritten ==
  ASSUME ConfInv, RestOK, WriterStep
  PROVE  RestOK'
<1>1. PICK name \in Name : \E n, t : whisper_create_file(name, n, t)
  BY WriterMakes
<1> DEFINE w == FileOf(name, whisper_find_retention(name), whisper_find_aggregation(name))
<1>2. /\ dirs \subseteq dirs' /\ dropped' \in {"none", "aggregation", "name", "directory"}
      /\ \/ wsp' = wsp /\ proc' = proc
         \/ /\ wsp' = wsp \cup {w}
            /\ SubSeq(whisper_metric_filename(name), 1, Len(whisper_metric_filename(name)) - 1)
                 \in dirs'
            /\ proc' \in {proc, "sigfpe"}
  BY <1>1, Created
<1>3. w.name = name /\ w.path = whisper_metric_filename(name)
  BY DEF FileOf
<1>4. edits' = edits /\ hups' = hups /\ opts' = opts
  BY DEF WriterStep, first_value, mkdir_fails, fileVars, loadVars, confVars
<1> HIDE DEF w
<1>5. \A v \in wsp' : v.name \in Name /\ SubSeq(v.path, 1, Len(v.path) - 1) \in dirs'
  BY <1>2, <1>3 DEF RestOK
<1>6. proc' \in {proc, "sigfpe"}
  BY <1>2
<1> QED
  BY <1>2, <1>4, <1>5, <1>6 DEF RestOK

(* Type correctness: the ports fit an int, the lists hold rules, and every  *)
(* whisper file is in a directory that was made.                            *)
THEOREM ConfTypeCorrect == Spec => []TypeOK
<1>1. Init => RestOK
  BY ConfAssumption DEF Init, RestOK
<1>2. ConfInv /\ RestOK /\ [Next]_vars => RestOK'
  BY RestKept, RestWritten
<1>3. ConfInv /\ RestOK => TypeOK
  BY ConfTypes DEF ConfInv, RestOK, TypeOK, LoadOK
<1> QED
  BY <1>1, <1>2, <1>3, ConfInvariant, PTL DEF Spec
=============================================================================
