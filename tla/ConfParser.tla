----------------------------- MODULE ConfParser -----------------------------
(***************************************************************************)
(* How carbond reads its three configuration files.                        *)
(*                                                                         *)
(* A file is the sequence of its lines, and a line, once trim_string() has *)
(* removed the blanks, is a pair of a key and a value: <<"pattern", "p">>. *)
(* "section" is a [name] line, "other" any line that the parsers take no   *)
(* notice of: comments, empty lines, a key without a value.  A value that  *)
(* strtol() or strtof() cannot read at all is NotANumber.  carbond looks   *)
(* only at the beginning of the keys of carbon.conf and of the names of    *)
(* methods: what begins like one stands for it.  Lines are shorter than    *)
(* the read buffer.                                                        *)
(***************************************************************************)
EXTENDS Integers, Sequences, FiniteSets

CONSTANTS
  Wrap,     \* modulus of uint32_t and of int
  LongMax   \* largest value of strtol()

ASSUME ParserAssumption == Wrap \in Nat \ {0} /\ LongMax \in Nat

NotANumber == -1
Number(v) == IF v = NotANumber THEN 0 ELSE v

-----------------------------------------------------------------------------
(* storage-schemas.conf                                                     *)

(* A duration is <<number, unit>>.  Any unit but these three is one second. *)
str_to_seconds(d) ==
  LET multiplier == CASE d[2] = "w" -> 86400 * 7 [] d[2] = "d" -> 86400
                      [] d[2] = "h" -> 3600      [] OTHER -> 1
  IN  ((Number(d[1]) % Wrap) * multiplier) % Wrap

(* Items are <<timePerPoint, timeToStore>>; without a ':' there is only the *)
(* first and the parser dereferences a null pointer.                        *)
parse_retention_list_str(items) ==
  [i \in 1 .. Len(items) |-> [tpp   |-> str_to_seconds(items[i][1]),
                              store |-> str_to_seconds(items[i][2])]]
HasNullItem(items) == \E i \in 1 .. Len(items) : Len(items[i]) < 2

(* One line of the loop: a rule is made at `pattern', and completed at the  *)
(* next `retentions'.                                                       *)
schema_line(st, line) ==
  CASE st.status = "ok" /\ ~st.found /\ line[1] = "pattern" ->
         [st EXCEPT !.found = TRUE,
                    !.rules = Append(@, [pattern |-> line[2], retentions |-> <<>>])]
    [] st.status = "ok" /\ st.found /\ line[1] = "retentions" ->
         IF HasNullItem(line[2]) THEN [st EXCEPT !.status = "segv"]
         ELSE [st EXCEPT !.found = FALSE,
                         !.rules[Len(st.rules)].retentions = parse_retention_list_str(line[2])]
    [] OTHER -> st

-----------------------------------------------------------------------------
(* storage-aggregation.conf                                                 *)

conf_get_aggregation_method(m) ==
  IF m \in {"average", "sum", "last", "max", "min"} THEN m ELSE "undef"

(* One line of the loop: a rule is made at `aggregationMethod', with the    *)
(* xff read last, in this section or in an earlier one.                     *)
aggregation_line(st, line) ==
  CASE ~st.found /\ line[1] = "pattern" -> [st EXCEPT !.found = TRUE, !.pattern = line[2]]
    [] st.found /\ line[1] = "xFilesFactor" -> [st EXCEPT !.xff = Number(line[2])]
    [] st.found /\ line[1] = "aggregationMethod" ->
         LET method == conf_get_aggregation_method(line[2])
         IN  [st EXCEPT !.found = FALSE, !.method = method,
                        !.rules = Append(@, [pattern |-> st.pattern, xff |-> st.xff,
                                             method |-> method])]
    [] OTHER -> st

-----------------------------------------------------------------------------
(* carbon.conf                                                              *)

DirKey   == [CONF_DIR |-> "conf_dir", STORAGE_DIR |-> "storage_dir"]
PortKey  == [LINE_RECEIVER_PORT |-> "line_receiver_port",
             UDP_RECEIVER_PORT  |-> "udp_receiver_port"]
KnownKey == DOMAIN DirKey \cup DOMAIN PortKey

(* Mutant: the port is kept in a wider integer than the members have.       *)
carbon_line_wide(st, line) ==
  LET key == line[1] IN
  IF st.status # "ok" \/ key \in {"section", "other"} THEN st
  ELSE CASE key \in DOMAIN DirKey -> [st EXCEPT !.conf[DirKey[key]] = line[2]]
         [] key \in DOMAIN PortKey /\ Number(line[2]) <= LongMax ->
              [st EXCEPT !.conf[PortKey[key]] = Number(line[2])]
         [] OTHER -> [st EXCEPT !.status = "error"]

(* One line of the loop, on the configuration being filled.  An unknown key *)
(* or a port out of range ends the parsing with an error.                   *)
carbon_line(st, line) ==
  LET key == line[1] IN
  IF st.status # "ok" \/ key \in {"section", "other"} THEN st
  ELSE CASE key \in DOMAIN DirKey -> [st EXCEPT !.conf[DirKey[key]] = line[2]]
         [] key \in DOMAIN PortKey /\ Number(line[2]) <= LongMax ->
              [st EXCEPT !.conf[PortKey[key]] = Number(line[2]) % Wrap]
         [] OTHER -> [st EXCEPT !.status = "error"]

-----------------------------------------------------------------------------
(* The loops of the three parsers                                           *)

parse_line(file, st, line) ==
  CASE file = "carbon"      -> carbon_line(st, line)
    [] file = "schema"      -> schema_line(st, line)
    [] file = "aggregation" -> aggregation_line(st, line)

(* What the loop has after each of the lines                                *)
Loop(file, st, lines) ==
  LET after[n \in 0 .. Len(lines)] ==
        IF n = 0 THEN st ELSE parse_line(file, after[n - 1], lines[n])
  IN  after

(* conf_parse_carbon_file(): the configuration filled in, and how it ended  *)
carbon_file(conf, lines) ==
  Loop("carbon", [conf |-> conf, status |-> "ok"], lines)[Len(lines)]

(* conf_parse_storage_schema_file(): the new rules, and how it ended        *)
NoSchema == [found |-> FALSE, rules |-> <<>>, status |-> "ok"]
schema_file(lines) == Loop("schema", NoSchema, lines)[Len(lines)]

(* conf_parse_storage_aggregation_file(): the rules it appends              *)
NoAggregation == [found |-> FALSE, pattern |-> "", xff |-> 0, method |-> "undef", rules |-> <<>>]
aggregation_file(lines) == Loop("aggregation", NoAggregation, lines)[Len(lines)].rules

-----------------------------------------------------------------------------
(* What the files mean to the person who writes them: one rule per section, *)
(* "Entries are scanned in order", each made of what stands in the section. *)

Positions(lines, key) == {i \in 1 .. Len(lines) : lines[i][1] = key}
InSection(lines, s, key) ==
  {i \in Positions(lines, key) : i > s /\ \A h \in Positions(lines, "section") : h > s => h > i}
The(S) == CHOOSE x \in S : TRUE
Single(S) == \E x \in S : S = {x}

(* Every section has each of the keys once and in this order, and nothing   *)
(* stands before the first section.                                         *)
WellFormed(lines, keys) ==
  /\ \A s \in Positions(lines, "section") :
       /\ \A k \in 1 .. Len(keys) : Single(InSection(lines, s, keys[k]))
       /\ \A k \in 1 .. Len(keys) - 1 :
            The(InSection(lines, s, keys[k])) < The(InSection(lines, s, keys[k + 1]))
  /\ \A k \in 1 .. Len(keys) : \A i \in Positions(lines, keys[k]) :
       \E s \in Positions(lines, "section") : s < i
SchemaKeys      == <<"pattern", "retentions">>
AggregationKeys == <<"pattern", "xFilesFactor", "aggregationMethod">>

(* The n-th section, and the value of a key in it                           *)
Rank(lines, s) == Cardinality({h \in Positions(lines, "section") : h <= s})
Section(lines, n) == CHOOSE s \in Positions(lines, "section") : Rank(lines, s) = n
Entry(lines, n, key) == lines[The(InSection(lines, Section(lines, n), key))][2]

SchemaAsWritten(lines) ==
  [n \in 1 .. Cardinality(Positions(lines, "section")) |->
     [pattern    |-> Entry(lines, n, "pattern"),
      retentions |-> parse_retention_list_str(Entry(lines, n, "retentions"))]]
AggregationAsWritten(lines) ==
  [n \in 1 .. Cardinality(Positions(lines, "section")) |->
     [pattern |-> Entry(lines, n, "pattern"),
      xff     |-> Number(Entry(lines, n, "xFilesFactor")),
      method  |-> conf_get_aggregation_method(Entry(lines, n, "aggregationMethod"))]]
=============================================================================
