--------------------------- MODULE MCRuntimeConf ---------------------------
(***************************************************************************)
(* An instance of RuntimeConf for TLC: two configuration directories, and  *)
(* files that are as shipped, incomplete, wrong or missing.  2^32 is       *)
(* scaled down to 2^23 (so 14 weeks wrap) and LONG_MAX to 2^25.            *)
(***************************************************************************)
EXTENDS RuntimeConf

CONF_DIR(d)    == <<"CONF_DIR", d>>
STORAGE_DIR(d) == <<"STORAGE_DIR", d>>
LINE_PORT(n)   == <<"LINE_RECEIVER_PORT", n>>
UDP_PORT(n)    == <<"UDP_RECEIVER_PORT", n>>
section        == <<"section", "">>
pattern(p)     == <<"pattern", p>>
retentions(r)  == <<"retentions", r>>
xff(x)         == <<"xFilesFactor", x>>
method(m)      == <<"aggregationMethod", m>>

Shipped == Text(<<STORAGE_DIR("var"), CONF_DIR("etc"), LINE_PORT(2003), UDP_PORT(2003)>>)
TwoDirs == {"etc", "alt"}
Carbons ==
  { Shipped, Absent,
    Text(<<STORAGE_DIR("srv"), UDP_PORT(2 * 8388608 + 2004)>>),
    Text(<<CONF_DIR("alt"), STORAGE_DIR("var"), LINE_PORT(NotANumber), UDP_PORT(2003)>>),
    Text(<<STORAGE_DIR("srv"), CONF_DIR("alt"), LINE_PORT(33554433)>>),
    Text(<<STORAGE_DIR("srv"), <<"unknown", "">>, CONF_DIR("alt")>>) }

Min1  == <<<<60, "s">>, <<1, "d">>>>
Min3  == <<<<180, "s">>, <<1, "w">>>>
Own   == <<<<60, "">>, <<90, "d">>>>
Long  == <<<<60, "">>, <<14, "w">>>>     \* wraps
Huge  == <<<<1, "s">>, <<2097152, "s">>>> \* 12 bytes a point wrap to 0
TenM  == <<<<60, "s">>, <<10, "m">>>>    \* not one point: a minute is no unit
Never == <<<<0, "s">>, <<1, "d">>>>
ShippedSchema == Text(<<section, pattern("^carbon"), retentions(<<Own>>),
                        section, pattern(".*"), retentions(<<Min1, Min3>>)>>)
Schemas ==
  { ShippedSchema, Absent,
    Text(<<section, pattern(".*"), retentions(<<Never, Min3>>),
           section, pattern("^carbon"), retentions(<<Long>>)>>),
    Text(<<section, pattern("^carbon"), section, pattern(".*"), retentions(<<Min1>>)>>),
    Text(<<section, pattern("^carbon"), retentions(<<Huge>>),
           section, pattern("(("), retentions(<<Own>>)>>),
    Text(<<section, pattern("^carbon"), retentions(<<Min3, Min1>>),
           section, pattern(".*"), retentions(<<TenM, Min3>>)>>),
    Text(<<section, pattern(".*"), retentions(<<Min1, <<<<60, "s">>>>>>)>>),
    Text(<<>>) }

ShippedAggregation == Text(<<section, pattern("^carbon"), xff(0), method("sum"),
                             section, pattern(".*"), xff(5), method("average")>>)
Aggregations ==
  { ShippedAggregation, Absent,
    Text(<<section, pattern(".*"), xff(NotANumber), method("median"),
           section, pattern("^carbon"), xff(1), method("min")>>),
    Text(<<section, pattern("^carbon"), method("sum"), section, pattern(".*"), xff(5)>>) }

FirstFiles == [carbon : {Shipped}, schemas : {[d \in TwoDirs |-> ShippedSchema]},
               aggregations : {[d \in TwoDirs |-> ShippedAggregation]}]
AnyOptions == {{"c", "d"}, {"h"}}

points == <<"carbon", "points">>
load1  == <<"", "h", "", "load">>      \* ".h..load", the same file as "h.load"
dots   == <<"", "">>
Names  == {points, load1, dots}
Match  == {<<".*", n>> : n \in Names} \cup {<<"^carbon", points>>}
=============================================================================
