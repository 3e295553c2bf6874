------------------------------- MODULE Match --------------------------------
(***************************************************************************)
(* The tier-1 prefilter of a rule: lowering the Starlark value `match` to  *)
(* a list of predicates, and evaluating those against an event.            *)
(*                                                                         *)
(* A value is a record of its dynamic type and its content. A string is a  *)
(* sequence of symbols, among them "." in a path; numbers are float64 in   *)
(* the code and integers here. An operation that may find nothing, or may  *)
(* fail, returns a set of at most one element.                             *)
(***************************************************************************)
EXTENDS Naturals, Integers, Sequences, FiniteSets, SequencesExt

Scalar == {"str", "num", "bool"}
Num(n) == [t |-> "num", num |-> n]
Str(s) == [t |-> "str", str |-> s]
Bool(b) == [t |-> "bool", bool |-> b]
Null == [t |-> "null"]
Map(f) == [t |-> "map", map |-> f]
List(s) == [t |-> "list", list |-> s]

-----------------------------------------------------------------------------
(* Evaluation. An event has an id, a type, an entity, a time and a payload, *)
(* which is a map.                                                         *)

Envelope(e, name) ==
    CASE name = <<"payload">>    -> {Map(e.payload)}
      [] name = <<"event_type">> -> {Str(<<e.type>>)}
      [] name = <<"event_id">>   -> {Str(<<e.id>>)}
      [] name = <<"entity_id">>  -> {Str(<<e.entity>>)}
      [] name = <<"timestamp">>  -> {Num(e.time)}
      [] OTHER -> {}

Child(v, key) == IF v.t = "map" /\ key \in DOMAIN v.map THEN {v.map[key]} ELSE {}

resolvePath(e, path) ==
    LET walk[i \in 1..Len(path)] ==
            IF i = 1 THEN Envelope(e, path[1])
            ELSE UNION {Child(v, path[i]) : v \in walk[i - 1]}
    IN walk[Len(path)]

\* The same comparable class. (comparable2: both are numbers.)
scalarComparable(f, w) == f.t = w.t /\ f.t \in Scalar
scalarEqual(f, w) == scalarComparable(f, w) /\ f = w
BothNumbers(f, w) == f.t = "num" /\ w.t = "num"

\* A clause's operator on a field that was found. A type mismatch is false.
Holds(f, op, w) ==
    CASE op = "=="     -> scalarEqual(f, w)
      [] op = "!="     -> scalarComparable(f, w) /\ ~scalarEqual(f, w)
      [] op = "<"      -> BothNumbers(f, w) /\ f.num < w.num
      [] op = "<="     -> BothNumbers(f, w) /\ f.num <= w.num
      [] op = ">"      -> BothNumbers(f, w) /\ f.num > w.num
      [] op = ">="     -> BothNumbers(f, w) /\ f.num >= w.num
      [] op = "in"     -> w.t = "list" /\ \E i \in DOMAIN w.list : scalarEqual(f, w.list[i])
      [] op = "prefix" -> f.t = "str" /\ w.t = "str" /\ IsPrefix(w.str, f.str)
      [] OTHER         -> FALSE

eval(p, e) ==
    LET field == resolvePath(e, p.path)
    IN IF p.op = "exists" THEN field # {} ELSE \E f \in field : Holds(f, p.op, p.value)

PrefilterMatch(preds, e) == \A i \in DOMAIN preds : eval(preds[i], e)

-----------------------------------------------------------------------------
(* Lowering. A Starlark value has, beside the types above, "int" (a small  *)
(* integer), "bigint" (beyond int64), "none", "dict".                      *)

matchOps == {"==", "!=", "<", "<=", ">", ">=", "in", "exists", "prefix"}
OrderOps == {"<", "<=", ">", ">="}

\* strings.Split(path, "."): the segments between the dots.
Split(s) ==
    LET cuts == {0, Len(s) + 1} \cup {i \in DOMAIN s : s[i] = "."}
        at(k) == CHOOSE i \in cuts : Cardinality({j \in cuts : j < i}) = k
    IN [k \in 1..(Cardinality(cuts) - 1) |-> SubSeq(s, at(k - 1) + 1, at(k) - 1)]

\* Numbers become float64; other types are refused.
lowerScalar(v) ==
    CASE v.t \in {"str", "bool", "num"} -> {v}
      [] v.t = "int" -> {Num(v.num)}
      [] OTHER -> {}

\* A non-empty list of scalars of one type.
lowerList(v) ==
    IF \/ v.t # "list"
       \/ v.list = <<>>
       \/ \E i \in DOMAIN v.list : lowerScalar(v.list[i]) = {}
    THEN {}
    ELSE LET items == [i \in DOMAIN v.list |-> CHOOSE x \in lowerScalar(v.list[i]) : TRUE]
         IN IF \A i \in DOMAIN items : items[i].t = items[1].t THEN {List(items)} ELSE {}

\* A defect: the constant of an ordering may have any scalar type.
lowerValueAny(op, v) == IF op = "in" THEN lowerList(v) ELSE lowerScalar(v)

lowerValue(op, v) ==
    IF op = "in" THEN lowerList(v)
    ELSE {x \in lowerScalar(v) : /\ op = "prefix" => x.t = "str"
                                 /\ op \in OrderOps => x.t = "num"}

\* A clause is a list [path, op] for exists and [path, op, value] else.
lowerClause(cl) ==
    IF \/ cl.t # "list"
       \/ Len(cl.list) \notin 2..3
       \/ cl.list[1].t # "str" \/ cl.list[1].str = <<>>
       \/ cl.list[2].t # "str" \/ Head(cl.list[2].str) \notin matchOps
    THEN {}
    ELSE LET op == Head(cl.list[2].str)
             pred(x) == [path |-> Split(cl.list[1].str), op |-> op, value |-> x]
         IN CASE op = "exists" /\ Len(cl.list) = 2 -> {pred(Null)}
              [] op # "exists" /\ Len(cl.list) = 3 -> {pred(x) : x \in lowerValue(op, cl.list[3])}
              [] OTHER -> {}

\* The shape is exactly {"all": [clause, ...]}; one bad clause refuses the rule.
lowerMatch(v) ==
    IF \/ v.t # "dict"
       \/ DOMAIN v.map # {"all"}
       \/ v.map["all"].t # "list"
       \/ \E i \in DOMAIN v.map["all"].list : lowerClause(v.map["all"].list[i]) = {}
    THEN {}
    ELSE {[i \in DOMAIN v.map["all"].list |->
              CHOOSE p \in lowerClause(v.map["all"].list[i]) : TRUE]}
=============================================================================
