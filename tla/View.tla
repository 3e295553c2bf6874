-------------------------------- MODULE View --------------------------------
(***************************************************************************)
(* What a rule's Starlark body sees of an event: the lazy view, and the    *)
(* conversion of Go values to Starlark's. Values are those of Match; a     *)
(* Starlark value has the types "none", "bool", "float", "int", "string",  *)
(* "list" and "event". The view is immutable and converts on access, so it *)
(* is a function of the event; the elements of a list, which the code      *)
(* converts with the list, are here converted where they are read.         *)
(***************************************************************************)
EXTENDS Match

\* A defect: numbers take the default arm and become text.
lazyConvertText(v) ==
    CASE v.t = "null" -> [t |-> "none"]
      [] v.t = "bool" -> v
      [] v.t = "int"  -> v
      [] v.t \in {"num", "str"} -> [t |-> "string", str |-> IF v.t = "str" THEN v.str ELSE <<v.num>>]
      [] v.t = "list" -> [t |-> "list", src |-> v.list]
      [] v.t = "map"  -> [t |-> "event", src |-> v.map]

lazyConvert(v) ==
    CASE v.t = "null" -> [t |-> "none"]
      [] v.t = "bool" -> v
      [] v.t = "num"  -> [t |-> "float", num |-> v.num]
      [] v.t = "int"  -> v
      [] v.t = "str"  -> [t |-> "string", str |-> v.str]
      [] v.t = "list" -> [t |-> "list", src |-> v.list]
      [] v.t = "map"  -> [t |-> "event", src |-> v.map]

\* The envelope has no entity; the time is an integer.
eventToStarlark(e) ==
    [t |-> "event",
     src |-> [k \in {<<"event_id">>, <<"event_type">>, <<"timestamp">>, <<"payload">>} |->
                 CASE k = <<"event_id">>   -> Str(<<e.id>>)
                   [] k = <<"event_type">> -> Str(<<e.type>>)
                   [] k = <<"timestamp">>  -> [t |-> "int", num |-> e.time]
                   [] k = <<"payload">>    -> Map(e.payload)]]

\* d[key]: a rule error, here the empty set, if the key is missing or d no event.
Get(d, key) ==
    IF d.t = "event" /\ key \in DOMAIN d.src THEN {lazyConvert(d.src[key])} ELSE {}

\* event["a"]["b"]... along a path.
Index(e, path) ==
    LET walk[i \in 0..Len(path)] ==
            IF i = 0 THEN {eventToStarlark(e)} ELSE UNION {Get(d, path[i]) : d \in walk[i - 1]}
    IN walk[Len(path)]

-----------------------------------------------------------------------------
(* Starlark's operators.                                                   *)

Numeric(x) == x.t \in {"int", "float"}
StarEqual(x, y) ==
    \/ Numeric(x) /\ Numeric(y) /\ x.num = y.num
    \/ ~Numeric(x) /\ x = y

\* Values of different types are unequal; ordering them is an error.
StarHolds(x, op, y) ==
    CASE op = "=="     -> StarEqual(x, y)
      [] op = "!="     -> ~StarEqual(x, y)
      [] op = "<"      -> Numeric(x) /\ Numeric(y) /\ x.num < y.num
      [] op = "<="     -> Numeric(x) /\ Numeric(y) /\ x.num <= y.num
      [] op = ">"      -> Numeric(x) /\ Numeric(y) /\ x.num > y.num
      [] op = ">="     -> Numeric(x) /\ Numeric(y) /\ x.num >= y.num
      [] op = "in"     -> \E i \in DOMAIN y.src : StarEqual(x, lazyConvert(y.src[i]))
      [] op = "prefix" -> x.t = "string" /\ IsPrefix(y.str, x.str)
      [] op = "exists" -> TRUE

\* The clause written out in the body of the rule: event[...] op constant.
BodyHolds(p, e) == \E x \in Index(e, p.path) : StarHolds(x, p.op, lazyConvert(p.value))
=============================================================================
