------------------------------ MODULE MCReplay ------------------------------
(***************************************************************************)
(* The replay tool on rule sets that share priorities across types, count, *)
(* or do not compile, and on traces whose payloads hold each type of       *)
(* value, share an event_id, or share an entity.                           *)
(***************************************************************************)
EXTENDS Replay, TLC

CONSTANTS w1, w2
MCTeams == {{w1}, {w1, w2}}

Ev(id, type, entity, payload) ==
    [id |-> id, type |-> type, entity |-> entity, time |-> 5, payload |-> payload]
X(v) == <<"x">> :> v
Nested == X(Map(<<"y">> :> Num(2)))

MCTraces ==
    { <<>>,
      <<Ev("1", "post", "u", X(Num(1))), Ev("2", "post", "u", X(Str(<<"a", "b">>)))>>,
      <<Ev("1", "post", "u", X(Num(2))), Ev("2", "like", "u", X(Bool(TRUE)))>>,
      <<Ev("1", "post", "u", Nested), Ev("2", "like", "v", X(Null))>>,
      <<Ev("1", "post", "u", X(List(<<Num(1)>>))), Ev("2", "like", "v", X(Bool(FALSE)))>>,
      <<Ev("1", "post", "u", X(Num(1))), Ev("1", "post", "v", [k \in {} |-> Null])>> }

\* The payloads, and what they hold.
Members(S) == UNION {{v.map[k] : k \in DOMAIN v.map} : v \in {u \in S : u.t = "map"}}
MCValues ==
    LET payloads == UNION {{Map(e.payload) : e \in ToSet(t)} : t \in MCTraces}
        inside == Members(payloads)
    IN payloads \cup inside \cup Members(inside)

PathX == Str(<<"payload", ".", "x">>)
PathY == Str(<<"payload", ".", "x", ".", "y">>)
I64(n) == [t |-> "int", num |-> n]
Clause(path, op, v) == List(<<path, Str(<<op>>), v>>)
All(clauses) == [t |-> "dict", map |-> [k \in {"all"} |-> List(clauses)]]
Absent == [t |-> "absent"]

Rule(id, type, prio, verdict, match) ==
    [id |-> id, type |-> type, prio |-> prio, verdict |-> verdict, match |-> match,
     limit |-> 0, key |-> id, window |-> 0]
Counting(id, type, prio, verdict, key, window) ==
    [Rule(id, type, prio, verdict, Absent) EXCEPT !.limit = 2, !.key = key, !.window = window]

ra == Rule("a", "*", 1, "review", Absent)
rb == Rule("b", "post", 1, "block", All(<<Clause(PathX, "==", I64(1))>>))
rd == Rule("d", "post", 2, "approve", All(<<Clause(PathX, "!=", Str(<<"a">>))>>))
rg == Rule("g", "*", 2, "block",
          All(<<Clause(PathX, "<=", Num(2)), List(<<PathX, Str(<<"exists">>)>>)>>))
rh == Rule("h", "post", 2, "review",
          All(<<Clause(PathX, "in", List(<<Str(<<"a", "b">>), Str(<<"c">>)>>))>>))
rl == Rule("l", "like", 2, "block", All(<<Clause(PathX, "!=", Bool(FALSE))>>))
rp == Rule("p", "post", 1, "review", All(<<Clause(PathX, "prefix", Str(<<"a">>))>>))
ry == Rule("y", "post", 3, "block", All(<<Clause(PathY, ">", I64(1))>>))
rt == Rule("t", "*", 1, "approve", All(<<Clause(Str(<<"timestamp">>), ">=", I64(5))>>))
k1 == Counting("k1", "post", 1, "block", "k", 1)
k2 == Counting("k2", "*", 2, "review", "k", 2)

\* Clauses that are accepted and never hold.
rq == Rule("q", "post", 1, "block",
          All(<<Clause(Str(<<"timestamp">>), "==", Str(<<"a">>)),
                Clause(Str(<<"event_type">>), "<", I64(5)),
                Clause(Str(<<"x">>), ">", I64(0)),
                Clause(Str(<<"timestamp", ".", "x">>), "!=", I64(1)),
                Clause(Str(<<"payload">>), "in", List(<<Bool(TRUE)>>))>>))

\* One rule fails, before or after it counts, or none.
MCFaults ==
    {[before |-> {}, after |-> {}], [before |-> {"b"}, after |-> {}],
     [before |-> {"k1"}, after |-> {}], [before |-> {}, after |-> {"k2"}]}

\* Matches that lowerMatch refuses.
Bad ==
    { Str(<<"x">>),
      [t |-> "dict", map |-> [q \in {"all", "any"} |-> List(<<>>)]],
      All(<<PathX>>),
      All(<<List(<<PathX>>)>>),
      All(<<Clause(Str(<<>>), "==", I64(1))>>),
      All(<<Clause(PathX, "~", I64(1))>>),
      All(<<Clause(PathX, "exists", I64(1))>>),
      All(<<Clause(PathX, "in", List(<<>>))>>),
      All(<<Clause(PathX, "in", List(<<I64(1), Bool(TRUE)>>))>>),
      All(<<Clause(PathX, "prefix", I64(1))>>),
      All(<<Clause(PathX, "<", Str(<<"a">>))>>),
      All(<<Clause(PathX, "==", [t |-> "bigint"])>>),
      All(<<Clause(PathX, "==", Null)>>) }

MCRuleSets ==
    {{}, {ra, rb, rt}, {rb, rd, rg}, {rh, rp, ry, rq}, {rg, rl}, {k1, k2},
     {ra, [rb EXCEPT !.id = "a"]}} \cup {{Rule("z", "post", 1, "block", m)} : m \in Bad}
=============================================================================
