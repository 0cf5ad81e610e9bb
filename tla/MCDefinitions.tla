---------------------------- MODULE MCDefinitions ----------------------------
(* Small instances of Definitions.                                         *)
EXTENDS Definitions

\* Two scenarios, one of them with stepOptions.
MC_Roots ==
  <<[timeout |-> {}, maxAttempts |-> {}, names |-> {"a", "c"}, tags |-> {"c"}],
    [timeout |-> {3}, maxAttempts |-> {4}, names |-> {"b"}, tags |-> {"a", "c"}]>>

Call(kind, name, timeout, maxAttempts) ==
  [kind |-> kind, name |-> name, timeout |-> timeout, maxAttempts |-> maxAttempts]

MC_Calls ==
  {Call("resource", "r", {5}, {}), Call("setup", "", {}, {6}),
   Call("step", "", {}, {}), Call("step", "s", {5}, {6})}

\* Three files in two directories; the last is not found by walking there.
MC_Tree ==
  <<[dir |-> 1, roots |-> {1}, glob |-> "included"],
    [dir |-> 1, roots |-> {2}, glob |-> "included"],
    [dir |-> 2, roots |-> {}, glob |-> "excluded"]>>

Spelling(f, absolute, walked) == [file |-> f, absolute |-> absolute, walked |-> walked]

\* /x/./b, /x/a, /x/b, /y/c, x/a and x/b
MC_Spellings ==
  <<Spelling(2, TRUE, FALSE), Spelling(1, TRUE, TRUE), Spelling(2, TRUE, TRUE),
    Spelling(3, TRUE, TRUE), Spelling(1, FALSE, TRUE), Spelling(2, FALSE, TRUE)>>

File(n) == [is |-> "file", spelling |-> n]
Dir(d, absolute) == [is |-> "dir", dir |-> d, absolute |-> absolute]
Other(what) == [is |-> what]

\* Overlapping under one spelling and under two, in two orders, absolute and not
MC_PathSets ==
  {<<File(3), Dir(1, TRUE)>>, <<Dir(1, TRUE), File(1)>>,
   <<Dir(1, FALSE), File(2), Dir(2, TRUE)>>, <<File(4), File(2), Other("missing"), File(1)>>,
   <<Other("forbidden"), File(2)>>}

Part(type, pattern) == [negated |-> FALSE, type |-> type, pattern |-> pattern]
Not(type, pattern) == [negated |-> TRUE, type |-> type, pattern |-> pattern]

MC_Inputs ==
  {<<>>, <<<<Part("blank", "")>>>>, <<<<Part("none", "a")>>, <<Part("tag", "a")>>>>,
   <<<<Not("name", "a"), Part("tag", "c")>>>>, <<<<Not("tag", "a")>>>>,
   <<<<Part("name", "a")>>, <<Part("kind", "a")>>>>,
   <<<<Part("tag", "c")>>, <<Part("kind", "a")>>>>,
   <<<<Part("tag", "c"), Not("name", "b")>>, <<Part("name", "z")>>>>}
=============================================================================
