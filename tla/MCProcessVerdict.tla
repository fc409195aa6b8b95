--------------------------- MODULE MCProcessVerdict ---------------------------
(* Events, some with one identity, that compete for two datasets, two runs and  *)
(* one source; records over five of them, slots with late empty guards, and     *)
(* limits on both sides of the counts.                                          *)
EXTENDS ProcessVerdict

Commit  == [id |-> 1, kind |-> "commit", actor |-> "a", plan |-> "p"]
Look    == [id |-> 3, kind |-> "access", actor |-> "a", data |-> "x", purpose |-> "evaluation"]
Pick    == [id |-> 4, kind |-> "access", actor |-> "b", data |-> "y", purpose |-> "selection"]
Analyse == [id |-> 5, kind |-> "run", run |-> "r", plan |-> "p", inputs |-> {<<"x", 0>>}, family |-> "f"]
Renew   == [id |-> 6, kind |-> "update", data |-> "x", version |-> 1]
Again   == [id |-> 8, kind |-> "run", run |-> "q", plan |-> "p", inputs |-> {<<"x", 1>>}, family |-> "f"]

MCPool ==
  { Commit, Look, Pick, Analyse, Renew, Again,
    [id |-> 2, kind |-> "commit", actor |-> "a", plan |-> "p"],
    [id |-> 4, kind |-> "access", actor |-> "a", data |-> "x", purpose |-> "evaluation"],
    [id |-> 6, kind |-> "run", run |-> "r", plan |-> "p", inputs |-> {<<"x", 1>>, <<"y", 0>>}, family |-> "f"],
    [id |-> 2, kind |-> "update", data |-> "x", version |-> 0],
    [id |-> 9, kind |-> "result", run |-> "r"],
    [id |-> 9, kind |-> "retract", source |-> "s"],
    [id |-> 10, kind |-> "retract", source |-> "s"],
    [id |-> 10, kind |-> "assert"] }

Scope(kinds, family, actors, data, cutoff) ==
  [kinds |-> kinds, family |-> family, actors |-> actors, data |-> data, cutoff |-> cutoff]

Record(events, before, coverage, cutoff) ==
  [events |-> events, before |-> before, coverage |-> coverage, cutoff |-> cutoff]

Complete == [kind |-> "complete", scope |-> Scope({"access"}, {}, {{"a"}}, {{"x", "y"}}, 2)]
FewRuns  == [kind |-> "bounded", scope |-> Scope({"run", "access"}, {}, {}, {}, 4), bound |-> 1]
OneRun   == [kind |-> "bounded", scope |-> Scope({"run"}, {"f"}, {}, {}, 4), bound |-> 0]
Open     == [kind |-> "open", scope |-> Scope({}, {}, {}, {}, 0)]

Problem(record, pool) ==
  [record |-> record, pool |-> pool, unrecorded |-> Occurs(pool) \ record.events]

MCProblems ==
  { Problem(Record({}, {}, {Open}, 3), <<Commit, Look, Analyse, Again>>),
    Problem(Record({Commit, Look}, {<<1, 3>>}, {}, 4), <<Commit, Look, Analyse, Pick>>),
    Problem(Record({Analyse}, {}, {Complete}, 4), <<Analyse, Pick, Look, Commit>>),
    Problem(Record({Commit}, {<<1, 8>>}, {FewRuns}, 4), <<Commit, Again, Renew, Pick>>),
    Problem(Record({Commit, Analyse}, {}, {OneRun}, 4), <<Commit, Analyse, Look>>),
    Problem(Record({Renew, Again}, {}, {Open}, 4), <<Again, Renew, Commit>>) }

Truth == [kind |-> "truth"]
Committed(run) == [kind |-> "precommitted", run |-> run]
SeenFirst == [kind |-> "before", first |-> Look, second |-> Commit]

MCSlots ==
  { << >>,
    << <<Truth, Committed("r"), [kind |-> "present", event |-> Look]>>, <<SeenFirst>> >>,
    << <<Truth, Truth>>, <<[kind |-> "absent", event |-> Look], [kind |-> "predictable"]>> >>,
    << <<[kind |-> "split", selection |-> {"y"}, test |-> {"x"}], Truth>>,
       <<[kind |-> "count", family |-> "f", bound |-> 0]>>, <<Truth, SeenFirst>> >> }

MCLimits ==
  { [histories |-> 40, steps |-> 90, products |-> 60], [histories |-> 40, steps |-> 90, products |-> 7],
    [histories |-> 3, steps |-> 90, products |-> 0], [histories |-> 40, steps |-> 90, products |-> 0],
    [histories |-> 40, steps |-> 12, products |-> 60] }
MCHardLimits == [histories |-> 30, steps |-> 60, products |-> 50]

MCQueries ==
  { Committed("r"), Committed("q"), [kind |-> "predictable"],
    [kind |-> "split", selection |-> {"y"}, test |-> {"x"}],
    [kind |-> "count", family |-> "f", bound |-> 0] }
=============================================================================
