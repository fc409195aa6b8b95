----------------------------- MODULE MCMapLoad -----------------------------
(***************************************************************************)
(* An instance of MapLoad: a convention no leaf supports (c), an           *)
(* undercutter of it (z) and an argument over it (w), objections to it     *)
(* from evidence (k) and with an open question (h), and two contrary       *)
(* leaves (a, b).  Two directories hold three members; the first also      *)
(* holds the policy the manifest names.                                    *)
(***************************************************************************)
EXTENDS MapLoad, TLC

MCShape == {"a", "b", "c", "z", "k", "h", "w"}
MCSub == [a |-> {"a"}, b |-> {"b"}, c |-> {"c"}, z |-> {"z"},
          k |-> {"k", "b"}, h |-> {"h", "b"}, w |-> {"w", "c", "a"}]
MCMode == [s \in MCShape |-> IF s \in {"a", "b"} THEN "leaf" ELSE "defeasible"]
MCConcl == [a |-> "p", b |-> "np", c |-> "m", z |-> "q", k |-> "nm", h |-> "nm", w |-> "r"]
MCInfers == [s \in MCShape |-> IF s = "h" THEN "hole" ELSE "complete"]

Claim(name, prop) == [name |-> name, prop |-> prop]
Hit(kind, src, tgt, occ) == [kind |-> kind, src |-> src, tgt |-> tgt, occ |-> occ]
Text0 == [policy |-> "v1", backends |-> "nd", valid |-> TRUE, atts |-> {}]
Prog(args, atts, claims) == [Text0 EXCEPT !.atts = atts] @@ [args |-> args, claims |-> claims]
Both(i, j, si, sj) == {Hit("rebut", i, j, sj), Hit("rebut", j, i, si)}

c1 == Claim("c1", "m")
c2 == Claim("c2", "nm")
c3 == Claim("c3", "p")
c4 == Claim("c4", "r")

MCSource ==
  [adopt    |-> Prog(<<"c">>, {}, <<c1>>),
   critic   |-> Prog(<<"c", "k">>, Both(1, 2, "c", "k"), <<c1, c2>>),
   late     |-> Prog(<<"h", "k", "a">>, {}, <<c2, c3>>),
   built    |-> Prog(<<"c", "a", "w">>, {}, <<c4, c3>>),
   contra   |-> Prog(<<"b", "a">>, {Hit("undermine", 1, 2, "a")}, <<c3>>),
   cut      |-> Prog(<<"z", "c">>, {Hit("undercut", 1, 2, "c")}, <<c1>>),
   uncut    |-> Prog(<<"z", "c">>, {}, <<c1>>),
   open     |-> Prog(<<"c", "k">>, {}, <<c1>>),
   twice    |-> Prog(<<"c">>, {}, <<c1, c1>>),
   foreign  |-> [Prog(<<"c">>, {}, <<c1>>) EXCEPT !.policy = "v2"],
   backend  |-> [Prog(<<"c">>, {}, <<c1>>) EXCEPT !.backends = "ra"],
   invalid  |-> [Prog(<<"c">>, {}, <<c1>>) EXCEPT !.valid = FALSE]]

Rows == [id |-> "v1", sound |-> TRUE, reject |-> {}, quarantine |-> {},
         contrary |-> {<<"m", "nm">>, <<"nm", "m">>, <<"np", "p">>},
         exception |-> {<<"q", "c">>}]
MCPolicyText ==
  [P |-> Rows,
   R |-> [Rows EXCEPT !.reject = {"b"}],
   Q |-> [Rows EXCEPT !.quarantine = {"a"}],
   X |-> [Rows EXCEPT !.sound = FALSE],
   V |-> [Rows EXCEPT !.id = "v2"]]

MCPath == {"map", "d1/v1", "d2/v1", "d1/v2", "d2/v2", "d1/x", "d1/y", "d2/z", "d2/link"}
MCKey  == [f \in MCPath |-> IF f = "d2/link" THEN "d1/x" ELSE f]
Dir(d) == [v1 |-> d \o "/v1", v2 |-> d \o "/v2"]
MCPolicyPath == [f \in MCPath |-> IF f \in {"d2/z", "d2/link"} THEN Dir("d2") ELSE Dir("d1")]

Map(members) == [policy |-> "v1", policyPath |-> "d1/v1", backends |-> "nd", members |-> members]
MCManifest ==
  [three |-> Map(<<"d1/x", "d1/y", "d2/z">>),
   linked |-> Map(<<"d2/link", "d1/y">>),
   same |-> Map(<<"d1/x", "d2/link">>),
   v2 |-> [Map(<<"d1/x">>) EXCEPT !.policy = "v2"]]

Programs == DOMAIN MCSource
Disk(m, x, y, z, p1, p2) ==
  [k \in {MCKey[f] : f \in MCPath} |->
     CASE k = "map" -> m [] k = "d1/x" -> x [] k = "d1/y" -> y [] k = "d2/z" -> z
       [] k = "d1/v1" -> p1 [] k = "d2/v1" -> p2 [] OTHER -> "V"]

Good == {"adopt", "critic", "late", "built", "contra", "cut", "uncut"}
MCDisks ==
  {Disk("three", x, y, z, "P", "P") : x, y \in Programs, z \in Good}
  \cup {Disk("three", "late", y, "contra", p1, p2) :
          y \in Programs \cup {"absent", "garbled"},
          p1, p2 \in {"P", "R", "Q", "X", "V", "absent", "garbled"}}
  \cup {Disk(m, "critic", "adopt", "built", p1, "P") :
          m \in {"linked", "same", "v2", "absent", "garbled"}, p1 \in {"P", "V"}}

MCEdited == ("d1/v1" :> {"P", "R", "V", "absent", "garbled"})
            @@ ("d2/v1" :> {"P", "Q"})
            @@ ("d1/x" :> {"critic", "absent"})
            @@ ("d1/y" :> {"cut", "garbled"})
=============================================================================
