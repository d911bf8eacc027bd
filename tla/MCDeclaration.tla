--------------------------- MODULE MCDeclaration ---------------------------
(* An instance of Declaration for TLC: declarations of which one is right, *)
(* and what is wrong, or different, in one place of it.                    *)
EXTENDS Declaration, TLC

Account(n, c, x) == [name |-> n, case |-> c, suffix |-> x]
LockEntry(i, r, g, p) == [id |-> i, role |-> r, git |-> g, pin |-> p]
(* E and E2, and X and X2, are the same repositories with and without a pin. *)
MCLock ==
  <<LockEntry("T", "deployment-operated", "gT", None), LockEntry("P", "deployment-operated", "gP", None),
    LockEntry("E", "deployment-operated", "gE", "r1"), LockEntry("E2", "deployment-operated", "gE", None),
    LockEntry("X", "deployment-operated", "gX", "x1"), LockEntry("X2", "deployment-operated", "gX", None),
    LockEntry("M", "mechanism", "gM", "m1")>>
MCPublished ==
  ("credential.py" :> "credential") @@ ("engine.py" :> "engine") @@ ("durable.py" :> "durable")
    @@ ("control.sh" :> "control")
MCHolds == [gT |-> {}, gP |-> {"p1", "board"}, gE |-> {}, gX |-> {"x1", "p1"}, gM |-> {}]
(* The main branch of the platform moves from one revision to the other.   *)
MCDerives == {[git |-> "gP", ref |-> x[1], path |-> "pair", rev |-> x[2]] :
                x \in {<<"main", "r1">>, <<"main", "r2">>, <<"dev", "r1">>}}
Offer(i, k, l, e) == [id |-> i, kind |-> k, lock |-> l, entry |-> e]
Offers ==
  <<Offer("c", "credential", "M", "credential.py"), Offer("e", "engine", "M", "engine.py"),
    Offer("d", "durable", "M", "durable.py"), Offer("k", "control", "P", "board")>>
Base ==
  [id |-> "d1", target |-> "t1", roster |-> <<Account("bot", "lower", ""), Account("peer", "lower", "")>>,
   authors |-> << >>, sources |-> [target |-> "T", platform |-> "P", engine |-> "E"],
   roots |-> [target |-> "rt", platform |-> "rp", engine |-> "re"], branch |-> "main",
   path |-> "pair", binary |-> "fkst",
   extra |-> <<[lock |-> "X", root |-> "rx", packages |-> <<"x1">>]>>, packages |-> <<"p1">>,
   bindings |-> [credential |-> "c", engine |-> "e", durable |-> "d", control |-> "k"]]
Second == [Base EXCEPT !.id = "d2", !.target = "t2", !.roots.target = "rt2"]
MCDeclarations ==
  {Base,
   [Base EXCEPT !.roster = @ \o <<Account("bot", "upper", "")>>],
   [Base EXCEPT !.roster[1].case = "upper"],
   [Base EXCEPT !.roster = @ \o <<Account("peer", "lower", "[bot]")>>],
   [Base EXCEPT !.roster = <<Account("bot", "lower", "[bot]"), Account("bot", "upper", "")>>],
   [Base EXCEPT !.authors = <<Account("a", "lower", ""), Account("a", "upper", "")>>],
   [Base EXCEPT !.sources.engine = "M"],
   [Base EXCEPT !.sources.engine = "U"],
   [Base EXCEPT !.sources.engine = "E2"],
   [Base EXCEPT !.extra[1].lock = "U"],
   [Base EXCEPT !.sources.target = "P", !.roots.target = "rp"],
   [Base EXCEPT !.roots.target = "rp"],
   [Base EXCEPT !.roots.engine = "rp"],
   [Base EXCEPT !.roots.target = "re", !.roots.engine = "re2"],
   [Base EXCEPT !.extra[1].lock = "P"],
   [Base EXCEPT !.extra[1].root = "rp"],
   [Base EXCEPT !.extra[1].packages = <<"p1">>],
   [Base EXCEPT !.extra = << >>],
   [Base EXCEPT !.packages = <<"p2">>],
   [Base EXCEPT !.bindings.control = "d"],
   [Base EXCEPT !.path = "gone"],
   [Base EXCEPT !.branch = "dev"]}
File(p, ds) == [providers |-> p, deployments |-> ds]
MCInputs ==
  {<<File(Offers, <<b>>)>> : b \in MCDeclarations}
    \cup {<<File([Offers EXCEPT ![4] = p], <<Base>>)>> :
            p \in {Offer("k", "control", "X", "x1"), Offer("k", "control", "M", "engine.py"),
                   Offer("d", "durable", "M", "durable.py"), Offer("k", "control", "P", "none")}}
    \cup {<<File(Offers, <<Base, [Second EXCEPT !.id = i, !.target = t]>>)>> :
            i \in {"d1", "d2"}, t \in {"t1", "t2"}}
    \cup {<<File(Offers, <<Base>>), File(Offers, <<b>>)>> :
            b \in {Second, [Second EXCEPT !.branch = "dev"], [Second EXCEPT !.roots.engine = "rp"],
                   [Second EXCEPT !.roots.engine = "re2"], [Second EXCEPT !.binary = "fkst2"],
                   [Second EXCEPT !.sources.target = "E", !.roots.target = "re", !.roots.engine = "re2"],
                   [Second EXCEPT !.roots.target = "rx"],
                   [Second EXCEPT !.sources.target = "X2", !.roots.target = "rx", !.extra = << >>],
                   [Second EXCEPT !.extra[1].packages = <<"p1">>]}}
MCBot == Account("bot", "lower", "[bot]")
=============================================================================
