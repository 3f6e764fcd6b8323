----------------------------- MODULE MCServices -----------------------------
(***************************************************************************)
(* The instance of Services that Services.cfg checks: for each component a *)
(* few actors that contend for the same thing.                             *)
(***************************************************************************)
EXTENDS Services, TLC

CONSTANTS b1, b2, x, y,           \* two bridges of two sets on one plugin root
          t1, t2, t3, t4,         \* tokens
          agg, device, system,    \* an aggregate, a binding an operator made, its own
          reset, request,
          catalog, u1, u2,
          w1, w2, w3,             \* the calls, processes and requests under way elsewhere
          n1, n2                  \* the candidates, and the hosts

TheSetOf == b1 :> x @@ b2 :> y
TheManifests == x :> {<<1, 1>>, <<0, 2>>} @@ y :> {<<0, 1>>}

TheBoundTo == system :> agg @@ device :> agg
TheSystemOf == agg :> system

\* An entry that one list gains and the other one has.
TheListed == u1 :> (1 :> {} @@ 2 :> {1}) @@ u2 :> (1 :> {1} @@ 2 :> {1})

\* An archive with a row that LocalRows may have turned into another one, and
\* one without the snapshot its row names.
TheArchives ==
  {[rows |-> {<<2, "b">>}, seeds |-> {<<"x", 1>>}, snaps |-> {"b"}],
   [rows |-> {<<3, "c">>}, seeds |-> {<<"y", 1>>}, snaps |-> {}]}
TheRows == {}
TheSeeds == {<<"z", 1>>}
TheReleaseSeeds == {<<"x", 2>>}
TheLocalRows == {<<2, "c">>}

\* A playlist with a channel listed twice, two sets of book sources that share a
\* rule and may be too many for a manifest of one plugin, and a guide.
Entry(id, key, language) ==
  [id |-> id, key |-> key, language |-> language, site |-> "", http |-> TRUE, converts |-> FALSE]
Book(id, key, language, site, http, converts) ==
  [id |-> id, key |-> key, language |-> language, site |-> site, http |-> http, converts |-> converts]
TheKinds == <<"m3u", "legado-book", "legado-book", "xmltv">>
TheItems ==
  << <<Entry("a", "u", "en"), Entry("b", "v", "de"), Entry("c", "u", "de")>>,
     <<Book("e", "h", "de", "s", TRUE, FALSE), Book("f", "h", "de", "s", TRUE, FALSE),
       Book("g", "i", "en", "s", TRUE, TRUE), Book("k", "j", "de", "o", FALSE, TRUE)>>,
     <<Book("l", "h", "de", "r", TRUE, FALSE), Book("m", "i", "en", "r", TRUE, TRUE)>>,
     <<Entry("p", "g", ""), Entry("q", "g", "")>> >>
TheMemberships ==
  [priority : {1, 2}, role : {"primary", "backup"}, restricted : {FALSE}, languages : {{}}]
  \cup {[priority |-> 2, role |-> "primary", restricted |-> TRUE, languages |-> {}],
        [priority |-> 1, role |-> "auxiliary", restricted |-> FALSE, languages |-> {"en"}]}
TheRules ==
  {<<>>,
   <<[source |-> 0, match |-> "u", hide |-> TRUE], [source |-> 1, match |-> "c", hide |-> FALSE]>>,
   <<[source |-> 2, match |-> "u", hide |-> TRUE], [source |-> 1, match |-> "b", hide |-> TRUE]>>}

\* The calls, processes and requests under way may change names.
Alike == Permutations({w1, w2})
=============================================================================
