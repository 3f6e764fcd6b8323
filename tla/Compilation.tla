------------------------------ MODULE Compilation ------------------------------
(***************************************************************************)
(* The compilation of a source set's publication (internal/service/        *)
(* publisher.go, exports.go): the admitted members in order, their items   *)
(* filtered by the member and, for channels, overridden by the set's       *)
(* rules, merged without duplicates into one artifact of each kind; the    *)
(* manifest of the plugins a Hub installs, one for each site of a book     *)
(* source (internal/bookplugin/convert.go); and the Bundle, which lists    *)
(* the members themselves.                                                 *)
(*                                                                         *)
(* Three kinds of source stand for the formats: "m3u", "xmltv" and         *)
(* "legado-book".  An item has an id, the key it is told apart by (a URL,  *)
(* a hash of its data, an element with its attributes), a language and,    *)
(* for a book source, its site, whether that is an http address, and       *)
(* whether its rules convert.                                              *)
(***************************************************************************)
EXTENDS Integers, FiniteSets, Sequences, SequencesExt

CONSTANTS
  SourceIds,    \* numbers, in the order of the ids
  KindOf,
  ItemsOf,      \* the approved revision of each source
  RuntimeBound, \* the sources that are bound to a runtime
  Memberships,  \* bound: [priority, role, restricted, languages] of a member
  RuleLists,    \* bound: channel rules, [source, match, hide]; source 0 is any
  MaxPlugins    \* of a manifest, 500 in the code

ASSUME CompilationAssumption ==
  /\ SourceIds \subseteq Nat \ {0} /\ IsFiniteSet(SourceIds)
  /\ KindOf \in [SourceIds -> {"m3u", "xmltv", "legado-book"}]
  /\ \A s \in SourceIds : ItemsOf[s] \in Seq(ToSet(ItemsOf[s]))
  /\ RuntimeBound \subseteq SourceIds
  /\ \A m \in Memberships : m.priority \in Int /\ m.role \in {"primary", "backup", "auxiliary"}
  /\ \A rules \in RuleLists : rules \in Seq(ToSet(rules))
  /\ MaxPlugins \in Nat

VARIABLE publication   \* the set a publication was compiled from, and what it holds

MergedKinds == {"m3u", "xmltv", "legado-book"}
Drafts == UNION {[M -> Memberships] : M \in SUBSET SourceIds}
NoPublication == [members |-> <<>>, rules |-> <<>>, bundle |-> <<>>, hub |-> {},
                  artifacts |-> [k \in MergedKinds |-> <<>>]]

CompilationTypeOK ==
  /\ publication.members \in Drafts
  /\ publication.rules \in RuleLists \cup {<<>>}
  /\ ToSet(publication.bundle) \subseteq DOMAIN publication.members

-----------------------------------------------------------------------------
(* Sorting and filtering. *)

\* The elements of a finite set in an order, given by those that come before each.
InOrder(S, before) ==
  [i \in 1..Cardinality(S) |-> CHOOSE x \in S : Cardinality(before[x]) = i - 1]

\* The elements of a sequence that stand at some of its places.
Keep(seq, places) ==
  LET at == InOrder(places, [i \in places |-> {j \in places : j < i}])
  IN  [k \in DOMAIN at |-> seq[at[k]]]

-----------------------------------------------------------------------------
(* The order of the members. *)

roleOrder(r) == CASE r = "primary" -> 0 [] r = "backup" -> 1 [] r = "auxiliary" -> 2

\* Members by their role alone, then by id.
RankedByRole(ms, s, t) ==
  \/ roleOrder(ms[s].role) < roleOrder(ms[t].role)
  \/ ms[s].role = ms[t].role /\ s < t

\* Priority, then role, then id.
Ranked(ms, s, t) ==
  \/ ms[s].priority > ms[t].priority
  \/ ms[s].priority = ms[t].priority /\ roleOrder(ms[s].role) < roleOrder(ms[t].role)
  \/ ms[s].priority = ms[t].priority /\ ms[s].role = ms[t].role /\ s < t

filtered(items, m) ==
  Keep(items, {i \in DOMAIN items : m.languages = {} \/ items[i].language \in m.languages})

\* A member of whose items its languages leave nothing is excluded.
Selected(ms) ==
  {s \in DOMAIN ms : ms[s].languages = {} \/ filtered(ItemsOf[s], ms[s]) # <<>>}

Ordered(ms) ==
  InOrder(Selected(ms), [s \in Selected(ms) |-> {t \in Selected(ms) : Ranked(ms, t, s)}])

-----------------------------------------------------------------------------
(* The items of a member. *)

\* The last rule that matches an item's URL or id decides.
hides(s, rules, x) ==
  LET matching == {k \in DOMAIN rules :
                     rules[k].source \in {0, s} /\ rules[k].match \in {x.key, x.id}}
  IN  matching # {} /\ Last(Keep(rules, matching)).hide

channelOverrides(s, items, rules) == Keep(items, {i \in DOMAIN items : ~hides(s, rules, items[i])})

legadoBookSourceHTTP(items) == Keep(items, {i \in DOMAIN items : items[i].http})

\* A guide is merged as it is; the filters are for the others.
Items(s, m, rules) ==
  CASE KindOf[s] = "m3u" -> channelOverrides(s, filtered(ItemsOf[s], m), rules)
    [] KindOf[s] = "legado-book" -> legadoBookSourceHTTP(filtered(ItemsOf[s], m))
    [] KindOf[s] = "xmltv" -> ItemsOf[s]

-----------------------------------------------------------------------------
(* The artifacts. *)

\* The first item of each key.
Unique(items) ==
  Keep(items, {i \in DOMAIN items : \A j \in 1..(i - 1) : items[j].key # items[i].key})

\* Without the members a device or a network is required for, which these formats
\* cannot say.
Merged(kind, ms, rules) ==
  LET ordered == Ordered(ms)
      members == Keep(ordered, {i \in DOMAIN ordered :
                                  KindOf[ordered[i]] = kind /\ ~ms[ordered[i]].restricted})
      tagged(s) == [i \in DOMAIN Items(s, ms[s], rules) |->
                     [from |-> s, key |-> Items(s, ms[s], rules)[i].key]]
  IN  Unique(FlattenSeq([i \in DOMAIN members |-> tagged(members[i])]))

\* The rules of the book sources, by their place in what is left of each.
HubRules(ms) ==
  {r \in SourceIds \X UNION {DOMAIN ItemsOf[s] : s \in SourceIds} :
     LET s == r[1] IN
       /\ s \in Selected(ms) /\ KindOf[s] = "legado-book" /\ ~ms[s].restricted
       /\ r[2] \in DOMAIN filtered(ItemsOf[s], ms[s])}

\* Those that convert, and are the first of their site in their source whether or
\* not that one converts; a plugin is told apart by its source and its site.
HubPlugins(ms) ==
  LET rule(r) == filtered(ItemsOf[r[1]], ms[r[1]])[r[2]]
      first(r) == \A i \in 1..(r[2] - 1) : rule(<<r[1], i>>).site # rule(r).site
  IN  {<<r[1], rule(r).site>> : r \in {q \in HubRules(ms) : rule(q).converts /\ first(q)}}

\* The manifest, of no plugin if none of the rules converts; without rules there
\* is none.
Manifest(ms) == IF HubRules(ms) = {} THEN {} ELSE {HubPlugins(ms)}

\* The Bundle's providers.  A book source is one only with a runtime that reads it.
Providers(ms) ==
  LET ordered == Ordered(ms)
  IN  Keep(ordered, {i \in DOMAIN ordered :
                       KindOf[ordered[i]] = "legado-book" => ordered[i] \in RuntimeBound})

\* A compilation looks at no earlier one.  It fails for a manifest that is too
\* long, and if nothing comes of it.
CompilePublication(ms, rules) ==
  /\ publication = NoPublication
  /\ Selected(ms) # {}
  /\ Cardinality(HubPlugins(ms)) <= MaxPlugins
  /\ ~(Providers(ms) = <<>> /\ Manifest(ms) = {} /\ \A k \in MergedKinds : Merged(k, ms, rules) = <<>>)
  /\ publication' = [members |-> ms, rules |-> rules, bundle |-> Providers(ms),
                     hub |-> Manifest(ms),
                     artifacts |-> [k \in MergedKinds |-> Merged(k, ms, rules)]]

CompilationInit == publication = NoPublication
CompilationNext == \E ms \in Drafts, rules \in RuleLists : CompilePublication(ms, rules)
CompilationSpec == CompilationInit /\ [][CompilationNext]_publication

-----------------------------------------------------------------------------
(* The reference. *)

\* An item that a member offers: of its language, and not hidden by the last of
\* the set's rules that matches it.
Offers(s, key) ==
  LET m == publication.members[s]
      rules == publication.rules
      Applies(k, x) == rules[k].source \in {0, s} /\ rules[k].match \in {x.id, key}
  IN  \E x \in ToSet(ItemsOf[s]) :
        /\ x.key = key
        /\ m.languages # {} =>
             \E y \in IF KindOf[s] = "xmltv" THEN ToSet(ItemsOf[s]) ELSE {x} :
               y.language \in m.languages
        /\ KindOf[s] = "legado-book" => x.http
        /\ KindOf[s] = "m3u" =>
             ~ \E k \in DOMAIN rules :
                 Applies(k, x) /\ rules[k].hide /\ \A l \in DOMAIN rules : Applies(l, x) => l <= k

Keys(kind) == {x.key : x \in UNION {ToSet(ItemsOf[s]) : s \in {t \in SourceIds : KindOf[t] = kind}}}

\* What the traditional formats may take from.
Offering(kind, key) ==
  {s \in DOMAIN publication.members :
     KindOf[s] = kind /\ ~publication.members[s].restricted /\ Offers(s, key)}

\* The rules of a book source that its member's languages leave.
Left(s) ==
  LET m == publication.members[s]
  IN  {x \in ToSet(ItemsOf[s]) : m.languages = {} \/ x.language \in m.languages}

\* The sites with a rule that converts, and those with one that does not.
Supported(s) == {x.site : x \in {y \in Left(s) : y.converts}}
Unsupported(s) == {x.site : x \in {y \in Left(s) : ~y.converts}}

\* The sites of a source that a manifest has a plugin for.
Sites(plugins, s) == {p[2] : p \in {q \in plugins : q[1] = s}}

\* The sources whose rules a manifest is made of.
GivesPlugins(s) == KindOf[s] = "legado-book" /\ ~publication.members[s].restricted

\* docs/design.md: by descending priority, the primary first, then by id; what is
\* listed twice is kept once, from the member that comes first.  Each key that an
\* unrestricted member offers is published once, from the best of those members,
\* nothing else is; a Hub is given plugins of those members alone, of each of
\* their sites whose rules all convert and of none whose rules all do not; and the
\* Bundle lists every member a client can use that has something left, restricted
\* ones too.
PublishedFromTheBest ==
  LET ms == publication.members
      Beats(s, t) ==
        \/ ms[s].priority > ms[t].priority
        \/ /\ ms[s].priority = ms[t].priority
           /\ \/ ms[s].role = "primary" /\ ms[t].role # "primary"
              \/ ms[s].role = "backup" /\ ms[t].role = "auxiliary"
              \/ ms[s].role = ms[t].role /\ s <= t
  IN  /\ ToSet(publication.bundle) =
        {s \in DOMAIN ms :
           /\ KindOf[s] \in {"m3u", "xmltv"} \/ s \in RuntimeBound
           /\ ms[s].languages # {} => \E x \in ToSet(ItemsOf[s]) : x.language \in ms[s].languages}
      /\ \A plugins \in publication.hub, s \in DOMAIN ms :
           /\ GivesPlugins(s) => Supported(s) \ Unsupported(s) \subseteq Sites(plugins, s)
           /\ Sites(plugins, s) \subseteq IF GivesPlugins(s) THEN Supported(s) ELSE {}
      /\ \A kind \in MergedKinds : \A key \in Keys(kind) :
           LET places == {i \in DOMAIN publication.artifacts[kind] :
                            publication.artifacts[kind][i].key = key}
           IN  /\ Offering(kind, key) = {} => places = {}
               /\ Offering(kind, key) # {} =>
                    \E i \in places :
                      /\ places = {i}
                      /\ publication.artifacts[kind][i].from \in Offering(kind, key)
                      /\ \A s \in Offering(kind, key) :
                           Beats(publication.artifacts[kind][i].from, s)

\* convert.go: one unsupported rule never hides supported siblings, so that every
\* site with a rule that converts has a plugin in the manifest.  A rule that does
\* not convert takes its site's identifier all the same.
SiblingsAreSupported ==
  \A plugins \in publication.hub, s \in DOMAIN publication.members :
    GivesPlugins(s) => Supported(s) \subseteq Sites(plugins, s)
=============================================================================
