---------------------------- MODULE MCCompilation ----------------------------
(* A book source with two rules of one site, of which the first does not *)
(* convert, and a rule of another site.                                   *)
EXTENDS Compilation

TheKinds == <<"legado-book">>
Rule(id, site, converts) ==
  [id |-> id, key |-> id, language |-> "", site |-> site, http |-> TRUE, converts |-> converts]
TheItems == << <<Rule("a", "s", FALSE), Rule("b", "s", TRUE), Rule("c", "o", TRUE)>> >>
TheRules == {<<>>}
TheMemberships == [priority : {1}, role : {"primary"}, restricted : {FALSE}, languages : {{}}]
=============================================================================
