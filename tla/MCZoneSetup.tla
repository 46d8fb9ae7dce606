---------------------------- MODULE MCZoneSetup ----------------------------
(***************************************************************************)
(* Two providers of one class, one of another, one of a class without a    *)
(* namespace and one whose package clashes with the first's; zones listed  *)
(* and discovered, with and without resource names and strictness; files   *)
(* of one provider, of two, with sections nobody has, with a flat section  *)
(* of a provider the zone may not target, and malformed ones.              *)
(***************************************************************************)
EXTENDS ZoneSetup, TLC

MCNamespaces == {"cf", "aws"}
MCMembers == [ns \in MCNamespaces |-> IF ns = "cf" THEN {"waf", "bots"} ELSE {"acl"}]
MCUninstalled == {Plain("fastly")}

MCClassOf == [p \in {"cf1", "cf2", "aws", "own", "clash"} |->
                CASE p \in {"cf1", "cf2"} -> "Cloudflare" [] p = "aws" -> "AWS"
                  [] p = "own" -> "Own" [] p = "clash" -> "Clash"]
MCNamespaceOf == [c \in {"Cloudflare", "AWS", "Own", "Clash"} |->
                    CASE c = "Cloudflare" -> "cf" [] c = "AWS" -> "aws" [] OTHER -> Unscoped]
MCPhasesOf == [c \in DOMAIN MCNamespaceOf |->
                 CASE c = "Cloudflare" -> {<<<<"cf", "waf">>, "fw_custom">>, <<<<"cf", "bots">>, "fw_rate">>}
                   [] c = "AWS" -> {<<<<"aws", "acl">>, "web_acl">>}
                   [] c = "Own" -> {<<Plain("own_rules"), "rules">>}
                   [] c = "Clash" -> {<<Plain("clash_rules"), "fw_rate">>, <<Plain("more_rules"), "more">>}]
MCFeatures == [c \in DOMAIN MCNamespaceOf |-> IF c = "Cloudflare" THEN CoreSections ELSE {}]
MCHosted == [p \in DOMAIN MCClassOf |->
               CASE p = "cf1" -> {"a", "b"} [] p = "aws" -> {"b", "b-acl", "c"}
                 [] OTHER -> {"a", "b", "c"}]
MCLiveSections ==
  [p \in DOMAIN MCClassOf |->
     CASE p = "cf1" -> {<<"cf", "waf">>, <<"cf", "bots">>} [] p = "cf2" -> {<<"cf", "waf">>}
       [] p = "aws" -> {<<"aws", "acl">>} [] OTHER -> {Plain("own_rules")}]

Entry(targets) ==
  [targets |-> targets, names |-> <<>>, rules |-> TRUE, strict |-> TRUE, odd |-> FALSE]
Named(entry, t, name) == [entry EXCEPT !.names = t :> name]
Lenient(entry) == [entry EXCEPT !.strict = FALSE]
Config(providers, entries) == [providers |-> providers, zones |-> entries]

MCConfigs ==
  {Config(<<"cf1">>, "a" :> Entry(<<>>)),
   Config(<<"cf1", "aws">>, "a" :> Entry(<<>>)),
   Config(<<"cf1", "aws">>, ("b" :> Named(Entry(<<"cf1", "aws">>), "aws", "b-acl"))
                              @@ ("a" :> Lenient(Entry(<<"cf1">>)))),
   Config(<<"cf1", "cf2">>, ("a" :> Entry(<<"cf1", "cf2">>))
                              @@ ("*" :> Lenient(Entry(<<"cf2", "cf1">>)))),
   Config(<<"cf1", "aws">>, ("b" :> Entry(<<"aws">>)) @@ ("*" :> Entry(<<"cf1", "aws">>))),
   Config(<<"cf1", "aws">>, "*" :> Named(Entry(<<"cf1", "aws">>), "aws", "b-acl")),
   Config(<<"aws", "own">>, "b" :> Entry(<<"aws", "own">>)),
   Config(<<"aws", "own">>, "b" :> Entry(<<"aws">>)),
   Config(<<"aws", "own">>, "*" :> Entry(<<"own", "aws">>)),
   Config(<<"cf1", "clash">>, "a" :> Entry(<<"cf1">>)),
   Config(<<"cf1">>, "a" :> [Entry(<<"cf1">>) EXCEPT !.odd = TRUE]),
   Config(<<"cf1">>, "a" :> [Entry(<<"cf1">>) EXCEPT !.rules = FALSE])}

File(flat, blocks) == [flat |-> flat, blocks |-> blocks, scalars |-> {}]
OnlyCf == File({}, "cf" :> {"waf", "lists"})
OnlyAws == File({Plain("fastly")}, "aws" :> {"acl"})
Both == File({}, ("cf" :> {"waf", "bots", "lists"}) @@ ("aws" :> {"acl"}))
Typo == File({}, "cf" :> {"waf", "wfa"})
FlatOnly == File({Plain("own_rules"), Plain("lists")}, <<>>)
Loose == File({Plain("own_rules")}, "aws" :> {"acl"})
Ambiguous == File({Plain("lists")}, ("cf" :> {"waf"}) @@ ("aws" :> {"acl"}))
Twice == File({Plain("lists")}, "cf" :> {"waf", "lists"})
Dotted == File({<<"cf", "waf">>}, <<>>)
Scalar == [File({}, "aws" :> {"acl"}) EXCEPT !.scalars = {"cf"}]

MCFileChoices ==
  {("a" :> f) @@ ("b" :> g) : f \in {OnlyCf, Both, Typo, Twice, Scalar}, g \in {OnlyAws, Both, Ambiguous}}
    \cup {("b" :> f) @@ ("c" :> OnlyAws) : f \in {OnlyAws, FlatOnly, Loose, Dotted}}
    \cup {<<>>}

MCFilters == {NoFilter, {"b"}}
=============================================================================
