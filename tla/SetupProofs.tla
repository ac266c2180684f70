----------------------------- MODULE SetupProofs -----------------------------
(* What the environment of ncap-ctl guarantees, for all texts, roots and    *)
(* names: setup-env leaves nothing that is derived to be missed, it settles *)
(* at once, and the stamp in the cache guards the container.                *)
EXTENDS Setup, SequenceTheorems, TLAPS

Filled == Texts \ {<<>>}

LEMMA WordsAreTexts ==
  /\ \A w \in Words : <<w>> \in Filled
  /\ <<"/", "tmp">> \in Filled
BY SetupAssumption DEF Texts, Words, Filled

LEMMA HasText ==
  ASSUME NEW env \in Environments, NEW var \in Vars
  PROVE  /\ Has(env, var) => env[var] \in Filled
         /\ env[var] # Unset => env[var] \in Texts
BY DEF Environments, Has, Filled

LEMMA JoinIsText ==
  ASSUME NEW base \in Texts, NEW part \in Texts
  PROVE  Join(base, part) \in Filled
<1>1. "/" \in Chars
  BY SetupAssumption DEF Words
<1>2. CASE IsAbsolute(part)
  BY <1>2 DEF Join, IsAbsolute, Filled
<1>3. CASE ~IsAbsolute(part)
  <2>1. base \o <<"/">> \in Texts /\ Len(base \o <<"/">>) = Len(base) + 1
    BY <1>1 DEF Texts
  <2>2. /\ base \o <<"/">> \o part \in Texts
        /\ Len(base \o <<"/">> \o part) = Len(base) + 1 + Len(part)
    BY <2>1 DEF Texts
  <2>3. base \o <<"/">> \o part # <<>>
    BY <2>2 DEF Texts
  <2> QED BY <1>3, <2>2, <2>3 DEF Join, Filled
<1> QED BY <1>2, <1>3

LEMMA XdgIsText ==
  ASSUME NEW env \in Environments, NEW var \in Ambient, NEW inHome \in Texts,
         Xdg(env, var, inHome) # Unset
  PROVE  Xdg(env, var, inHome) \in Filled
<1>1. CASE env[var] # Unset /\ IsAbsolute(env[var])
  BY <1>1, HasText DEF Xdg, IsAbsolute, Filled, Vars
<1>2. CASE ~(env[var] # Unset /\ IsAbsolute(env[var])) /\ Has(env, "HOME")
  <2>1. env["HOME"] \in Texts
    BY <1>2, HasText DEF Vars, Ambient, Filled
  <2> QED BY <1>2, <2>1, JoinIsText DEF Xdg
<1>3. CASE /\ ~(env[var] # Unset /\ IsAbsolute(env[var]))
           /\ ~Has(env, "HOME") /\ Has(env, "passwd")
  <2>1. env["passwd"] \in Texts
    BY <1>3, HasText DEF Vars, Ambient, Filled
  <2> QED BY <1>3, <2>1, JoinIsText DEF Xdg
<1> QED BY <1>1, <1>2, <1>3 DEF Xdg

LEMMA WithinIsText ==
  ASSUME NEW base \in Texts, NEW project \in Texts
  PROVE  Within(base, project) \in Filled
BY JoinIsText, WordsAreTexts DEF Within, Filled, Words

LEMMA ProjectIsText ==
  ASSUME NEW env \in Environments, SetsUp(env)
  PROVE  ResolveProject(env) \in Filled
<1>1. env["NCAP_PROJECT_ROOT"] \in Roots
  BY DEF SetsUp, Has, Environments
<1>2. Name(env["NCAP_PROJECT_ROOT"]) \in Texts
  BY <1>1, SetupAssumption
<1> QED BY <1>2, HasText DEF SetsUp, ResolveProject, Filled, Vars, Derived

\* Every derived value is a text that is not empty.
LEMMA ExportsAreTexts ==
  ASSUME NEW env \in Environments, SetsUp(env)
  PROVE  \A var \in Derived : Exports(env)[var] \in Filled
<1> DEFINE project == ResolveProject(env)
<1>1. project \in Filled /\ project \in Texts
  BY ProjectIsText DEF Filled
<1>2. Filled \subseteq Texts
  BY DEF Filled
<1>3. ASSUME NEW var \in Derived, Has(env, var) PROVE Exports(env)[var] \in Filled
  BY <1>3, HasText DEF Exports, Vars
<1>4. ASSUME NEW var \in Derived, ~Has(env, var) PROVE Default(env, var) \in Filled
  <2>1. CASE var = "NCAP_PROJECT"
    BY <2>1, <1>1 DEF Default
  <2>2. CASE var = "NCAP_CONTAINER"
    <3>1. <<"ncap-">> \in Texts
      BY WordsAreTexts DEF Words, Filled
    <3>2. <<"ncap-">> \o project \in Texts /\ Len(<<"ncap-">> \o project) = 1 + Len(project)
      BY <1>1, <3>1 DEF Texts
    <3>3. <<"ncap-">> \o project # <<>>
      BY <1>1, <3>2 DEF Texts
    <3>4. Default(env, var) = <<"ncap-">> \o project
      BY <2>2 DEF Default
    <3> QED BY <3>2, <3>3, <3>4 DEF Filled
  <2>3. CASE var = "NCAP_SOCKET"
    <3>1. ASSUME NEW base \in Texts PROVE Join(Within(base, project), <<"ncap.sock">>) \in Filled
      BY <1>1, <1>2, WithinIsText, JoinIsText, WordsAreTexts DEF Words
    <3>2. SocketPath(env, project) \in Filled
      BY <3>1, <1>2, HasText, WordsAreTexts DEF SocketPath, Vars, Ambient
    <3> QED BY <2>3, <3>2 DEF Default
  <2>4. CASE var = "NCAP_CACHE_DIR"
    <3>1. CacheHome(env) \in Texts
      BY <1>2, <1>4, <2>4, XdgIsText, WordsAreTexts DEF SetsUp, CacheHome, Ambient, Words
    <3>2. CacheDir(env, project) \in Filled
      BY <1>1, <3>1, WithinIsText DEF CacheDir
    <3> QED BY <2>4, <3>2 DEF Default
  <2>5. CASE var = "NCAP_LOG_DIR"
    <3>1. StateHome(env) \in Texts
      BY <1>2, <1>4, <2>5, XdgIsText, WordsAreTexts DEF SetsUp, StateHome, Ambient, Words
    <3>2. LogDir(env, project) \in Filled
      BY <1>1, <1>2, <3>1, WithinIsText, JoinIsText, WordsAreTexts DEF LogDir, Words
    <3> QED BY <2>5, <3>2 DEF Default
  <2> QED BY <2>1, <2>2, <2>3, <2>4, <2>5 DEF Derived
<1> QED BY <1>3, <1>4 DEF Exports

LEMMA SourceIsEnvironment ==
  ASSUME NEW env \in Environments
  PROVE  Source(env) \in Environments
<1>1. \A var \in Vars : Source(env)[var] \in Texts \cup {Unset}
  BY ExportsAreTexts DEF Source, Filled, Environments
<1>2. Source(env)["NCAP_PROJECT_ROOT"] = env["NCAP_PROJECT_ROOT"]
  BY DEF Source, Vars, Derived
<1> QED BY <1>1, <1>2 DEF Environments, Source

\* Once a shell has sourced what setup-env printed, no command misses a
\* variable that setup-env derives, or the root (setup_env, resolve).
THEOREM SetupSuffices ==
  ASSUME NEW env \in Environments, NEW host, SetsUp(env)
  PROVE  \A var \in Derived \cup {"NCAP_PROJECT_ROOT"} :
           ~Blames(Source(env), host, var, "missing")
<1> SUFFICES ASSUME NEW var \in Derived \cup {"NCAP_PROJECT_ROOT"},
                    Trouble(Source(env), host, var) = "missing"
             PROVE  FALSE
  BY DEF Blames
<1>1. Unset \notin Filled
  BY SetupAssumption DEF Filled
<1>2. ASSUME var \in Derived PROVE Has(Source(env), var)
  <2>1. Source(env)[var] \in Filled
    BY <1>2, ExportsAreTexts DEF Source, Vars
  <2> QED BY <1>1, <2>1 DEF Has, Filled
<1>3. ASSUME var = "NCAP_PROJECT_ROOT" PROVE Has(Source(env), var)
  BY <1>3 DEF SetsUp, Has, Source, Vars, Derived
<1>4. Has(Source(env), var) /\ var # "watched"
  BY <1>2, <1>3 DEF Derived
<1> QED BY <1>4 DEF Trouble

\* To source it again, as every reload of the shell does, changes nothing
\* (setup_env, lookup_non_empty).
THEOREM SetupSettles ==
  ASSUME NEW env \in Environments
  PROVE  Source(Source(env)) = Source(env)
<1>1. ASSUME NEW var \in Vars PROVE Source(Source(env))[var] = Source(env)[var]
  <2>1. CASE var \notin Derived
    BY <1>1, <2>1 DEF Source
  <2>2. CASE ~SetsUp(env)
    <3>1. Source(env) = env
      BY <2>2 DEF Source, Environments
    <3> QED BY <3>1
  <2>3. CASE var \in Derived /\ SetsUp(env)
    <3>1. Source(env)[var] \in Filled
      BY <1>1, <2>3, ExportsAreTexts DEF Source
    <3>2. Has(Source(env), var)
      BY <3>1, SetupAssumption DEF Has, Filled
    <3> QED BY <1>1, <2>3, <3>2 DEF Source, Exports
  <2> QED BY <2>1, <2>2, <2>3
<1> QED BY <1>1 DEF Source

\* A shell owes nothing to the shell that it was entered from: the flake of the
\* inner one sets every variable, the empty ones included (mkShell, setup_env).
THEOREM ShellsDoNotLeak ==
  ASSUME NEW env \in Environments, NEW outer, NEW outerRoot, NEW flake, NEW root
  PROVE  Enter(Enter(env, outer, outerRoot), flake, root) = Enter(env, flake, root)
<1> DEFINE Laid(e, f, r) ==
             [var \in Vars |->
                IF var = "NCAP_PROJECT_ROOT" THEN r
                ELSE IF var \in Derived \cup Given THEN f[var] ELSE e[var]]
<1>1. \A var \in Vars : var \notin Derived \cup Given \cup {"NCAP_PROJECT_ROOT"} =>
        Source(Laid(env, outer, outerRoot))[var] = env[var]
  BY DEF Source
<1>2. Laid(Source(Laid(env, outer, outerRoot)), flake, root) = Laid(env, flake, root)
  BY <1>1
<1> QED BY <1>2 DEF Enter

LEMMA Prefixed ==
  ASSUME NEW x \in Texts, NEW y \in Texts, NEW z \in Texts
  PROVE  x \o y = x \o z <=> y = z
BY ConcatSimplifications DEF Texts

LEMMA JoinedApart ==
  ASSUME NEW base \in Texts, NEW y \in Texts, NEW z \in Texts,
         ~IsAbsolute(y), ~IsAbsolute(z)
  PROVE  Join(base, y) = Join(base, z) <=> y = z
<1>1. base \o <<"/">> \in Texts
  BY SetupAssumption DEF Texts, Words
<1> QED BY <1>1, Prefixed DEF Join

\* Of a shell that has, but for the name, nothing but what setup-env derives.
Plain(env) ==
  /\ SetsUp(env)
  /\ \A var \in Derived \ {"NCAP_PROJECT"} : ~Has(env, var)
  /\ Has(env, "NCAP_PROJECT") => ~IsAbsolute(env["NCAP_PROJECT"])

LEMMA PlainName ==
  ASSUME NEW env \in Environments, Plain(env)
  PROVE  ResolveProject(env) \in Texts /\ ~IsAbsolute(ResolveProject(env))
<1>1. env["NCAP_PROJECT_ROOT"] \in Roots
  BY DEF Plain, SetsUp, Has, Environments
<1> QED BY <1>1, ProjectIsText, SetupAssumption DEF Plain, ResolveProject, Filled

\* The stamp that guards the cache of a project guards its container too: two
\* shells of one user have the same container exactly if they have the same
\* cache, unless one of them gives one of the two a name of its own (setup_env,
\* paths::cache_dir; spec/paths.md, Stamp guard).
THEOREM StampGuardsContainer ==
  ASSUME NEW a \in Environments, NEW b \in Environments, Plain(a), Plain(b),
         \A var \in Ambient : a[var] = b[var]
  PROVE  Exports(a)["NCAP_CONTAINER"] = Exports(b)["NCAP_CONTAINER"]
           <=> Exports(a)["NCAP_CACHE_DIR"] = Exports(b)["NCAP_CACHE_DIR"]
<1> DEFINE x == ResolveProject(a)
           y == ResolveProject(b)
<1>1. x \in Texts /\ y \in Texts /\ ~IsAbsolute(x) /\ ~IsAbsolute(y)
  BY PlainName
<1>2. /\ Exports(a)["NCAP_CONTAINER"] = <<"ncap-">> \o x
      /\ Exports(b)["NCAP_CONTAINER"] = <<"ncap-">> \o y
  BY DEF Exports, Default, Derived, Plain
<1>3. /\ Exports(a)["NCAP_CACHE_DIR"] = CacheDir(a, x)
      /\ Exports(b)["NCAP_CACHE_DIR"] = CacheDir(b, y)
  BY DEF Exports, Default, Derived, Plain
<1>4. CacheHome(a) = CacheHome(b)
  BY DEF CacheHome, Xdg, Has, Ambient
<1>5. CacheHome(a) \in Texts
  <2>1. CacheHome(a) # Unset
    BY DEF Plain, SetsUp, Derived
  <2> QED BY <2>1, XdgIsText, WordsAreTexts DEF CacheHome, Ambient, Words, Filled
<1>6. Join(CacheHome(a), <<"nix-capsule">>) \in Texts
  BY <1>5, JoinIsText, WordsAreTexts DEF Words, Filled
<1>7. CacheDir(a, x) = CacheDir(b, y) <=> x = y
  BY <1>1, <1>4, <1>6, JoinedApart DEF CacheDir, Within
<1>8. <<"ncap-">> \in Texts
  BY WordsAreTexts DEF Words, Filled
<1>9. <<"ncap-">> \o x = <<"ncap-">> \o y <=> x = y
  BY <1>1, <1>8, Prefixed
<1> QED BY <1>2, <1>3, <1>7, <1>9
=============================================================================
