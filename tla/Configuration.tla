---------------------------- MODULE Configuration ----------------------------
(***************************************************************************)
(* DefaultConfigLoader: which configuration files a process starts with.   *)
(*                                                                         *)
(* A file is a record.  A number in it is "absent", "wrong" (no number),   *)
(* "zero" (or less), "one", "some" (three or more), "many" (over the limit *)
(* of candidates) or YAML's "inf" and "nan"; one value stands for all the  *)
(* fields of its kind.  A mapping is "ok", "absent" or "wrong" (no mapping,*)
(* or with a key that is not allowed).  A check gives the code of the      *)
(* error it raises, or "ok".                                               *)
(*   file        "ok", "missing", "unreadable"                             *)
(*   secret      some string looks like a key                              *)
(*   version     "absent", "1" or another                                  *)
(*   node        the mappings, by top-level name                           *)
(*   provider    agents.*.provider: a provider id, or "bogus"              *)
(*   prompt      agents.*.prompt_file: "file", "large", "none"             *)
(*   providers   the ids defined in providers, timed those in timeouts     *)
(*   rate, count, revisions, concurrency, attempts   integers              *)
(*   weights     collection.scoring, also "partial"                        *)
(*   initial, multiplier, max      retry.*.backoff                         *)
(*   read, connect, total          timeouts.*                              *)
(*   injections  failure_injection's ids, perhaps with "bogus"             *)
(*   redis       infrastructure.redis.password_env is given                *)
(*   env         which variables are set: of "api_key", "postgres", "redis"*)
(***************************************************************************)
EXTENDS Providers

Number == {"absent", "wrong", "zero", "one", "some", "many", "inf", "nan"}

\* The first error of several checks, in the order in which they are made.
FirstError(codes) ==
  LET failing == {i \in DOMAIN codes : codes[i] # "ok"}
  IN IF failing = {} THEN "ok"
     ELSE codes[CHOOSE i \in failing : \A j \in failing : i <= j]

Unless(good, code) == IF good THEN "ok" ELSE code

\* SourceLocator.resolve and ConfigParser.parse_file
ParseFile(f) == Unless(f.file = "ok", "CFG_LOAD")

\* SecretScanner.scan, before anything is known to be where it belongs.
Scan(f) == Unless(~ f.secret, "CFG_SECRET")

\* _require_domain, _require_mapping, _reject_unknown_keys
RequireDomain(f, name) ==
  CASE f.node[name] = "absent" -> "CFG_MISSING"
    [] f.node[name] = "wrong"  -> "CFG_FORMAT"
    [] OTHER                   -> "ok"

\* _require_int: a YAML float is no integer.
RequireInt(n) ==
  CASE n = "absent"                 -> "CFG_MISSING"
    [] n \in {"wrong", "inf", "nan"} -> "CFG_FORMAT"
    [] OTHER                        -> "ok"

\* _require_positive_float, which requires a number.
RequireFloat(n) ==
  CASE n = "absent" -> "CFG_MISSING"
    [] n = "wrong"  -> "CFG_FORMAT"
    [] OTHER        -> "ok"

Optional(check, n) == IF n = "absent" THEN "ok" ELSE check

MapConfigVersion(f) == Unless(f.version \in {"absent", "1"}, "CFG_FORMAT")

\* Credentials are named, never given: what they name is checked at the end.
MapInfrastructure(f) == RequireDomain(f, "infrastructure")

MapAgents(f) ==
  FirstError(<<RequireDomain(f, "agents"), Unless(f.provider \in ProviderId, "CFG_FORMAT")>>)

MapProviders(f) ==
  FirstError(<<RequireDomain(f, "providers"), Optional(RequireInt(f.rate), f.rate)>>)

\* A scoring block has every weight.
MapCollection(f) ==
  FirstError(<<RequireDomain(f, "collection"),
               Unless(f.weights # "partial", "CFG_MISSING"),
               Optional(RequireFloat(f.weights), f.weights), RequireInt(f.count)>>)

MapWorkflow(f) == FirstError(<<RequireDomain(f, "workflow"), RequireInt(f.revisions)>>)

MapWorkers(f) == FirstError(<<RequireDomain(f, "workers"), RequireInt(f.concurrency)>>)

MapRetry(f) ==
  FirstError(<<RequireDomain(f, "retry"), RequireInt(f.attempts), RequireFloat(f.initial),
               RequireFloat(f.multiplier), RequireFloat(f.max)>>)

MapTimeouts(f) ==
  FirstError(<<RequireDomain(f, "timeouts"),
               Unless(f.provider \in f.timed, "CFG_MISSING"),
               Optional(RequireFloat(f.connect), f.connect), RequireFloat(f.read),
               Optional(RequireFloat(f.total), f.total)>>)

\* enabled is whatever Python takes for true; an id need only be a string.
MapFailureInjection(f) == Unless(f.node["failure_injection"] # "wrong", "CFG_FORMAT")

\* SchemaMapper.map
Map(f) ==
  FirstError(<<MapConfigVersion(f), MapInfrastructure(f), MapAgents(f), MapProviders(f),
               MapCollection(f), MapWorkflow(f), MapWorkers(f), MapRetry(f),
               MapTimeouts(f), MapFailureInjection(f)>>)

\* `value <= 0' is an error, and not so for nan.
Positive(n) == Unless(n # "zero", "CFG_VALUE")

\* _validate_referential_integrity: unknown injections of a disabled block too.
ValidateReferences(f) ==
  FirstError(<<Unless(f.provider \in f.providers, "CFG_VALUE"),
               Unless("bogus" \notin f.injections, "CFG_VALUE")>>)

\* _validate_numeric_constraints
ValidateNumbers(f) ==
  FirstError([i \in 1 .. 11 |->
    Positive(<<f.count, f.revisions, f.concurrency, f.attempts, f.initial, f.multiplier,
               f.max, f.read, f.connect, f.total, f.rate>>[i])])

\* PromptChecker.check_all: a relative path of a file.
CheckPrompts(f) == Unless(f.prompt # "none", "CFG_PROMPT")

\* ProviderCredChecker for the providers that agents name, the fake one too,
\* and InfraCredChecker: Redis may go without a password.
CheckCredentials(f) ==
  Unless({"api_key", "postgres"} \cup {v \in {"redis"} : f.redis} \subseteq f.env,
         "CFG_CREDENTIAL")

\* ConfigValidator.validate
Validate(f) ==
  FirstError(<<ValidateReferences(f), ValidateNumbers(f), CheckPrompts(f), CheckCredentials(f)>>)

\* DefaultConfigLoader.load; AppConfigFactory.build raises nothing.
Load(f) == FirstError(<<ParseFile(f), Scan(f), Map(f), Validate(f)>>)
==============================================================================
