---------------------------- MODULE MCRequestPath ----------------------------
\* A few clients of one API process, and configuration files with one oddity.
EXTENDS RequestPath

Command(cmd, id, w) ==
  [cmd |-> cmd, cli |-> FALSE, id |-> id, wf |-> w, actor |-> "text", action |-> "none",
   body |-> "object", config |-> FALSE]
Cli(c) == [c EXCEPT !.cli = TRUE]
Approve(action) == [Command("approve", "given", 10) EXCEPT !.action = action]

\* 10 waits for its approval, 11 is to be created, 12 nobody creates.
NamedWorkflows == {10, 11, 12}

\* What takes effect, and what looks at it.
Serious ==
  {Command("initiate", "given", 11),
   Cli(Approve("APPROVE")), Approve("REQUEST_REGENERATION"),
   Cli(Command("output", "given", 10)),
   Command("ready", "none", 12)}

\* The rest, one request of each.
Odd ==
  {Cli([Command("initiate", "none", 12) EXCEPT !.actor = "blank"]),
   Cli([Command("initiate", "given", 12) EXCEPT !.config = TRUE]),
   Command("initiate", "none", 12), Command("initiate", "keylike", 12),
   Command("initiate", "blank", 12), Command("initiate", "number", 12),
   [Command("initiate", "none", 12) EXCEPT !.body = "malformed"],
   [Command("initiate", "none", 12) EXCEPT !.body = "array"],
   Approve("REJECT"), Approve("bogus"), Cli(Approve("bogus")),
   [Approve("APPROVE") EXCEPT !.wf = 12], [Approve("APPROVE") EXCEPT !.actor = "odd"],
   Command("output", "given", 12), Command("output", "keylike", 12),
   Command("status", "odd", 12), Command("status", "given", 11),
   Command("history", "given", 10)}

Nodes == {"infrastructure", "agents", "providers", "collection", "workflow", "workers",
          "retry", "timeouts", "failure_injection"}

Good ==
  [file |-> "ok", secret |-> FALSE, version |-> "1", node |-> [n \in Nodes |-> "ok"],
   provider |-> "openai", prompt |-> "file", providers |-> {"openai"}, timed |-> {"openai"},
   rate |-> "absent", count |-> "some", revisions |-> "one", concurrency |-> "some",
   attempts |-> "some", weights |-> "absent", initial |-> "one", multiplier |-> "some",
   max |-> "some", read |-> "some", connect |-> "absent", total |-> "absent",
   injections |-> {}, redis |-> TRUE,
   env |-> {"api_key", "postgres", "redis"}]

Change(field, values) == {[Good EXCEPT ![field] = v] : v \in values}

Oddities ==
  Change("file", {"missing", "unreadable"}) \cup Change("secret", {TRUE})
  \cup Change("version", {"absent", "2"})
  \cup {[Good EXCEPT !.node[n] = v] : n \in Nodes, v \in {"absent", "wrong"}}
  \cup Change("provider", {"anthropic", "bogus"}) \cup Change("prompt", {"large", "none"})
  \cup Change("providers", {{}}) \cup Change("timed", {{}})
  \cup UNION {Change(n, Number) : n \in
         {"rate", "count", "revisions", "concurrency", "attempts", "weights", "initial",
          "multiplier", "max", "read", "connect", "total"}}
  \cup Change("weights", {"partial"})
  \cup Change("injections", {{"FINJ_PRV_TIMEOUT"}, {"bogus"}})
  \cup {[Good EXCEPT !.redis = r, !.env = e] : r \in BOOLEAN,
          e \in {{"api_key"}, {"postgres", "redis"}, {"api_key", "postgres"}}}

\* All of the odd commands meet one approval, under a file of their own.
Unversioned == [Good EXCEPT !.version = "absent"]
Files == {Good} \cup Oddities
Requests ==
  [f \in Files |->
     CASE f = Good        -> <<Serious, Serious, {Cli(Approve("APPROVE"))}>>
       [] f = Unversioned -> <<Odd, {Approve("APPROVE")}, {}>>
       [] OTHER           -> <<{Cli([Command("initiate", "given", 11) EXCEPT !.config = TRUE])},
                               {}, {}>>]
==============================================================================
