------------------------------ MODULE MCGuideBook ------------------------------
(* A guide with a support matrix and filtered steps, each of the steps     *)
(* below alone, in pairs and in some triples, odd guides and pages, and a  *)
(* plain guide after it.                                                   *)
EXTENDS GuideBook

MCTargets == <<"rich", "plain">>

Text(var, value) ==
  [var |-> var, form |-> "text", default |-> value, values |-> {}, sensitive |-> FALSE]
Map(var, value, values) ==
  [var |-> var, form |-> "map", default |-> value, values |-> values, sensitive |-> FALSE]
Secret(var) ==
  [var |-> var, form |-> "map", default |-> "placeholder", values |-> {}, sensitive |-> TRUE]

MCEnv == << Text("BRANCH", "main"), Secret("HF_TOKEN"),
            Map(ACCEL, "gpu", {"gpu", "tpu"}), Map(ENGINE, "vllm", {"vllm", "sglang"}),
            Map(PROVIDER, "gke", {"gke", "none"}) >>

Step(run, branch, when, skip) == [run |-> run, branch |-> branch, when |-> when, skip |-> skip]

MCStep ==
  { Step("clone", "main", NoFilter, FALSE),
    Step("wait", "", NoFilter, TRUE),
    Step("gpu", "", [ACCELERATOR_TYPE |-> {"gpu"}], FALSE),
    Step("tpu", "", [ACCELERATOR_TYPE |-> {"tpu"}], FALSE),
    Step("sglang", "", [ACCELERATOR_TYPE |-> {"gpu"}, MODEL_SERVER |-> {"sglang"}], FALSE),
    Step("login", "", [HF_TOKEN |-> {"placeholder"}], FALSE),
    Step("gke", "", [INFRA_PROVIDER |-> {"gke"}], FALSE),
    Step("apply", "", [ACCELERATOR_TYPE |-> {"gpu", "tpu"}], TRUE),
    Step("heredoc", "", NoFilter, FALSE) }

(* The steps that render differently, and those that make the fences.      *)
Telling == {s \in MCStep : s.run \notin {"login", "gke", "heredoc"}}
Parting == {s \in MCStep : s.run \in {"wait", "gpu", "tpu"}}

MCDeploys == BoundedSeq(MCStep, 1) \cup TupleOf(Telling, 2) \cup TupleOf(Parting, 3)

NoProviders == [a \in {"gpu", "tpu"} |-> <<>>]

Matrix(tpu) ==
  [ on |-> TRUE, accelerators |-> {"gpu", "tpu"}, engines |-> {"vllm", "sglang"},
    cell |-> (<<"gpu", "vllm">> :> "validated" @@ <<"gpu", "sglang">> :> "community"
                @@ <<"tpu", "vllm">> :> tpu),
    providers |-> [NoProviders EXCEPT !["gpu"] = <<[name |-> "gke", engines |-> {"vllm"}]>>] ]

NoMatrix == [on |-> FALSE, accelerators |-> {}, engines |-> {}, cell |-> <<>>, providers |-> <<>>]

Yaml(env, deploy, support) ==
  [ schema |-> TRUE, env |-> env, source |-> FALSE,
    steps |-> [deploy |-> deploy, cleanup |-> <<Step("delete", "", NoFilter, FALSE)>>],
    modes |-> [verify |-> {"standalone"}, benchmark |-> {}], support |-> support ]

Region(at, i) == [path |-> [at |-> at, i |-> i], end |-> [at |-> at, i |-> i], body |-> <<>>]

Readme(regions) == [there |-> TRUE, regions |-> regions]

Page == Readme(<<Region("support", 0), Region("env.static", 0), Region("deploy", 0)>>)

Overlays == {<<"gpu", "vllm", "gke">>, <<"gpu", "sglang", "gke">>, <<"tpu", "vllm", "gke">>}

Book(g, md, o, n) == [yaml |-> g, readme |-> md, overlays |-> o, nightly |-> n]

RichBooks ==
  {Book(Yaml(MCEnv, deploy, Matrix("validated")), Page, Overlays,
        {<<"gpu", "vllm">>, <<"tpu", "vllm">>}) : deploy \in MCDeploys}

Deploy == <<Step("clone", "main", NoFilter, FALSE)>>

Plain == [Yaml(<<Text("BRANCH", "main"), Map("NS", "llm-d", {})>>, Deploy, NoMatrix)
            EXCEPT !.source = TRUE]

OddPages ==
  { Readme(<<Region("env.source", 0), Region("env.static", 0), Region("deploy", 1)>>),
    Readme(<<Region("name", 0)>>),
    Readme(<<Region("deploy", 2)>>),
    Readme(<<[Region("deploy", 0) EXCEPT !.end = [at |-> "cleanup", i |-> 0]]>>),
    [there |-> FALSE, regions |-> <<>>] }

OddYamls ==
  LET g == Yaml(MCEnv, Deploy, Matrix("validated")) IN
  { [g EXCEPT !.schema = FALSE],
    [g EXCEPT !.env = Append(@, Text("BRANCH", "main"))],
    [g EXCEPT !.env[4].default = "trtllm"],
    [g EXCEPT !.env[4].default = Missing],
    [g EXCEPT !.env = Tail(@), !.steps.deploy = <<Step("login", "", [BRANCH |-> {"main"}], FALSE)>>],
    [g EXCEPT !.modes.benchmark = {"gateway"}],
    [g EXCEPT !.support = Matrix("unlinked")],
    [g EXCEPT !.support = Matrix("community")],
    [g EXCEPT !.support.providers["gpu"] = <<[name |-> "gke", engines |-> {}], [name |-> "none", engines |-> {}]>>],
    [g EXCEPT !.steps.deploy = <<Step("tpu", "", [MODEL_SERVER |-> {"trtllm"}], FALSE)>>],
    [g EXCEPT !.env[1] = Map("BRANCH", "main", {})],
    [g EXCEPT !.env[3].sensitive = TRUE,
              !.steps.deploy = <<Step("gpu", "", [ACCELERATOR_TYPE |-> {"gpu"}], FALSE)>>] }

MCBooks ==
  [ rich |-> RichBooks
      \cup {Book(g, Page, Overlays, {<<"gpu", "vllm">>, <<"tpu", "vllm">>}) : g \in OddYamls}
      \cup {Book(Yaml(MCEnv, Deploy, Matrix("validated")), md, Overlays,
                 {<<"gpu", "vllm">>, <<"tpu", "vllm">>}) : md \in OddPages},
    plain |-> {Book(Plain, Readme(<<Region("env.static", 0), Region("deploy", 1)>>), {}, {})} ]

MCRedrafts ==
  [ rich |-> {Yaml(MCEnv, Deploy, Matrix("community")), [Plain EXCEPT !.schema = FALSE]},
    plain |-> {[Plain EXCEPT !.schema = FALSE], [Plain EXCEPT !.steps.deploy = Deploy \o Deploy]} ]

Entry(pillar, dir, slug) == [pillar |-> pillar, dir |-> dir, slug |-> slug]

MCManifests ==
  << <<Entry("foundations", "rich", "rich"), Entry("operations", "plain", "plain")>>,
     <<Entry("foundations", "rich", "rich"), Entry("operations", "plain", "rich")>> >>
===============================================================================
