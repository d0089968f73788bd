--------------------------------- MODULE Guide ---------------------------------
(***************************************************************************)
(* scripts/guide.py as functions of its two files: what makes a guide.yaml *)
(* and a README valid, what render writes between a README's markers, what *)
(* emit puts in a script and what set-branch rewrites.                     *)
(*                                                                         *)
(*   guide    [schema, env, source, steps, modes, support]                 *)
(*   env      a sequence of [var, form, default, values, sensitive]        *)
(*   step     [run, branch, when, skip]: its text, the ref it exports as   *)
(*            BRANCH, its filter (variable -> values), skip_in: [ci]       *)
(*   support  [on, accelerators, engines, cell, providers]                 *)
(*   README   [there, regions]; a region is [path, end, body]: the path of *)
(*            its start marker, that of the end marker that follows (none: *)
(*            another start, or the end of the file), and what is between. *)
(*                                                                         *)
(* Sub-groups are flattened in steps, as _flatten_steps does.              *)
(***************************************************************************)
EXTENDS Naturals, FiniteSets, SequencesExt

CONSTANT Backticks  \* the step texts that hold a line of three backticks

Missing  == "(missing)"
NoFilter == <<>>

ACCEL    == "ACCELERATOR_TYPE"
ENGINE   == "MODEL_SERVER"
PROVIDER == "INFRA_PROVIDER"

VariantVars == {ACCEL, ENGINE}

-------------------------------------------------------------------------------
(* What the two files are read into.                                       *)

Variable ==
  [var : STRING, form : {"text", "map"}, default : STRING, values : SUBSET STRING, sensitive : BOOLEAN]

IsFilter(when) == DOMAIN when \subseteq STRING /\ when \in [DOMAIN when -> SUBSET STRING]

IsStep(s) ==
  s \in [run : STRING, branch : STRING, when : {s.when}, skip : BOOLEAN] /\ IsFilter(s.when)

IsGuide(g) ==
  /\ DOMAIN g = {"schema", "env", "source", "steps", "modes", "support"}
  /\ g.env \in Seq(Variable)
  /\ g.source \in BOOLEAN /\ g.support.on \in BOOLEAN
  /\ {"name", "env.static", "env.source", "support"} \cap DOMAIN g.steps = {}
  /\ \A section \in DOMAIN g.steps :
       /\ g.steps[section] \in Seq(Range(g.steps[section]))
       /\ \A s \in Range(g.steps[section]) : IsStep(s)

(* A README that is not there has no regions.                              *)
IsReadme(md) ==
  /\ DOMAIN md = {"there", "regions"} /\ md.there \in BOOLEAN
  /\ md.regions \in Seq(Range(md.regions)) /\ (~md.there => md.regions = <<>>)
  /\ \A r \in Range(md.regions) :
       /\ DOMAIN r = {"path", "end", "body"} /\ r.path.i \in Nat
       /\ r.body \in Seq(Range(r.body))
       /\ \A piece \in Range(r.body) :
            /\ piece.kind \in {"fence", "table", "prose"} /\ piece.skip \in BOOLEAN
            /\ piece.lines \in Seq(Range(piece.lines))
            /\ piece.kind # "fence" => piece.lines = <<>>

-------------------------------------------------------------------------------
(* guide.yaml on its own.                                                  *)

(* A key given twice is refused.                                           *)
ParseOk(g) == \A i, j \in DOMAIN g.env : g.env[i].var = g.env[j].var => i = j

Vars(g) == {x.var : x \in Range(g.env)}

(* The declaration of a variable, if there is one.                         *)
Declarations(g, var) == {x \in Range(g.env) : x.var = var}

DeclaredValues(g, var) == UNION {x.values : x \in Declarations(g, var)}

DeclaredDefault(g, var) ==
  LET defaults == {x.default : x \in Declarations(g, var)}
  IN  IF defaults = {} THEN Missing ELSE CHOOSE d \in defaults : TRUE

(* A sensitive variable has a placeholder, any other a value it may take.  *)
CheckEnv(g) ==
  \A x \in Range(g.env) : /\ x.default # Missing
                          /\ x.values # {} /\ ~x.sensitive => x.default \in x.values

AllSteps(g) == UNION {Range(g.steps[section]) : section \in DOMAIN g.steps}

CheckSteps(g) == \A s \in AllSteps(g) : DOMAIN s.when \subseteq Vars(g)

(* The modes are those of verify.endpoint, or else of benchmark.endpoint,  *)
(* and the two agree.                                                      *)
CheckModes(g) == {} \in {g.modes.verify, g.modes.benchmark} \/ g.modes.verify = g.modes.benchmark

Cell(g, a, e) == IF <<a, e>> \in DOMAIN g.support.cell THEN g.support.cell[<<a, e>>] ELSE "absent"

IsSupported(g, a, e) == Cell(g, a, e) \in {"validated", "community"}

SupportedEngines(g, a) == {e \in DeclaredValues(g, ENGINE) : IsSupported(g, a, e)}

(* A provider is selectable with every engine of its accelerator, unless   *)
(* it names its own.                                                       *)
ProviderEngines(g, a, provider) ==
  IF provider.engines = {} THEN SupportedEngines(g, a) ELSE provider.engines

CheckProviders(g, a) ==
  LET providers == g.support.providers[a] IN
  /\ \A i, j \in DOMAIN providers : providers[i].name = providers[j].name => i = j
  /\ \A p \in Range(providers) : /\ p.name \in DeclaredValues(g, PROVIDER)
                                 /\ ProviderEngines(g, a, p) \subseteq SupportedEngines(g, a)

(* A filter must not ask for what the matrix rules out.                    *)
WhenSupported(g, when) ==
  LET accels  == DeclaredValues(g, ACCEL)
      engines == DeclaredValues(g, ENGINE)
  IN  CASE VariantVars \subseteq DOMAIN when ->
             \A a \in when[ACCEL], e \in when[ENGINE] : IsSupported(g, a, e)
        [] ACCEL \in DOMAIN when /\ ENGINE \notin DOMAIN when ->
             \A a \in when[ACCEL] : \E e \in engines : IsSupported(g, a, e)
        [] ENGINE \in DOMAIN when /\ ACCEL \notin DOMAIN when ->
             \A e \in when[ENGINE] : \E a \in accels : IsSupported(g, a, e)
        [] OTHER -> TRUE

CheckSupport(g) ==
  LET accels  == DeclaredValues(g, ACCEL)
      engines == DeclaredValues(g, ENGINE)
  IN  /\ accels # {} /\ engines # {}
      /\ g.support.accelerators = accels
      /\ g.support.engines = engines
      /\ \A a \in accels : CheckProviders(g, a)
      /\ DOMAIN g.support.cell \subseteq accels \X engines
      /\ "unlinked" \notin Range(g.support.cell)
      /\ IsSupported(g, DeclaredDefault(g, ACCEL), DeclaredDefault(g, ENGINE))
      /\ \A s \in AllSteps(g) : WhenSupported(g, s.when)

CheckYaml(g) ==
  /\ g.schema
  /\ CheckEnv(g)
  /\ CheckSteps(g)
  /\ CheckModes(g)
  /\ g.support.on => CheckSupport(g)

-------------------------------------------------------------------------------
(* The matrix against the repository: the overlays modelserver/<a>/<e>/... *)
(* /<provider> on disk, and the pairings that nightly workflows run.       *)

Validated(g) == {pair \in DOMAIN g.support.cell : g.support.cell[pair] = "validated"}

(* Whatever a workflow runs is validated, and nothing else is asked.       *)
NightliesAgree_OneWay(g, nightly) == nightly \subseteq Validated(g)

NightliesAgree(g, nightly) == nightly = Validated(g)

CheckProviderOverlays(g, overlays) ==
  \A a \in g.support.accelerators : \A p \in Range(g.support.providers[a]) :
    \A e \in ProviderEngines(g, a, p) : IsSupported(g, a, e) => <<a, e, p.name>> \in overlays

CheckSupportRepo(g, overlays, nightly) ==
  g.support.on =>
    /\ overlays # {} => \A e \in DeclaredValues(g, ENGINE) :
                          LET there == {o[1] : o \in {o \in overlays : o[2] = e}}
                          IN  there = {a \in g.support.accelerators : IsSupported(g, a, e)}
    /\ CheckProviderOverlays(g, overlays)
    /\ NightliesAgree(g, nightly)

-------------------------------------------------------------------------------
(* The README on its own, and its marker paths against guide.yaml.         *)

(* A path is [at, i]: a section, or its i-th step if i is not 0.           *)
MarkersOk(md) == \A r \in Range(md.regions) : r.end = r.path

Resolves(g, path) ==
  \/ path.at \in {"name", "env.static"}
  \/ path.at = "env.source" /\ g.source
  \/ path.at = "support" /\ g.support.on
  \/ path.at \in DOMAIN g.steps /\ path.i <= Len(g.steps[path.at])

(* Fences only, none of which ends early.                                  *)
IsValidBody(body) ==
  \A piece \in Range(body) : /\ piece.kind = "fence"
                             /\ \A l \in Range(piece.lines) : l[2] \notin Backticks

CheckMd(g, md) ==
  /\ MarkersOk(md)
  /\ \A r \in Range(md.regions) : /\ Resolves(g, r.path)
                                  /\ r.path.at = "support" \/ IsValidBody(r.body)

(* Guide.check() of a guide on disk, the README's half if it has one.      *)
Check(g, md, overlays, nightly) ==
  /\ ParseOk(g)
  /\ CheckYaml(g)
  /\ CheckSupportRepo(g, overlays, nightly)
  /\ md.there => CheckMd(g, md)

-------------------------------------------------------------------------------
(* Rendering.  A line is <<what, name, value, annotation>>, the annotation *)
(* a comment: the values of a variable, the filter of a step.              *)

EnvLine(x)  == <<"export", x.var, x.default, IF x.sensitive THEN {} ELSE x.values>>
SourceLine  == <<"source", "", "", {}>>
StepLine(s) == <<"run", s.run, s.branch, s.when>>

Piece(kind, skip, lines, cells) ==
  [kind |-> kind, only |-> NoFilter, open |-> FALSE, skip |-> skip, lines |-> lines, cells |-> cells]

Fence(skip, lines) == Piece("fence", skip, lines, {})

(* Neighbours of one key, together: an item goes to the last run, or to    *)
(* one of its own if that run has another key.                             *)
AddTo(runs, key, item) ==
  IF runs # <<>> /\ Last(runs).key = key
  THEN Append(Front(runs), [Last(runs) EXCEPT !.items = Append(@, item)])
  ELSE Append(runs, [key |-> key, items |-> <<item>>])

(* The runs of a sequence of pairs, <<key, item>>.                         *)
Runs(marked) ==
  LET upto[n \in 0 .. Len(marked)] ==
        IF n = 0 THEN <<>> ELSE AddTo(upto[n - 1], marked[n][1], marked[n][2])
  IN  upto[Len(marked)]

(* Lines marked by whether CI skips them: a fence per run.                 *)
Fences(marked) ==
  LET runs == Runs(marked) IN [i \in DOMAIN runs |-> Fence(runs[i].key, runs[i].items)]

RenderEnv(g, inline) ==
  Fences([i \in DOMAIN g.env |-> <<g.env[i].sensitive, EnvLine(g.env[i])>>]
           \o IF inline /\ g.source THEN << <<FALSE, SourceLine>> >> ELSE <<>>)

PlainFences(steps, forceSkip) ==
  Fences([i \in DOMAIN steps |-> <<forceSkip \/ steps[i].skip, StepLine(steps[i])>>])

IsVariant(g, s) == g.support.on /\ s.when # NoFilter /\ DOMAIN s.when \subseteq VariantVars

MatchesDefaults(g, when) == \A var \in DOMAIN when : DeclaredDefault(g, var) \in when[var]

Unfiltered(s) == [s EXCEPT !.when = NoFilter]

(* Every block's commands run by CI, the default's and the others'.        *)
VariantFences_AllRun(g, when, steps) ==
  LET fences == PlainFences([i \in DOMAIN steps |-> Unfiltered(steps[i])], FALSE)
  IN  [i \in DOMAIN fences |-> [fences[i] EXCEPT !.only = when, !.open = MatchesDefaults(g, when)]]

(* The block of one filter: open if it is the default's, skipped by CI if  *)
(* it is not.                                                              *)
VariantFences(g, when, steps) ==
  LET default == MatchesDefaults(g, when)
      fences  == PlainFences([i \in DOMAIN steps |-> Unfiltered(steps[i])], ~default)
  IN  [i \in DOMAIN fences |-> [fences[i] EXCEPT !.only = when, !.open = default]]

WithFilter(steps, when) ==
  FlattenSeq([i \in DOMAIN steps |-> IF steps[i].when = when THEN <<steps[i]>> ELSE <<>>])

(* One block per filter, in the order they first come.                     *)
VariantGroup(g, steps) ==
  LET IsFirst(i) == \A j \in 1 .. i - 1 : steps[j].when # steps[i].when
      Block(when) == VariantFences(g, when, WithFilter(steps, when))
  IN  FlattenSeq([i \in DOMAIN steps |-> IF IsFirst(i) THEN Block(steps[i].when) ELSE <<>>])

(* Runs of steps that are all variants, or none of them.                   *)
Segments(g, steps) == Runs([i \in DOMAIN steps |-> <<IsVariant(g, steps[i]), steps[i]>>])

RenderSteps(g, steps) ==
  LET runs == Segments(g, steps)
  IN  IF steps = <<>>
      THEN <<Fence(FALSE, <<>>)>>
      ELSE FlattenSeq([i \in DOMAIN runs |-> IF runs[i].key THEN VariantGroup(g, runs[i].items)
                                             ELSE PlainFences(runs[i].items, FALSE)])

(* One step at a marker of its own: a bare fence.                          *)
RenderStep(g, s) ==
  IF IsVariant(g, s) THEN PlainFences(<<Unfiltered(s)>>, ~MatchesDefaults(g, s.when))
                     ELSE PlainFences(<<s>>, FALSE)

SupportTable(g) ==
  Piece("table", FALSE, <<>>,
        {<<a, e, Cell(g, a, e)>> : a \in DeclaredValues(g, ACCEL), e \in DeclaredValues(g, ENGINE)})

RenderPath(g, path, inline) ==
  CASE path.at = "env.static" -> RenderEnv(g, inline)
    [] path.at = "env.source" -> <<Fence(FALSE, <<SourceLine>>)>>
    [] path.at = "support"    -> <<SupportTable(g)>>
    [] OTHER -> IF path.i = 0 THEN RenderSteps(g, g.steps[path.at])
                              ELSE RenderStep(g, g.steps[path.at][path.i])

(* Rendering raises no GuideError: what a marker names is found, and is    *)
(* something that can be rendered.                                         *)
Renders(g, md) ==
  /\ MarkersOk(md)
  /\ \A r \in Range(md.regions) :
       /\ Resolves(g, r.path)
       /\ r.path.at # "name"
       /\ r.path.at = "env.static" => \A x \in Range(g.env) : x.default # Missing

(* The sources go with the variables unless they have a marker of their    *)
(* own.                                                                    *)
RenderMd(g, md) ==
  LET inline == \A r \in Range(md.regions) : r.path.at # "env.source"
      Filled(r) == [path |-> r.path, end |-> r.end, body |-> RenderPath(g, r.path, inline)]
  IN  [there |-> md.there, regions |-> [i \in DOMAIN md.regions |-> Filled(md.regions[i])]]

-------------------------------------------------------------------------------
(* emit, and what it leaves out.                                           *)

(* Only a variable without a default is left to others.                    *)
IsPlaceholder_Undefaulted(g, overrides, var) ==
  var \notin DOMAIN overrides /\ \E x \in Declarations(g, var) : x.sensitive /\ x.default = Missing

(* A credential nobody gave: what is declared is no value.                 *)
IsPlaceholder(g, overrides, var) ==
  var \notin DOMAIN overrides /\ \E x \in Declarations(g, var) : x.sensitive

(* What a filter compares.                                                 *)
Resolved(g, overrides, var) ==
  IF var \in DOMAIN overrides THEN overrides[var] ELSE DeclaredDefault(g, var)

IsIncluded(g, overrides, ci, s) ==
  /\ ~(ci /\ s.skip)
  /\ \A var \in DOMAIN s.when : /\ ~IsPlaceholder(g, overrides, var)
                                /\ Resolved(g, overrides, var) \in s.when[var]

(* A filter that only a placeholder could decide ends the script; one that *)
(* another variable rules out may, if the placeholder is tried first.      *)
Undecided(g, overrides, ci, s) ==
  /\ ~(ci /\ s.skip)
  /\ \E var \in DOMAIN s.when : IsPlaceholder(g, overrides, var)
  /\ \A var \in DOMAIN s.when : \/ IsPlaceholder(g, overrides, var)
                               \/ Resolved(g, overrides, var) \in s.when[var]

EmitExports(g, overrides) ==
  FlattenSeq([i \in DOMAIN g.env |->
    LET x == g.env[i]
    IN  CASE x.var \in DOMAIN overrides -> << <<"export", x.var, overrides[x.var]>> >>
          [] x.var \notin DOMAIN overrides /\ x.sensitive -> <<>>
          [] OTHER -> << <<"export", x.var, x.default>> >>])

EmitEnv(g, overrides) ==
  EmitExports(g, overrides) \o IF g.source THEN << <<"source", "", "">> >> ELSE <<>>

EmitSteps(g, overrides, ci, steps) ==
  FlattenSeq([i \in DOMAIN steps |-> IF IsIncluded(g, overrides, ci, steps[i])
                                     THEN << <<"run", steps[i].run, steps[i].branch>> >> ELSE <<>>])

(* The script of the env and one section, and whether it may be emitted.   *)
EmitOk(g, overrides, ci, section) ==
  /\ DOMAIN overrides \subseteq Vars(g)
  /\ \A x \in Range(g.env) : x.var \in DOMAIN overrides /\ x.values # {} => overrides[x.var] \in x.values
  /\ section \in DOMAIN g.steps
  /\ \A s \in Range(g.steps[section]) : ~Undecided(g, overrides, ci, s)

Emit(g, overrides, ci, section) ==
  EmitEnv(g, overrides) \o EmitSteps(g, overrides, ci, g.steps[section])

-------------------------------------------------------------------------------
(* set-branch rewrites the text: BRANCH where it is one line, name and     *)
(* value, and every export of BRANCH in a step.                            *)

PinVar(x, to) == IF x.var = "BRANCH" /\ x.form = "text" THEN [x EXCEPT !.default = to] ELSE x

PinStep(s, to) == IF s.branch = "" THEN s ELSE [s EXCEPT !.branch = to]

(* The exports in the steps forgotten.                                     *)
SetBranch_EnvOnly(g, to) ==
  [g EXCEPT !.env = [i \in DOMAIN g.env |-> PinVar(g.env[i], to)]]

SetBranch(g, to) ==
  [g EXCEPT !.env = [i \in DOMAIN g.env |-> PinVar(g.env[i], to)],
            !.steps = [section \in DOMAIN g.steps |->
                        [i \in DOMAIN g.steps[section] |-> PinStep(g.steps[section][i], to)]]]

-------------------------------------------------------------------------------
(* The manifest: what llm-d.ai publishes, a sequence of [pillar, dir,      *)
(* slug].                                                                  *)
ManifestOk(manifest, hasReadme, hasYaml) ==
  /\ \A i, j \in DOMAIN manifest :
       manifest[i].slug = manifest[j].slug \/ manifest[i].dir = manifest[j].dir => i = j
  /\ \A p \in Range(manifest) : p.dir \in hasReadme /\ (p.pillar = "operations" \/ p.dir \in hasYaml)
===============================================================================
