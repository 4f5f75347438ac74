----------------------------- MODULE Components -----------------------------
(***************************************************************************)
(* The part of vkte::Engine that builds what components declare: pipelines   *)
(* from compiled shaders, reloaded while the program runs, and descriptor    *)
(* sets.  A pipeline is its layout with its shader objects, which are one    *)
(* object for Vulkan's allocation but may be there without each other if     *)
(* their construction throws halfway.                                        *)
(*                                                                           *)
(* Calls are made by one thread; the tasks they queue run in the pool, also  *)
(* after a call has thrown.  The application destructs components that it    *)
(* has constructed, also if that threw, before it constructs them again, and *)
(* reloads whenever it likes.  What reads memory that is no longer owned     *)
(* finds what was there, or ends the program.                                *)
(***************************************************************************)
EXTENDS ShaderRepository

CONSTANTS
  PipelineCount,
  shaders_of,      (* pipeline -> the shaders it declares                      *)
  MaxFailures      (* bound: calls of the device or a component that throw     *)

ASSUME PipelinesAssumption ==
  /\ PipelineCount \in Nat
  /\ shaders_of \in [1 .. PipelineCount -> SUBSET Shaders]
  /\ MaxFailures \in Nat

VARIABLES
  host,          (* where the call is                                          *)
  call,          (* "construct" or "reload"                                    *)
  outcome,       (* of the last call: what it returned or where it threw       *)
  construction,  (* calls of construct_components so far                       *)
  declarations,  (* the construction that made them, 0 for none                *)
  declared,      (* the pipelines among them                                   *)
  pipelines,
  layouts,       (* the pipeline layouts that exist                            *)
  created,       (* pipeline layouts created so far                            *)
  sets_built,    (* descriptor sets are allocated and written                  *)
  next,          (* the pipeline that build_pipelines constructs next          *)
  failures,
  before,        (* the pipelines when the call began (history)                *)
  called_at,     (* key -> version of its file when the call began (history)   *)
  destroyed_twice, (* pipeline layouts (history)                               *)
  thrown,          (* the rounds of calls that threw out of a future (history) *)
  unbuilt,         (* pipelines that the last build did not get to (history)   *)
  dangling         (* destroyed layouts that such pipelines keep (history)     *)

hostVars == <<host, call, outcome>>
pipelineVars == <<pipelines, layouts, created, next>>
declarationVars == <<construction, declarations, declared, sets_built>>
buildVars == <<unbuilt, dangling>>
historyVars == <<before, called_at, destroyed_twice, thrown, buildVars>>
repositoryVars == <<source, edits, shaders, spirv_code, poolVars, compiled, round, callVars>>
vars == <<repositoryVars, hostVars, pipelineVars, declarationVars, failures, historyVars>>

NoLayout == 0
NoPipeline == [layout |-> NoLayout, code |-> None]

Versions == [k \in Keys |-> source[k].version]

Init ==
  /\ InitRepository
  /\ host = "idle"
  /\ call = "construct"
  /\ outcome = "none"
  /\ construction = 0
  /\ declarations = 0
  /\ declared = 0
  /\ pipelines = <<>>
  /\ layouts = {}
  /\ created = 0
  /\ sets_built = FALSE
  /\ next = 1
  /\ failures = 0
  /\ before = <<>>
  /\ called_at = Versions
  /\ destroyed_twice = {}
  /\ thrown = {}
  /\ unbuilt = {}
  /\ dangling = {}

(* The futures and results of recompile_all are gone.                        *)
Leave ==
  futures' = <<>> /\ compiled' = None /\ asked' = 0 /\ results' = None /\ success' = TRUE

Return(result) == host' = "idle" /\ outcome' = result

Fails == failures < MaxFailures /\ failures' = failures + 1

-----------------------------------------------------------------------------
(* The calls.                                                               *)

Declared(n) == [construction : {n}, shader : UNION {shaders_of[i] : i \in 1 .. PipelineCount}]

(* construct_components, up to recompile_all: declarations, layouts of       *)
(* descriptor sets, and pipelines without anything in them.                  *)
Construct ==
  /\ host = "idle"
  /\ declarations = 0
  /\ Recompile
  /\ construction' = construction + 1
  /\ declarations' = construction'
  /\ declared' = PipelineCount
  /\ pipelines' = [i \in 1 .. PipelineCount |-> NoPipeline]
  /\ shaders' = Declared(construction')
  /\ host' = "compile"
  /\ call' = "construct"
  /\ outcome' = "none"
  /\ before' = pipelines'
  /\ called_at' = Versions
  /\ UNCHANGED <<source, edits, spirv_code, poolVars, compiled, layouts, created, next,
                 sets_built, failures, destroyed_twice, thrown, buildVars>>

(* A component throws while it declares, or the device while layouts of      *)
(* descriptor sets are created: some pipelines are declared, none is there,  *)
(* and the repository has the shaders of before.  Every declared pipeline    *)
(* has settings, so the check of them never throws.                          *)
ConstructThrows ==
  /\ host = "idle"
  /\ declarations = 0
  /\ Fails
  /\ construction' = construction + 1
  /\ declarations' = construction'
  /\ declared' \in 0 .. PipelineCount
  /\ call' = "construct"
  /\ Return("not declared")
  /\ before' = pipelines
  /\ UNCHANGED <<repositoryVars, pipelineVars, sets_built, called_at, destroyed_twice, thrown,
                 buildVars>>

(* Pipeline::destruct of all of them: the shaders are forgotten, the layout  *)
(* is destroyed and not forgotten.                                           *)
DestructPipelines ==
  LET destroyed == {pipelines[i].layout : i \in DOMAIN pipelines} \ {NoLayout}
  IN /\ layouts' = layouts \ destroyed
     /\ destroyed_twice' = destroyed_twice \union (destroyed \ layouts)

(* Mutant: the pipelines are destroyed before the shaders compiled.          *)
ReloadDestructing ==
  /\ host = "idle"
  /\ Recompile
  /\ DestructPipelines
  /\ pipelines' = [i \in DOMAIN pipelines |-> [layout |-> pipelines[i].layout, code |-> None]]
  /\ host' = "compile"
  /\ call' = "reload"
  /\ outcome' = "none"
  /\ before' = pipelines
  /\ called_at' = Versions
  /\ UNCHANGED <<source, edits, shaders, spirv_code, poolVars, compiled, created, next,
                 declarationVars, failures, thrown, buildVars>>

(* reload_shaders_all: of the shaders that the repository was given last,    *)
(* whatever became of their declarations.                                    *)
Reload ==
  /\ host = "idle"
  /\ Recompile
  /\ host' = "compile"
  /\ call' = "reload"
  /\ outcome' = "none"
  /\ before' = pipelines
  /\ called_at' = Versions
  /\ UNCHANGED <<source, edits, shaders, spirv_code, poolVars, compiled, pipelineVars,
                 declarationVars, failures, destroyed_twice, thrown, buildVars>>

(* destruct_components                                                       *)
Destruct ==
  /\ host = "idle"
  /\ declarations # 0
  /\ DestructPipelines
  /\ pipelines' = <<>>
  /\ declarations' = 0
  /\ declared' = 0
  /\ sets_built' = FALSE
  /\ unbuilt' = {}
  /\ outcome' = "none"
  /\ UNCHANGED <<repositoryVars, host, call, construction, created, next, failures, before,
                 called_at, thrown, dangling>>

-----------------------------------------------------------------------------
(* Compiling.                                                               *)

RunCompileTask ==
  /\ host = "compile"
  /\ RunTask
  /\ UNCHANGED <<source, edits, shaders, spirv_code, hostVars, pipelineVars, declarationVars,
                 failures, historyVars>>

(* A pool without an idle worker takes the tasks later.                      *)
WaitForResults ==
  /\ host = "compile"
  /\ AllQueued
  /\ host' = "wait"
  /\ UNCHANGED <<repositoryVars, call, outcome, pipelineVars, declarationVars, failures,
                 historyVars>>

GetCompileResult ==
  /\ host = "wait"
  /\ GetResult
  /\ UNCHANGED <<source, edits, shaders, spirv_code, hostVars, pipelineVars, declarationVars,
                 failures, historyVars>>

(* The exception of a task leaves the call; other tasks go on.               *)
CompileThrows ==
  /\ host = "wait"
  /\ GetThrows
  /\ Leave
  /\ Return("file missing")
  /\ thrown' = thrown \union {round}
  /\ UNCHANGED <<source, edits, shaders, spirv_code, poolVars, round, call, pipelineVars,
                 declarationVars, failures, before, called_at, destroyed_twice, buildVars>>

(* Nothing but the results was changed; construct_components makes an        *)
(* exception of it.                                                          *)
CompileFails ==
  /\ host = "wait"
  /\ AllAsked /\ ~success
  /\ Leave
  /\ Return(IF call = "reload" THEN "false" ELSE "not compiled")
  /\ UNCHANGED <<source, edits, shaders, spirv_code, poolVars, round, call, pipelineVars,
                 declarationVars, failures, historyVars>>

(* The code is replaced, and a reload destroys all pipelines before it       *)
(* builds the first.                                                         *)
CompileSucceeds ==
  /\ host = "wait"
  /\ AllAsked /\ success
  /\ spirv_code' = results
  /\ Leave
  /\ host' = "build"
  /\ next' = 1
  /\ IF call = "reload"
     THEN /\ DestructPipelines
          /\ pipelines' = [i \in DOMAIN pipelines |-> [layout |-> pipelines[i].layout, code |-> None]]
     ELSE UNCHANGED <<layouts, destroyed_twice, pipelines>>
  /\ UNCHANGED <<source, edits, shaders, poolVars, round, call, outcome,
                 created, declarationVars, failures, before, called_at, thrown, buildVars>>

(* With shader_debug_info the repository writes each code to a file before   *)
(* it keeps it, and forgets the old code first: if that throws, it has some  *)
(* of the new code.                                                          *)
WriteThrows ==
  /\ host = "wait"
  /\ AllAsked /\ success
  /\ Fails
  /\ \E written \in SUBSET DOMAIN results :
       /\ written # DOMAIN results
       /\ spirv_code' = [k \in written |-> results[k]]
  /\ Leave
  /\ Return("not written")
  /\ UNCHANGED <<source, edits, shaders, poolVars, round, call, pipelineVars, declarationVars,
                 historyVars>>

-----------------------------------------------------------------------------
(* Building.                                                                *)

(* The repository has code for the pipeline's shaders; get_compiled_shader   *)
(* throws if not.                                                            *)
Compiled(i) ==
  \A s \in shaders_of[i] :
    /\ shader_key[s] \in DOMAIN spirv_code
    /\ [construction |-> declarations, shader |-> s] \in shaders

(* The vector has fewer pipelines than are declared if construct_components  *)
(* threw early; build_pipelines then writes outside of it.                   *)
Put(pipeline) ==
  pipelines' = IF next \in DOMAIN pipelines THEN [pipelines EXCEPT ![next] = pipeline]
               ELSE pipelines

(* Pipeline::construct                                                       *)
BuildPipeline ==
  /\ host = "build"
  /\ next <= declared
  /\ Compiled(next)
  /\ created' = created + 1
  /\ layouts' = layouts \union {created'}
  /\ Put([layout |-> created', code |-> [s \in shaders_of[next] |-> spirv_code[shader_key[s]]]])
  /\ next' = next + 1
  /\ UNCHANGED <<repositoryVars, hostVars, declarationVars, failures, historyVars>>

(* It throws before it has a layout, or after: Vulkan may fail, and so does  *)
(* a shader without code.                                                    *)
BuildThrows ==
  /\ host = "build"
  /\ next <= declared
  /\ IF Compiled(next) THEN Fails ELSE UNCHANGED failures
  /\ \/ UNCHANGED <<created, layouts, pipelines>>
     \/ /\ created' = created + 1
        /\ layouts' = layouts \union {created'}
        /\ Put([layout |-> created', code |-> None])
  /\ unbuilt' = {i \in DOMAIN pipelines : i >= next}
  /\ dangling' = dangling
       \union ({pipelines'[i].layout : i \in unbuilt'} \ (layouts' \union {NoLayout}))
  /\ Return("not built")
  /\ UNCHANGED <<repositoryVars, call, declarationVars, next, before, called_at,
                 destroyed_twice, thrown>>

(* construct_components goes on to build the descriptor sets.                *)
Built ==
  /\ host = "build"
  /\ next > declared
  /\ Return("true")
  /\ sets_built' = (sets_built \/ call = "construct")
  /\ unbuilt' = {}
  /\ UNCHANGED <<repositoryVars, call, pipelineVars, construction, declarations, declared,
                 failures, before, called_at, destroyed_twice, thrown, dangling>>

SetsThrow ==
  /\ host = "build"
  /\ next > declared
  /\ call = "construct"
  /\ Fails
  /\ Return("no sets")
  /\ unbuilt' = {}
  /\ UNCHANGED <<repositoryVars, call, pipelineVars, declarationVars, before, called_at,
                 destroyed_twice, thrown, dangling>>

-----------------------------------------------------------------------------
(* What is read after declarations are gone, and written beyond the vector,  *)
(* may end the program.                                                      *)
Freed(object) == object.construction # declarations

Crash ==
  /\ \/ host = "compile" /\ \E object \in shaders : Freed(object)
     \/ host # "crashed" /\ \E t \in started : Freed(t.object)
     \/ host = "build" /\ next <= declared /\ next \notin DOMAIN pipelines
  /\ host' = "crashed"
  /\ UNCHANGED <<repositoryVars, call, outcome, pipelineVars, declarationVars, failures,
                 historyVars>>

-----------------------------------------------------------------------------
Editing ==
  /\ host # "crashed"
  /\ Edit
  /\ UNCHANGED <<shaders, spirv_code, poolVars, compiled, round, callVars, hostVars,
                 pipelineVars, declarationVars, failures, historyVars>>

PoolStep ==
  /\ host # "crashed"
  /\ \/ StartTask /\ UNCHANGED compiled
     \/ \E t \in started : FinishTask(t)
  /\ UNCHANGED <<source, edits, shaders, spirv_code, round, callVars, hostVars,
                 pipelineVars, declarationVars, failures, historyVars>>

(* The application need not call anything.                                   *)
Idle == host \in {"idle", "crashed"} /\ UNCHANGED vars

Next ==
  \/ Construct \/ ConstructThrows \/ Reload \/ Destruct
  \/ RunCompileTask \/ WaitForResults \/ GetCompileResult
  \/ CompileThrows \/ CompileFails \/ CompileSucceeds \/ WriteThrows
  \/ BuildPipeline \/ BuildThrows \/ Built \/ SetsThrow
  \/ Crash
  \/ Editing \/ PoolStep
  \/ Idle

Spec == Init /\ [][Next]_vars

-----------------------------------------------------------------------------
(* Properties.                                                              *)

Code == [content : Contents, version : 0 .. MaxEdits]

(* Every variable keeps its type.                                           *)
TypeOK ==
  /\ source \in [Keys -> Code] /\ edits \in 0 .. MaxEdits
  /\ shaders \subseteq Object
  /\ DOMAIN spirv_code \subseteq Keys /\ DOMAIN results \subseteq Keys
  /\ futures \in Seq(CompileTask) /\ asked \in 0 .. Len(futures)
  /\ \A t \in DOMAIN compiled : t \in finished /\ compiled[t] \in Code
  /\ round \in 0 .. MaxRounds /\ success \in BOOLEAN
  /\ host \in {"idle", "compile", "wait", "build", "crashed"}
  /\ call \in {"construct", "reload"}
  /\ outcome \in {"none", "true", "false", "file missing", "not declared", "not compiled",
                  "not written", "not built", "no sets"}
  /\ construction \in Nat /\ declarations \in 0 .. construction
  /\ declared \in 0 .. PipelineCount /\ unbuilt \subseteq DOMAIN pipelines
  /\ \A i \in DOMAIN pipelines :
       /\ i \in 1 .. PipelineCount
       /\ pipelines[i].layout \in 0 .. created
       /\ DOMAIN pipelines[i].code \subseteq shaders_of[i]
  /\ layouts \subseteq 1 .. created
  /\ sets_built \in BOOLEAN
  /\ next \in 1 .. PipelineCount + 1
  /\ failures \in 0 .. MaxFailures

(* A pipeline as the call has built it: from files that are no older than    *)
(* the call, whatever tasks of earlier calls still run.                      *)
Fresh(i) ==
  /\ pipelines[i].layout \in layouts
  /\ DOMAIN pipelines[i].code = shaders_of[i]
  /\ \A s \in shaders_of[i] : pipelines[i].code[s] >= called_at[shader_key[s]]

(* However a call ends: one that returns true, or throws only because of the *)
(* descriptor sets, has built every pipeline.  One that returns false or     *)
(* throws before it builds has left every pipeline as it was ("no pipeline   *)
(* is rebuilt and every old one stays usable").  One that throws while it    *)
(* builds has left no code of before: what it has not built has none.        *)
AllOrNothing ==
  host = "idle" =>
    /\ outcome \in {"false", "file missing", "not declared", "not compiled", "not written"} =>
         pipelines = before
    /\ outcome \in {"true", "no sets"} => \A i \in DOMAIN pipelines : Fresh(i)
    /\ outcome = "not built" =>
         \A i \in DOMAIN pipelines : IF i < next THEN Fresh(i) ELSE pipelines[i].code = None

(* Pipelines are only built from shaders that have code (no shader "was      *)
(* never compiled"), unless construct_components threw before there were     *)
(* any.  A pipeline that can be bound between calls has its layout and code  *)
(* of all its shaders, and no layout is destroyed twice, also after builds   *)
(* that threw - but for the pipelines these did not get to: they keep the    *)
(* layouts that were destroyed (pipeline.cpp:120).                           *)
PipelinesUsable ==
  /\ host = "build" /\ DOMAIN pipelines = 1 .. declared => \A i \in DOMAIN pipelines : Compiled(i)
  /\ destroyed_twice \subseteq dangling
  /\ sets_built /\ host \notin {"build", "crashed"} =>
       \A i \in DOMAIN pipelines \ unbuilt :
         /\ pipelines[i].layout \in layouts
         /\ DOMAIN pipelines[i].code = shaders_of[i]

Tasks == started \union {waiting[i] : i \in DOMAIN waiting}

(* No task outlives the call that queued it and waits for it, unless that    *)
(* call threw because a file was missing: only the tasks of such a call can  *)
(* read shader objects that destruct_components frees behind them.           *)
TasksEndWithTheirCall ==
  \A t \in Tasks :
    t.round \in thrown \/ (t.round = round /\ host \in {"compile", "wait", "crashed"})

=============================================================================
