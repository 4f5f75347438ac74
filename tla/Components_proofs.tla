-------------------------- MODULE Components_proofs --------------------------
(***************************************************************************)
(* Proofs about Components for any shaders, pipelines, workers, edits and    *)
(* failures: what a call of construct_components or reload_shaders_all       *)
(* leaves behind, in the pipelines and in the thread pool.                   *)
(***************************************************************************)
EXTENDS Components, SequenceTheorems, TLAPS

File == [content : Contents, version : Nat]
Calling == host \in {"compile", "wait"}
Collected == host \in {"idle", "build"}

(* Files only get newer, from what they were when the call began.            *)
FilesSound ==
  /\ source \in [Keys -> File]
  /\ edits \in Nat
  /\ called_at \in [Keys -> Nat]
  /\ \A k \in Keys : called_at[k] <= source[k].version /\ source[k].version <= edits

RoundSound == round \in Nat

(* A task is in one place of the pool, once.                                 *)
PoolSound ==
  /\ waiting \in Seq(CompileTask)
  /\ started \subseteq CompileTask
  /\ \A i, j \in DOMAIN waiting : i # j => waiting[i] # waiting[j]
  /\ \A i \in DOMAIN waiting : waiting[i] \notin started
  /\ Tasks \intersect finished = {}

(* There are futures only as long as results are waited for; those that were *)
(* asked are of finished tasks, and finished tasks have read files that are  *)
(* not older than the call.                                                  *)
FuturesSound ==
  /\ futures \in Seq(CompileTask)
  /\ asked \in 0 .. Len(futures)
  /\ Collected => futures = <<>>
  /\ \A i \in 1 .. asked : futures[i] \in finished
  /\ \A i \in DOMAIN futures : futures[i] \in finished =>
       /\ futures[i] \in DOMAIN compiled
       /\ compiled[futures[i]].version >= called_at[KeyOf(futures[i].object)]

NotOlder(code) == \A k \in DOMAIN code : code[k] >= called_at[k]

(* So is the code that is collected, and then used to build pipelines.       *)
ResultsSound ==
  /\ NotOlder(results)
  /\ Collected => results = None
  /\ host = "build" => NotOlder(spirv_code)

(* The vector has all declared pipelines, or none: before there are any and  *)
(* after construct_components threw early.                                   *)
DeclarationsSound ==
  /\ construction \in Nat
  /\ shaders \subseteq Object
  /\ DOMAIN pipelines # {} =>
       declarations # 0 /\ declared = PipelineCount /\ DOMAIN pipelines = 1 .. PipelineCount

(* Unless a call threw because a file was missing, tasks are those somebody  *)
(* has the future of, and that is the call that is running.                  *)
TasksSound ==
  /\ \A t \in Tasks : t.round \in thrown \/ \E i \in DOMAIN futures : futures[i] = t
  /\ \A i \in DOMAIN futures : futures[i].round = round

(* Pipelines are left alone until everything is compiled, and then built one *)
(* after the other, none with any code of before.                            *)
PipelinesSound ==
  /\ host \in {"idle", "compile", "wait", "build", "crashed"}
  /\ call \in {"construct", "reload"}
  /\ next \in Nat
  /\ Calling => pipelines = before
  /\ Calling /\ call = "construct" => \A i \in DOMAIN pipelines : pipelines[i].code = None
  /\ host = "build" =>
       \A i \in DOMAIN pipelines : IF i < next THEN Fresh(i) ELSE pipelines[i].code = None
  /\ AllOrNothing

IInv ==
  /\ FilesSound
  /\ RoundSound
  /\ PoolSound
  /\ FuturesSound
  /\ ResultsSound
  /\ DeclarationsSound
  /\ TasksSound
  /\ PipelinesSound

-----------------------------------------------------------------------------
LEMMA Starts == Init => IInv
<1> SUFFICES ASSUME Init
             PROVE  IInv
  OBVIOUS
<1>1. /\ waiting = <<>> /\ started = {} /\ finished = {} /\ shaders = {}
      /\ futures = <<>> /\ asked = 0 /\ results = None /\ round = 0
      /\ source = [k \in Keys |-> [content |-> "code", version |-> 0]] /\ edits = 0
  BY DEF Init, InitRepository, Pool!Init
<1>2. /\ host = "idle" /\ call = "construct" /\ outcome = "none" /\ construction = 0 /\ pipelines = <<>>
      /\ next = 1 /\ called_at = [k \in Keys |-> source[k].version]
  BY DEF Init, Versions
<1>3. FilesSound /\ RoundSound
  BY <1>1, <1>2 DEF FilesSound, File, Contents, RoundSound
<1>4. PoolSound
  BY <1>1 DEF PoolSound, Tasks
<1>5. FuturesSound
  BY <1>1, <1>2 DEF FuturesSound
<1>6. ResultsSound
  BY <1>1, <1>2 DEF ResultsSound, NotOlder, None
<1>7. DeclarationsSound
  BY <1>1, <1>2 DEF DeclarationsSound
<1>8. TasksSound
  BY <1>1 DEF TasksSound, Tasks
<1>9. PipelinesSound
  BY <1>2 DEF PipelinesSound, Calling, AllOrNothing
<1> QED
  BY <1>3, <1>4, <1>5, <1>6, <1>7, <1>8, <1>9 DEF IInv

(* A step that neither edits files nor touches the pool and the futures.     *)
LEMMA RepositoryKept ==
  ASSUME IInv, UNCHANGED <<source, edits, waiting, started, finished, compiled, round, futures,
                           asked, called_at, thrown>>,
         host \in {"idle", "build"} \/ host' \notin {"idle", "build"}
  PROVE  FilesSound' /\ RoundSound' /\ PoolSound' /\ FuturesSound' /\ TasksSound'
<1>1. FilesSound' /\ RoundSound'
  BY DEF IInv, FilesSound, RoundSound
<1>2. PoolSound' /\ TasksSound'
  BY DEF IInv, PoolSound, TasksSound, Tasks
<1>3. FuturesSound'
  BY DEF IInv, FuturesSound, Collected
<1> QED
  BY <1>1, <1>2, <1>3

(* A call begins with nothing asked for, and notes how old the files are.    *)
LEMMA CallBegins ==
  ASSUME IInv, host = "idle", host' = "compile", called_at' = Versions, Recompile,
         UNCHANGED <<source, edits, waiting, started, finished, compiled, thrown>>
  PROVE  FilesSound' /\ RoundSound' /\ PoolSound' /\ FuturesSound' /\ ResultsSound' /\ TasksSound'
<1>1. called_at' = [k \in Keys |-> source[k].version]
  BY DEF Versions
<1>2. FilesSound'
  BY <1>1 DEF IInv, FilesSound, File
<1>3. /\ futures = <<>> /\ results = None /\ futures' = <<>> /\ results' = None
      /\ asked' = asked /\ round' = round + 1
  BY DEF IInv, FuturesSound, ResultsSound, Collected, Recompile, callVars
<1>4. FuturesSound'
  BY <1>3 DEF IInv, FuturesSound, Collected
<1>5. ResultsSound'
  BY <1>3 DEF ResultsSound, NotOlder, None, Collected
<1>6. RoundSound' /\ PoolSound' /\ TasksSound'
  BY <1>3 DEF IInv, RoundSound, PoolSound, TasksSound, Tasks
<1> QED
  BY <1>2, <1>4, <1>5, <1>6

LEMMA ConstructSound == IInv /\ Construct => IInv'
<1> SUFFICES ASSUME IInv, Construct
             PROVE  IInv'
  OBVIOUS
<1>1. /\ host = "idle" /\ host' = "compile" /\ call' = "construct" /\ outcome' = "none" /\ Recompile
      /\ construction' = construction + 1 /\ declarations' = construction'
      /\ declared' = PipelineCount
      /\ pipelines' = [i \in 1 .. PipelineCount |-> NoPipeline]
      /\ shaders' = Declared(construction') /\ before' = pipelines' /\ called_at' = Versions
      /\ UNCHANGED <<source, edits, waiting, started, finished, compiled, next, thrown>>
  BY DEF Construct, poolVars
<1>2. FilesSound' /\ RoundSound' /\ PoolSound' /\ FuturesSound' /\ ResultsSound' /\ TasksSound'
  BY <1>1, CallBegins
<1>3. construction' \in Nat /\ declarations' # 0
  BY <1>1 DEF IInv, DeclarationsSound
<1>4. shaders' \subseteq Object
  <2>1. \A i \in 1 .. PipelineCount : shaders_of[i] \subseteq Shaders
    BY PipelinesAssumption
  <2> QED
    BY <1>1, <1>3, <2>1 DEF Declared, Object
<1>5. DeclarationsSound'
  BY <1>1, <1>3, <1>4 DEF DeclarationsSound
<1>6. PipelinesSound'
  BY <1>1 DEF IInv, PipelinesSound, AllOrNothing, NoPipeline
<1> QED
  BY <1>2, <1>5, <1>6 DEF IInv

LEMMA ReloadSound == IInv /\ Reload => IInv'
<1> SUFFICES ASSUME IInv, Reload
             PROVE  IInv'
  OBVIOUS
<1>1. /\ host = "idle" /\ host' = "compile" /\ call' = "reload" /\ outcome' = "none"
      /\ Recompile /\ before' = pipelines /\ called_at' = Versions
      /\ UNCHANGED <<source, edits, shaders, waiting, started, finished, compiled, next, thrown,
                     pipelines, construction, declarations, declared>>
  BY DEF Reload, poolVars, pipelineVars, declarationVars
<1>2. FilesSound' /\ RoundSound' /\ PoolSound' /\ FuturesSound' /\ ResultsSound' /\ TasksSound'
  BY <1>1, CallBegins
<1>3. DeclarationsSound'
  BY <1>1 DEF IInv, DeclarationsSound
<1>4. PipelinesSound'
  BY <1>1 DEF IInv, PipelinesSound, AllOrNothing
<1> QED
  BY <1>2, <1>3, <1>4 DEF IInv

(* Outside of calls: declarations come without pipelines, or all go.         *)
LEMMA NoCallSound == IInv /\ (ConstructThrows \/ Destruct) => IInv'
<1> SUFFICES ASSUME IInv, ConstructThrows \/ Destruct
             PROVE  IInv'
  OBVIOUS
<1>1. /\ host = "idle" /\ host' = "idle"
      /\ call' \in {"construct", call}
      /\ UNCHANGED <<source, edits, shaders, spirv_code, waiting, started, finished, compiled,
                     round, futures, asked, results, next, thrown, called_at>>
  BY DEF ConstructThrows, Destruct, Return, repositoryVars, poolVars, callVars, pipelineVars
<1>2. FilesSound' /\ RoundSound' /\ PoolSound' /\ FuturesSound' /\ TasksSound'
  BY <1>1, RepositoryKept
<1>3. ResultsSound'
  BY <1>1 DEF IInv, ResultsSound, NotOlder, Collected
<1>4. CASE ConstructThrows
  <2>1. /\ outcome' = "not declared" /\ before' = pipelines /\ pipelines' = pipelines
        /\ construction' = construction + 1 /\ declarations = 0
    BY <1>4 DEF ConstructThrows, Return, pipelineVars
  <2>2. DOMAIN pipelines = {}
    BY <2>1 DEF IInv, DeclarationsSound
  <2>3. construction \in Nat
    BY DEF IInv, DeclarationsSound
  <2>4. shaders' \subseteq Object
    BY <1>1 DEF IInv, DeclarationsSound
  <2>5. construction + 1 \in Nat
    BY <2>3
  <2>6. DeclarationsSound'
    BY <2>1, <2>2, <2>4, <2>5 DEF DeclarationsSound
  <2>7. PipelinesSound'
    BY <1>1, <2>1 DEF IInv, PipelinesSound, AllOrNothing, Calling
  <2> QED
    BY <1>2, <1>3, <2>6, <2>7 DEF IInv
<1>5. CASE Destruct
  <2>1. outcome' = "none" /\ pipelines' = <<>> /\ construction' = construction
    BY <1>5 DEF Destruct
  <2>2. DeclarationsSound'
    BY <1>1, <2>1 DEF IInv, DeclarationsSound
  <2>3. PipelinesSound'
    BY <1>1, <2>1 DEF IInv, PipelinesSound, AllOrNothing, Calling
  <2> QED
    BY <1>2, <1>3, <2>2, <2>3 DEF IInv
<1> QED
  BY <1>4, <1>5

-----------------------------------------------------------------------------
(* Tasks are queued: a task is one the pool has not had.                     *)
LEMMA RunCompileTaskSound == IInv /\ RunCompileTask => IInv'
<1> SUFFICES ASSUME IInv, RunCompileTask
             PROVE  IInv'
  OBVIOUS
<1> PICK object \in shaders :
      LET t == [round |-> round, object |-> object]
      IN /\ Pool!Accept(t)
         /\ futures' = Append(futures, t)
  BY DEF RunCompileTask, RunTask
<1> DEFINE t == [round |-> round, object |-> object]
<1>1. /\ host = "compile" /\ t \notin Pool!Accepted /\ waiting' = Append(waiting, t)
      /\ futures' = Append(futures, t)
      /\ UNCHANGED <<source, edits, shaders, spirv_code, started, finished, compiled, asked,
                     round, results, next, thrown, construction, declarations, declared, host,
                     call, outcome, pipelines, layouts, before, called_at>>
  BY DEF RunCompileTask, RunTask, Pool!Accept, pipelineVars, declarationVars, hostVars,
         historyVars
<1>2. t \in CompileTask
  <2>1. object \in Object
    BY <1>1 DEF IInv, DeclarationsSound
  <2>2. round \in Nat
    BY DEF IInv, RoundSound
  <2> QED
    BY <2>1, <2>2 DEF CompileTask
<1>3. /\ waiting \in Seq(CompileTask) /\ futures \in Seq(CompileTask)
      /\ waiting' \in Seq(CompileTask) /\ futures' \in Seq(CompileTask)
      /\ Len(waiting') = Len(waiting) + 1 /\ Len(futures') = Len(futures) + 1
      /\ \A i \in 1 .. Len(waiting) : waiting'[i] = waiting[i]
      /\ \A i \in 1 .. Len(futures) : futures'[i] = futures[i]
      /\ waiting'[Len(waiting) + 1] = t /\ futures'[Len(futures) + 1] = t
  BY <1>1, <1>2 DEF IInv, PoolSound, FuturesSound
<1>4. FilesSound' /\ ResultsSound' /\ RoundSound' /\ DeclarationsSound'
  BY <1>1 DEF IInv, FilesSound, ResultsSound, RoundSound, DeclarationsSound, Collected, NotOlder
<1>5. PipelinesSound'
  BY <1>1 DEF IInv, PipelinesSound, AllOrNothing, Calling
<1>6. /\ \A i \in DOMAIN waiting : waiting[i] # t
      /\ t \notin started /\ t \notin finished
  BY <1>1 DEF Pool!Accepted
<1>7. PoolSound'
  <2>1. Tasks' \subseteq Tasks \union {t}
    BY <1>1, <1>3 DEF Tasks
  <2> QED
    BY <1>1, <1>3, <1>6, <2>1 DEF IInv, PoolSound
<1>8. FuturesSound'
  BY <1>1, <1>3, <1>6 DEF IInv, FuturesSound, Collected
<1>9. TasksSound'
  <2>1. ASSUME NEW u \in Tasks'
        PROVE  u.round \in thrown' \/ \E i \in DOMAIN futures' : futures'[i] = u
    <3>1. CASE u = t
      BY <1>3, <3>1
    <3>2. CASE u # t
      <4>1. u \in Tasks
        BY <1>1, <1>3, <3>2 DEF Tasks
      <4> QED
        BY <1>1, <1>3, <4>1 DEF IInv, TasksSound
    <3> QED
      BY <3>1, <3>2
  <2>2. \A i \in DOMAIN futures' : futures'[i].round = round'
    BY <1>1, <1>3 DEF IInv, TasksSound
  <2> QED
    BY <2>1, <2>2 DEF TasksSound
<1> QED
  BY <1>4, <1>5, <1>7, <1>8, <1>9 DEF IInv

LEMMA WaitForResultsSound == IInv /\ WaitForResults => IInv'
<1> SUFFICES ASSUME IInv, WaitForResults
             PROVE  IInv'
  OBVIOUS
<1>1. /\ host = "compile" /\ host' = "wait"
      /\ UNCHANGED <<source, edits, shaders, spirv_code, waiting, started, finished, compiled,
                     round, futures, asked, results, next, thrown, construction, declarations,
                     declared, call, outcome, pipelines, layouts, before, called_at>>
  BY DEF WaitForResults, repositoryVars, poolVars, callVars, pipelineVars, declarationVars,
         historyVars
<1>2. FilesSound' /\ RoundSound' /\ PoolSound' /\ FuturesSound' /\ TasksSound'
  BY <1>1, RepositoryKept
<1>3. ResultsSound' /\ DeclarationsSound'
  BY <1>1 DEF IInv, ResultsSound, DeclarationsSound, NotOlder, Collected
<1>4. PipelinesSound'
  BY <1>1 DEF IInv, PipelinesSound, AllOrNothing, Calling
<1> QED
  BY <1>2, <1>3, <1>4 DEF IInv

(* What is collected was read after the call began.                          *)
LEMMA GetCompileResultSound == IInv /\ GetCompileResult => IInv'
<1> SUFFICES ASSUME IInv, GetCompileResult
             PROVE  IInv'
  OBVIOUS
<1>1. /\ host = "wait" /\ asked < Len(futures) /\ Asked \in finished /\ asked' = asked + 1
      /\ \/ results' = With(results, KeyOf(Asked.object), compiled[Asked].version)
         \/ results' = results
      /\ UNCHANGED <<source, edits, shaders, spirv_code, waiting, started, finished, compiled,
                     round, futures, next, thrown, construction, declarations, declared, host,
                     call, outcome, pipelines, layouts, before, called_at>>
  BY DEF GetCompileResult, GetResult, Ready, poolVars, hostVars, pipelineVars,
         declarationVars, historyVars
<1>2. FilesSound' /\ PoolSound' /\ TasksSound' /\ RoundSound' /\ DeclarationsSound'
  BY <1>1 DEF IInv, FilesSound, PoolSound, TasksSound, Tasks, RoundSound, DeclarationsSound
<1>3. PipelinesSound'
  BY <1>1 DEF IInv, PipelinesSound, AllOrNothing, Calling
<1>4. asked + 1 \in DOMAIN futures /\ asked \in Nat /\ futures \in Seq(CompileTask)
  BY <1>1 DEF IInv, FuturesSound
<1>5. FuturesSound'
  BY <1>1, <1>4 DEF IInv, FuturesSound, Collected, Asked
<1>6. compiled[Asked].version >= called_at[KeyOf(Asked.object)]
  BY <1>1, <1>4 DEF IInv, FuturesSound, Asked
<1>7. ResultsSound'
  BY <1>1, <1>6 DEF IInv, ResultsSound, NotOlder, With, Collected
<1> QED
  BY <1>2, <1>3, <1>5, <1>7 DEF IInv

-----------------------------------------------------------------------------
(* The futures and results are given up, when the call ends or builds.       *)
LEMMA CallLeaves ==
  ASSUME IInv, host = "wait", Leave,
         UNCHANGED <<source, edits, shaders, waiting, started, finished, round, called_at,
                     construction, declarations, declared>>,
         DOMAIN pipelines' = DOMAIN pipelines
  PROVE  FilesSound' /\ RoundSound' /\ PoolSound' /\ FuturesSound' /\ DeclarationsSound'
<1>1. futures' = <<>> /\ asked' = 0
  BY DEF Leave
<1>2. FuturesSound'
  BY <1>1 DEF FuturesSound
<1>3. FilesSound' /\ RoundSound' /\ PoolSound' /\ DeclarationsSound'
  BY DEF IInv, FilesSound, RoundSound, PoolSound, Tasks, DeclarationsSound
<1> QED
  BY <1>2, <1>3

LEMMA CompileThrowsSound == IInv /\ CompileThrows => IInv'
<1> SUFFICES ASSUME IInv, CompileThrows
             PROVE  IInv'
  OBVIOUS
<1>1. /\ host = "wait" /\ Leave /\ host' = "idle" /\ outcome' = "file missing"
      /\ thrown' = thrown \union {round}
      /\ UNCHANGED <<source, edits, shaders, spirv_code, waiting, started, finished, round, call,
                     next, construction, declarations, declared, pipelines, before, called_at>>
  BY DEF CompileThrows, Return, poolVars, pipelineVars, declarationVars
<1>2. FilesSound' /\ RoundSound' /\ PoolSound' /\ FuturesSound' /\ DeclarationsSound'
  BY <1>1, CallLeaves
<1>3. futures' = <<>> /\ results' = None
  BY <1>1 DEF Leave
<1>4. TasksSound'
  <2>1. Tasks' = Tasks
    BY <1>1 DEF Tasks
  <2>2. \A t \in Tasks : t.round \in thrown'
    BY <1>1 DEF IInv, TasksSound
  <2>3. DOMAIN futures' = {}
    BY <1>3
  <2> QED
    BY <2>1, <2>2, <2>3 DEF TasksSound
<1>5. ResultsSound'
  BY <1>1, <1>3 DEF ResultsSound, NotOlder, None
<1>6. PipelinesSound'
  BY <1>1 DEF IInv, PipelinesSound, AllOrNothing, Calling
<1> QED
  BY <1>2, <1>4, <1>5, <1>6 DEF IInv

(* When all futures have been asked, the tasks of the call have finished.    *)
LEMMA AllFinished ==
  ASSUME IInv, AllAsked, NEW t \in Tasks
  PROVE  t.round \in thrown
<1> SUFFICES ASSUME t.round \notin thrown
             PROVE  FALSE
  OBVIOUS
<1>1. PICK i \in DOMAIN futures : futures[i] = t
  BY DEF IInv, TasksSound
<1>2. i \in 1 .. asked
  BY <1>1 DEF IInv, FuturesSound, AllAsked
<1>3. t \in finished
  BY <1>1, <1>2 DEF IInv, FuturesSound
<1> QED
  BY <1>3 DEF IInv, PoolSound

LEMMA CompileFailsSound == IInv /\ (CompileFails \/ WriteThrows) => IInv'
<1> SUFFICES ASSUME IInv, CompileFails \/ WriteThrows
             PROVE  IInv'
  OBVIOUS
<1>1. /\ host = "wait" /\ AllAsked /\ Leave /\ host' = "idle"
      /\ outcome' \in {"false", "not compiled", "not written"}
      /\ UNCHANGED <<source, edits, shaders, waiting, started, finished, round, call, next,
                     construction, declarations, declared, pipelines, before, called_at, thrown>>
  BY DEF CompileFails, WriteThrows, Return, poolVars, pipelineVars, declarationVars, historyVars
<1>2. FilesSound' /\ RoundSound' /\ PoolSound' /\ FuturesSound' /\ DeclarationsSound'
  BY <1>1, CallLeaves
<1>3. futures' = <<>> /\ results' = None
  BY <1>1 DEF Leave
<1>4. TasksSound'
  <2>1. Tasks' = Tasks
    BY <1>1 DEF Tasks
  <2>2. \A t \in Tasks : t.round \in thrown
    BY <1>1, AllFinished
  <2>3. DOMAIN futures' = {}
    BY <1>3
  <2> QED
    BY <1>1, <2>1, <2>2, <2>3 DEF TasksSound
<1>5. ResultsSound'
  BY <1>1, <1>3 DEF ResultsSound, NotOlder, None
<1>6. PipelinesSound'
  BY <1>1 DEF IInv, PipelinesSound, AllOrNothing, Calling
<1> QED
  BY <1>2, <1>4, <1>5, <1>6 DEF IInv

LEMMA CompileSucceedsSound == IInv /\ CompileSucceeds => IInv'
<1> SUFFICES ASSUME IInv, CompileSucceeds
             PROVE  IInv'
  OBVIOUS
<1>1. /\ host = "wait" /\ AllAsked /\ Leave /\ host' = "build"
      /\ spirv_code' = results /\ next' = 1
      /\ UNCHANGED <<source, edits, shaders, waiting, started, finished, round, call, outcome,
                     construction, declarations, declared, before, called_at, thrown>>
      /\ DOMAIN pipelines' = DOMAIN pipelines
  BY DEF CompileSucceeds, Return, poolVars, declarationVars
<1>2. FilesSound' /\ RoundSound' /\ PoolSound' /\ FuturesSound' /\ DeclarationsSound'
  BY <1>1, CallLeaves
<1>3. futures' = <<>> /\ results' = None
  BY <1>1 DEF Leave
<1>4. TasksSound'
  <2>1. Tasks' = Tasks
    BY <1>1 DEF Tasks
  <2>2. \A t \in Tasks : t.round \in thrown
    BY <1>1, AllFinished
  <2>3. DOMAIN futures' = {}
    BY <1>3
  <2> QED
    BY <1>1, <2>1, <2>2, <2>3 DEF TasksSound
<1>5. ResultsSound'
  BY <1>1, <1>3 DEF IInv, ResultsSound, NotOlder, None
<1>6. \A i \in DOMAIN pipelines' : pipelines'[i].code = None
  <2>1. CASE call = "reload"
    BY <2>1 DEF CompileSucceeds
  <2>2. CASE call # "reload"
    <3>1. call = "construct" /\ pipelines' = pipelines
      BY <1>1, <2>2 DEF CompileSucceeds, IInv, PipelinesSound
    <3> QED
      BY <1>1, <3>1 DEF IInv, PipelinesSound, Calling
  <2> QED
    BY <2>1, <2>2
<1>7. DOMAIN pipelines' \subseteq Nat \ {0}
  BY <1>1, PipelinesAssumption DEF IInv, DeclarationsSound
<1>8. PipelinesSound'
  BY <1>1, <1>6, <1>7 DEF IInv, PipelinesSound, AllOrNothing, Calling
<1> QED
  BY <1>2, <1>4, <1>5, <1>8 DEF IInv

-----------------------------------------------------------------------------
(* A pipeline gets the code that the call compiled, if all of it is there.   *)
LEMMA BuildPipelineSound == IInv /\ BuildPipeline => IInv'
<1> SUFFICES ASSUME IInv, BuildPipeline
             PROVE  IInv'
  OBVIOUS
<1> DEFINE CodeOf(i) == [s \in shaders_of[i] |-> spirv_code[shader_key[s]]]
           built == [layout |-> created', code |-> CodeOf(next)]
<1>1. /\ host = "build" /\ Compiled(next)
      /\ layouts' = layouts \union {created'} /\ next' = next + 1 /\ Put(built)
      /\ UNCHANGED <<source, edits, shaders, spirv_code, waiting, started, finished, compiled,
                     round, futures, asked, results, thrown, construction, declarations,
                     declared, host, call, outcome, before, called_at>>
  BY DEF BuildPipeline, repositoryVars, poolVars, callVars, hostVars, declarationVars,
         historyVars
<1>2. FilesSound' /\ RoundSound' /\ PoolSound' /\ FuturesSound' /\ TasksSound'
  BY <1>1, RepositoryKept
<1>3. ResultsSound'
  BY <1>1 DEF IInv, ResultsSound, NotOlder, Collected
<1>4. DOMAIN pipelines' = DOMAIN pipelines /\ DOMAIN pipelines \subseteq Nat
      /\ next \in Nat
  BY <1>1, PipelinesAssumption DEF Put, IInv, DeclarationsSound, PipelinesSound
<1>5. DeclarationsSound'
  BY <1>1, <1>4 DEF IInv, DeclarationsSound
<1>6. ASSUME NEW i \in DOMAIN pipelines
      PROVE  IF i < next' THEN Fresh(i)' ELSE pipelines'[i].code = None
  <2>1. CASE i = next
    <3>1. pipelines'[i] = built
      BY <1>1, <2>1 DEF Put
    <3>2. pipelines'[i].layout \in layouts' /\ DOMAIN pipelines'[i].code = shaders_of[i]
      BY <1>1, <2>1, <3>1
    <3>3. ASSUME NEW s \in shaders_of[i]
          PROVE  pipelines'[i].code[s] >= called_at'[shader_key[s]]
      <4>1. pipelines'[i].code[s] = spirv_code[shader_key[s]]
        BY <2>1, <3>1
      <4>2. shader_key[s] \in DOMAIN spirv_code
        BY <1>1, <2>1 DEF Compiled
      <4>3. spirv_code[shader_key[s]] >= called_at[shader_key[s]]
        BY <1>1, <4>2 DEF IInv, ResultsSound, NotOlder
      <4> QED
        BY <1>1, <4>1, <4>3
    <3>4. Fresh(i)'
      BY <3>2, <3>3 DEF Fresh
    <3> QED
      BY <1>1, <1>4, <2>1, <3>4
  <2>2. CASE i # next
    <3>1. pipelines'[i] = pipelines[i] /\ (i < next' <=> i < next)
      BY <1>1, <1>4, <2>2 DEF Put
    <3>2. IF i < next THEN Fresh(i) ELSE pipelines[i].code = None
      BY <1>1 DEF IInv, PipelinesSound
    <3>3. Fresh(i) => Fresh(i)'
      BY <1>1, <3>1 DEF Fresh
    <3> QED
      BY <3>1, <3>2, <3>3
  <2> QED
    BY <2>1, <2>2
<1>7. PipelinesSound'
  BY <1>1, <1>4, <1>6 DEF IInv, PipelinesSound, AllOrNothing, Calling
<1> QED
  BY <1>2, <1>3, <1>5, <1>7 DEF IInv

LEMMA BuildThrowsSound == IInv /\ BuildThrows => IInv'
<1> SUFFICES ASSUME IInv, BuildThrows
             PROVE  IInv'
  OBVIOUS
<1> DEFINE half == [layout |-> created', code |-> None]
<1>1. /\ host = "build" /\ host' = "idle" /\ outcome' = "not built"
      /\ layouts \subseteq layouts'
      /\ pipelines' = pipelines \/ Put(half)
      /\ UNCHANGED <<source, edits, shaders, spirv_code, waiting, started, finished, compiled,
                     round, futures, asked, results, thrown, construction, declarations,
                     declared, call, next, before, called_at>>
  BY DEF BuildThrows, Return, repositoryVars, poolVars, callVars, declarationVars
<1>2. FilesSound' /\ RoundSound' /\ PoolSound' /\ FuturesSound' /\ TasksSound'
  BY <1>1, RepositoryKept
<1>3. ResultsSound'
  BY <1>1 DEF IInv, ResultsSound, NotOlder, Collected
<1>4. DOMAIN pipelines' = DOMAIN pipelines /\ next \in Nat
  BY <1>1 DEF Put, IInv, PipelinesSound
<1>5. DeclarationsSound'
  BY <1>1, <1>4 DEF IInv, DeclarationsSound
<1>6. ASSUME NEW i \in DOMAIN pipelines
      PROVE  IF i < next THEN Fresh(i)' ELSE pipelines'[i].code = None
  <2>1. pipelines'[i] = pipelines[i] \/ (i = next /\ pipelines'[i] = half)
    BY <1>1 DEF Put
  <2>2. IF i < next THEN Fresh(i) ELSE pipelines[i].code = None
    BY <1>1 DEF IInv, PipelinesSound
  <2>3. ASSUME Fresh(i), pipelines'[i] = pipelines[i]
        PROVE  Fresh(i)'
    BY <1>1, <2>3 DEF Fresh
  <2> QED
    BY <1>4, <2>1, <2>2, <2>3
<1>7. PipelinesSound'
  BY <1>1, <1>4, <1>6 DEF IInv, PipelinesSound, AllOrNothing, Calling
<1> QED
  BY <1>2, <1>3, <1>5, <1>7 DEF IInv

(* Built and SetsThrow.                                                      *)
LEMMA BuiltAllSound == IInv /\ (Built \/ SetsThrow) => IInv'
<1> SUFFICES ASSUME IInv, Built \/ SetsThrow
             PROVE  IInv'
  OBVIOUS
<1>1. /\ host = "build" /\ next > declared /\ host' = "idle" /\ outcome' \in {"true", "no sets"}
      /\ UNCHANGED <<source, edits, shaders, spirv_code, waiting, started, finished, compiled,
                     round, futures, asked, results, thrown, construction, declarations,
                     declared, call, pipelines, layouts, next, before, called_at>>
  BY DEF Built, SetsThrow, Return, repositoryVars, poolVars, callVars, pipelineVars,
         declarationVars
<1>2. FilesSound' /\ RoundSound' /\ PoolSound' /\ FuturesSound' /\ TasksSound'
  BY <1>1, RepositoryKept
<1>3. ResultsSound' /\ DeclarationsSound'
  BY <1>1 DEF IInv, ResultsSound, DeclarationsSound, NotOlder, Collected
<1>4. PipelinesSound'
  <2>1. ASSUME NEW i \in DOMAIN pipelines
        PROVE  i < next
    <3>1. i \in 1 .. PipelineCount /\ declared = PipelineCount
      BY DEF IInv, DeclarationsSound
    <3>2. next \in Nat
      BY DEF IInv, PipelinesSound
    <3>3. next > PipelineCount
      BY <3>1 DEF Built, SetsThrow
    <3> QED
      BY <3>1, <3>2, <3>3, PipelinesAssumption
  <2>2. \A i \in DOMAIN pipelines : Fresh(i)
    BY <1>1, <2>1 DEF IInv, PipelinesSound
  <2>3. \A i \in DOMAIN pipelines' : Fresh(i)'
    BY <1>1, <2>2 DEF Fresh
  <2> QED
    BY <1>1, <2>3 DEF IInv, PipelinesSound, AllOrNothing, Calling
<1> QED
  BY <1>2, <1>3, <1>4 DEF IInv

-----------------------------------------------------------------------------
(* A program that has ended does nothing more.                               *)
LEMMA CrashSound == IInv /\ Crash => IInv'
<1> SUFFICES ASSUME IInv, Crash
             PROVE  IInv'
  OBVIOUS
<1>1. /\ host' = "crashed"
      /\ UNCHANGED <<source, edits, shaders, spirv_code, waiting, started, finished, compiled,
                     round, futures, asked, results, next, thrown, construction, declarations,
                     declared, call, outcome, pipelines, layouts, before, called_at>>
  BY DEF Crash, repositoryVars, poolVars, callVars, pipelineVars, declarationVars, historyVars
<1>2. FilesSound' /\ RoundSound' /\ PoolSound' /\ FuturesSound' /\ TasksSound'
  BY <1>1, RepositoryKept
<1>3. ResultsSound' /\ DeclarationsSound'
  BY <1>1 DEF IInv, ResultsSound, DeclarationsSound, NotOlder, Collected
<1>4. PipelinesSound'
  BY <1>1 DEF IInv, PipelinesSound, AllOrNothing, Calling
<1> QED
  BY <1>2, <1>3, <1>4 DEF IInv

LEMMA EditingSound == IInv /\ Editing => IInv'
<1> SUFFICES ASSUME IInv, Editing
             PROVE  IInv'
  OBVIOUS
<1>1. /\ Edit
      /\ UNCHANGED <<shaders, spirv_code, waiting, started, finished, compiled, round,
                     futures, asked, results, next, thrown, construction, declarations,
                     declared, host, call, outcome, pipelines, layouts, before, called_at>>
  BY DEF Editing, poolVars, callVars, hostVars, pipelineVars, declarationVars, historyVars
<1>2. FilesSound'
  <2> PICK k \in Keys, content \in Contents :
        source' = [source EXCEPT ![k] = [content |-> content, version |-> edits']]
    BY <1>1 DEF Edit
  <2>1. edits \in Nat /\ edits' = edits + 1
    BY <1>1 DEF Edit, IInv, FilesSound
  <2>2. source' \in [Keys -> File]
    BY <2>1 DEF IInv, FilesSound, File
  <2>3. ASSUME NEW l \in Keys
        PROVE  called_at[l] <= source'[l].version /\ source'[l].version <= edits'
    <3>1. source[l] \in File /\ called_at[l] \in Nat
      BY DEF IInv, FilesSound
    <3>2. called_at[l] <= source[l].version /\ source[l].version <= edits
      BY DEF IInv, FilesSound
    <3>3. source'[l] = source[l] \/ source'[l].version = edits'
      BY DEF IInv, FilesSound
    <3> QED
      BY <2>1, <3>1, <3>2, <3>3 DEF File
  <2> QED
    BY <1>1, <2>1, <2>2, <2>3 DEF FilesSound, IInv
<1>3. PoolSound' /\ TasksSound' /\ RoundSound' /\ FuturesSound'
  BY <1>1 DEF IInv, PoolSound, TasksSound, Tasks, RoundSound, FuturesSound, Collected
<1>4. ResultsSound' /\ DeclarationsSound'
  BY <1>1 DEF IInv, ResultsSound, DeclarationsSound, NotOlder, Collected
<1>5. PipelinesSound'
  BY <1>1 DEF IInv, PipelinesSound, AllOrNothing, Fresh, Calling
<1> QED
  BY <1>2, <1>3, <1>4, <1>5 DEF IInv

(* A worker takes the oldest task.                                           *)
LEMMA StartTaskSound ==
  ASSUME PoolSound, StartTask
  PROVE  PoolSound' /\ Tasks' \subseteq Tasks
<1>1. /\ waiting # <<>> /\ started' = started \union {Head(waiting)}
      /\ waiting' = Tail(waiting) /\ UNCHANGED finished
  BY DEF StartTask, Pool!Begin
<1>2. /\ waiting \in Seq(CompileTask) /\ waiting' \in Seq(CompileTask)
      /\ 1 \in DOMAIN waiting /\ Head(waiting) = waiting[1]
      /\ \A i \in DOMAIN waiting' : i + 1 \in DOMAIN waiting /\ waiting'[i] = waiting[i + 1]
      /\ \A i \in DOMAIN waiting' : i + 1 # 1
  BY <1>1 DEF PoolSound
<1>3. Tasks' \subseteq Tasks
  BY <1>1, <1>2 DEF Tasks
<1>4. \A i, j \in DOMAIN waiting' : i # j => waiting'[i] # waiting'[j]
  <2> SUFFICES ASSUME NEW i \in DOMAIN waiting', NEW j \in DOMAIN waiting', i # j
               PROVE  waiting'[i] # waiting'[j]
    OBVIOUS
  <2>1. i + 1 # j + 1
    BY <1>2
  <2> QED
    BY <1>2, <2>1 DEF PoolSound
<1>5. \A i \in DOMAIN waiting' : waiting'[i] \notin started'
  BY <1>1, <1>2 DEF PoolSound
<1>6. started' \subseteq CompileTask
  BY <1>1, <1>2 DEF PoolSound
<1> QED
  BY <1>1, <1>2, <1>3, <1>4, <1>5, <1>6 DEF PoolSound

(* A task reads its file before it has finished.                             *)
LEMMA FinishTaskSound ==
  ASSUME FilesSound, PoolSound, FuturesSound, NEW t \in started, FinishTask(t),
         UNCHANGED <<source, futures, asked, host, called_at>>
  PROVE  PoolSound' /\ FuturesSound' /\ Tasks' \subseteq Tasks
<1>1. started' = started \ {t} /\ finished' = finished \union {t} /\ UNCHANGED waiting
  BY DEF FinishTask, Pool!Finish
<1>2. Tasks' \subseteq Tasks /\ t \notin Tasks'
  BY <1>1 DEF Tasks, PoolSound
<1>3. PoolSound'
  BY <1>1, <1>2 DEF PoolSound
<1>4. t \in CompileTask /\ KeyOf(t.object) \in Keys
  BY DEF PoolSound, CompileTask, Object, KeyOf, Keys
<1>5. source[KeyOf(t.object)].version >= called_at[KeyOf(t.object)]
  <2>1. /\ source[KeyOf(t.object)] \in File /\ called_at[KeyOf(t.object)] \in Nat
        /\ called_at[KeyOf(t.object)] <= source[KeyOf(t.object)].version
    BY <1>4 DEF FilesSound
  <2> QED
    BY <2>1 DEF File
<1>6. ASSUME NEW i \in DOMAIN futures', futures'[i] \in finished'
      PROVE  /\ futures'[i] \in DOMAIN compiled'
             /\ compiled'[futures'[i]].version >= called_at'[KeyOf(futures'[i].object)]
  <2>1. CASE futures[i] = t
    <3>1. compiled' = With(compiled, t, source[KeyOf(t.object)])
      BY <2>1, <1>6 DEF FinishTask
    <3>2. t \in DOMAIN compiled' /\ compiled'[t] = source[KeyOf(t.object)]
      BY <3>1 DEF With
    <3> QED
      BY <1>5, <2>1, <3>2
  <2>2. CASE futures[i] # t
    <3>1. futures[i] \in finished
      BY <1>1, <1>6, <2>2
    <3>2. /\ futures[i] \in DOMAIN compiled
          /\ compiled[futures[i]].version >= called_at[KeyOf(futures[i].object)]
      BY <1>6, <3>1 DEF FuturesSound
    <3>3. compiled' = compiled \/ compiled' = With(compiled, t, source[KeyOf(t.object)])
      BY DEF FinishTask
    <3>4. futures[i] \in DOMAIN compiled' /\ compiled'[futures[i]] = compiled[futures[i]]
      BY <2>2, <3>2, <3>3 DEF With
    <3> QED
      BY <3>2, <3>4
  <2> QED
    BY <2>1, <2>2
<1>7. FuturesSound'
  <2>1. \A i \in 1 .. asked' : futures'[i] \in finished'
    BY <1>1 DEF FuturesSound
  <2> QED
    BY <1>6, <2>1 DEF FuturesSound, Collected
<1> QED
  BY <1>2, <1>3, <1>7

LEMMA PoolStepSound == IInv /\ PoolStep => IInv'
<1> SUFFICES ASSUME IInv, PoolStep
             PROVE  IInv'
  OBVIOUS
<1>1. UNCHANGED <<source, edits, shaders, spirv_code, round, futures, asked, results, next,
                  thrown, construction, declarations, declared, host, call, outcome, pipelines,
                  layouts, before, called_at>>
  BY DEF PoolStep, callVars, hostVars, pipelineVars, declarationVars, historyVars
<1>2. PoolSound' /\ FuturesSound' /\ Tasks' \subseteq Tasks
  <2>1. CASE StartTask /\ UNCHANGED compiled
    <3>1. finished' = finished
      BY <2>1 DEF StartTask, Pool!Begin
    <3> QED
      BY <1>1, <2>1, <3>1, StartTaskSound DEF IInv, FuturesSound, Collected
  <2>2. CASE \E t \in started : FinishTask(t)
    BY <1>1, <2>2, FinishTaskSound DEF IInv
  <2> QED
    BY <2>1, <2>2 DEF PoolStep
<1>3. FilesSound' /\ ResultsSound' /\ RoundSound' /\ DeclarationsSound'
  BY <1>1 DEF IInv, FilesSound, ResultsSound, NotOlder, Collected, RoundSound, DeclarationsSound
<1>4. TasksSound'
  BY <1>1, <1>2 DEF IInv, TasksSound
<1>5. PipelinesSound'
  BY <1>1 DEF IInv, PipelinesSound, AllOrNothing, Fresh, Calling
<1> QED
  BY <1>2, <1>3, <1>4, <1>5 DEF IInv

LEMMA NothingHappens == IInv /\ UNCHANGED vars => IInv'
<1> SUFFICES ASSUME IInv, UNCHANGED vars
             PROVE  IInv'
  OBVIOUS
<1>1. UNCHANGED <<source, edits, shaders, spirv_code, waiting, started, finished, compiled,
                  round, futures, asked, results, next, thrown, construction, declarations,
                  declared, host, call, outcome, pipelines, layouts, before, called_at>>
  BY DEF vars, repositoryVars, poolVars, callVars, hostVars, pipelineVars, declarationVars,
         historyVars
<1>2. FilesSound' /\ RoundSound' /\ PoolSound' /\ FuturesSound' /\ TasksSound'
  BY <1>1, RepositoryKept
<1>3. ResultsSound' /\ DeclarationsSound'
  BY <1>1 DEF IInv, ResultsSound, DeclarationsSound, NotOlder, Collected
<1>4. PipelinesSound'
  BY <1>1 DEF IInv, PipelinesSound, AllOrNothing, Fresh, Calling
<1> QED
  BY <1>2, <1>3, <1>4 DEF IInv

(* The inductive invariant: what is read, collected, built and queued        *)
(* belongs to the call, at every step of one.                                *)
THEOREM Invariant == Spec => []IInv
<1>1. IInv /\ [Next]_vars => IInv'
  BY ConstructSound, ReloadSound, NoCallSound, RunCompileTaskSound, WaitForResultsSound,
     GetCompileResultSound, CompileThrowsSound, CompileFailsSound, CompileSucceedsSound,
     BuildPipelineSound, BuildThrowsSound, BuiltAllSound, CrashSound, EditingSound,
     PoolStepSound, NothingHappens
  DEF Next, Idle
<1> QED
  BY <1>1, Starts, PTL DEF Spec

(* Engine::construct_components and reload_shaders_all, however they end: a  *)
(* call that returns true has built every pipeline from files that are no    *)
(* older than the call, one that ends before it builds has left every        *)
(* pipeline as it was, and one that throws while it builds has built some of *)
(* them and left the others without any code.                                *)
THEOREM ReloadsAreAllOrNothing == Spec => []AllOrNothing
<1>1. IInv => AllOrNothing
  BY DEF IInv, PipelinesSound
<1> QED
  BY <1>1, Invariant, PTL

(* A compile task is there only while the call that queued it waits for it,  *)
(* unless a file was missing and that call threw (shader_repository.cpp:231).*)
THEOREM TasksEndWithTheirCalls == Spec => []TasksEndWithTheirCall
<1>1. IInv => TasksEndWithTheirCall
  <2> SUFFICES ASSUME IInv, NEW t \in Tasks, t.round \notin thrown
               PROVE  t.round = round /\ host \in {"compile", "wait", "crashed"}
    BY DEF TasksEndWithTheirCall
  <2>1. PICK i \in DOMAIN futures : futures[i] = t
    BY DEF IInv, TasksSound
  <2>2. t.round = round
    BY <2>1 DEF IInv, TasksSound
  <2>3. futures # <<>>
    BY <2>1
  <2>4. ~Collected
    BY <2>3 DEF IInv, FuturesSound
  <2> QED
    BY <2>2, <2>4 DEF IInv, PipelinesSound, Collected
<1> QED
  BY <1>1, Invariant, PTL

-----------------------------------------------------------------------------
(* Pipelines can be used: there is code for every shader of theirs when they *)
(* are built, and they keep it with their layout until all are built again.  *)

(* Every shader the repository knows has a task when results are waited for, *)
(* and code of all that were asked unless one failed.                        *)
CodeSound ==
  /\ DOMAIN pipelines # {} => shaders = Declared(declarations)
  /\ host = "wait" => AllQueued
  /\ Collected => success
  /\ success => \A i \in 1 .. asked : KeyOf(futures[i].object) \in DOMAIN results
  /\ host = "build" => \A object \in shaders : KeyOf(object) \in DOMAIN spirv_code

Usable(i) ==
  /\ pipelines[i].layout \in layouts
  /\ DOMAIN pipelines[i].code = shaders_of[i]

(* A pipeline has a layout that exists, or none, or one that was destroyed   *)
(* when a build did not get to it, or it is to be built and gets another.    *)
LayoutsSound ==
  /\ next \in Nat \ {0}
  /\ declarations = 0 => ~sets_built
  /\ host \in {"compile", "wait", "build"} /\ call = "construct" => declarations # 0
  /\ destroyed_twice \subseteq dangling
  /\ host \notin {"build", "crashed"} =>
       \A i \in DOMAIN pipelines : pipelines[i].layout \in layouts \union {NoLayout} \union dangling
  /\ sets_built /\ host \notin {"build", "crashed"} =>
       \A i \in DOMAIN pipelines \ unbuilt : Usable(i)

UInv == CodeSound /\ LayoutsSound

LEMMA DeclaredHaveCode ==
  ASSUME IInv, CodeSound, host = "build", NEW i \in DOMAIN pipelines
  PROVE  Compiled(i)
<1> SUFFICES ASSUME NEW s \in shaders_of[i]
             PROVE  /\ shader_key[s] \in DOMAIN spirv_code
                    /\ [construction |-> declarations, shader |-> s] \in shaders
  BY DEF Compiled
<1> DEFINE object == [construction |-> declarations, shader |-> s]
<1>1. shaders = Declared(declarations) /\ i \in 1 .. PipelineCount
  BY DEF IInv, DeclarationsSound, CodeSound
<1>2. object \in shaders
  BY <1>1 DEF Declared
<1>3. KeyOf(object) \in DOMAIN spirv_code
  BY <1>2 DEF CodeSound
<1> QED
  BY <1>2, <1>3 DEF KeyOf

LEMMA UsableStarts == Init => UInv
<1> SUFFICES ASSUME Init
             PROVE  UInv
  OBVIOUS
<1>1. /\ host = "idle" /\ success = TRUE /\ asked = 0
      /\ next = 1 /\ sets_built = FALSE /\ destroyed_twice = {} /\ pipelines = <<>>
  BY DEF Init, InitRepository
<1>2. CodeSound
  BY <1>1 DEF CodeSound
<1>3. LayoutsSound
  BY <1>1 DEF LayoutsSound
<1> QED
  BY <1>2, <1>3 DEF UInv

LEMMA CallsUsable == IInv /\ UInv /\ (Construct \/ Reload) => UInv'
<1> SUFFICES ASSUME IInv, UInv, Construct \/ Reload
             PROVE  UInv'
  OBVIOUS
<1>1. host = "idle" /\ host' = "compile"
  BY DEF Construct, Reload
<1>2. asked = 0 /\ success
  BY <1>1 DEF IInv, FuturesSound, UInv, CodeSound, Collected
<1>3. CASE Construct
  <2>1. /\ declarations = 0 /\ construction' = construction + 1
        /\ declarations' = construction'
        /\ pipelines' = [i \in 1 .. PipelineCount |-> NoPipeline]
        /\ shaders' = Declared(construction')
        /\ UNCHANGED <<asked, success, futures, results, layouts, next, sets_built,
                       destroyed_twice, dangling>>
    BY <1>3 DEF Construct, Recompile, callVars, buildVars
  <2>2. CodeSound'
    BY <1>1, <1>2, <2>1 DEF CodeSound, Collected
  <2>3. declarations' # 0 /\ ~sets_built
    BY <2>1 DEF IInv, DeclarationsSound, UInv, LayoutsSound
  <2>4. LayoutsSound'
    BY <2>1, <2>3 DEF UInv, LayoutsSound, NoPipeline
  <2> QED
    BY <2>2, <2>4 DEF UInv
<1>4. CASE Reload
  <2>1. /\ call' = "reload"
        /\ UNCHANGED <<shaders, asked, success, futures, results, pipelines, layouts, next,
                    declarations, sets_built, destroyed_twice, unbuilt, dangling>>
    BY <1>4 DEF Reload, Recompile, callVars, pipelineVars, declarationVars, buildVars
  <2>2. CodeSound'
    BY <1>1, <1>2, <2>1 DEF UInv, CodeSound, Collected
  <2>3. LayoutsSound'
    BY <1>1, <2>1 DEF UInv, LayoutsSound, Usable
  <2> QED
    BY <2>2, <2>3 DEF UInv
<1> QED
  BY <1>3, <1>4

(* Declarations come without pipelines, or all go: layouts that are there no *)
(* more are those of pipelines that were not built.                          *)
LEMMA NoCallUsable == IInv /\ UInv /\ (ConstructThrows \/ Destruct) => UInv'
<1> SUFFICES ASSUME IInv, UInv, ConstructThrows \/ Destruct
             PROVE  UInv'
  OBVIOUS
<1>1. /\ host = "idle" /\ host' = "idle" /\ dangling' = dangling
      /\ UNCHANGED <<asked, success, futures, results, next>>
  BY DEF ConstructThrows, Destruct, Return, repositoryVars, callVars, pipelineVars, buildVars
<1>2. CASE ConstructThrows
  <2>1. /\ declarations = 0 /\ construction' = construction + 1
        /\ declarations' = construction'
        /\ UNCHANGED <<pipelines, layouts, sets_built, destroyed_twice>>
    BY <1>2 DEF ConstructThrows, pipelineVars
  <2>2. DOMAIN pipelines = {} /\ ~sets_built
    BY <2>1 DEF IInv, DeclarationsSound, UInv, LayoutsSound
  <2>3. CodeSound'
    BY <1>1, <2>1, <2>2 DEF UInv, CodeSound, Collected
  <2>4. LayoutsSound'
    BY <1>1, <2>1, <2>2 DEF UInv, LayoutsSound
  <2> QED
    BY <2>3, <2>4 DEF UInv
<1>3. CASE Destruct
  <2>1. DestructPipelines /\ pipelines' = <<>> /\ sets_built' = FALSE
    BY <1>3 DEF Destruct
  <2>2. CodeSound'
    BY <1>1, <2>1 DEF UInv, CodeSound, Collected
  <2>3. destroyed_twice' \subseteq dangling
    BY <1>1, <2>1 DEF DestructPipelines, UInv, LayoutsSound
  <2>4. LayoutsSound'
    BY <1>1, <2>1, <2>3 DEF UInv, LayoutsSound
  <2> QED
    BY <2>2, <2>4 DEF UInv
<1> QED
  BY <1>2, <1>3

(* Tasks are queued and asked.                                               *)
LEMMA CompilingUsable ==
  IInv /\ UInv /\ (RunCompileTask \/ WaitForResults \/ GetCompileResult) => UInv'
<1> SUFFICES ASSUME IInv, UInv, RunCompileTask \/ WaitForResults \/ GetCompileResult
             PROVE  UInv'
  OBVIOUS
<1>1. host \in {"compile", "wait"} /\ host' \in {"compile", "wait"}
  BY DEF RunCompileTask, WaitForResults, GetCompileResult, hostVars
<1>2. UNCHANGED <<shaders, pipelines, layouts, next, call, declarations, sets_built,
                  destroyed_twice, unbuilt, dangling>>
  BY DEF RunCompileTask, WaitForResults, GetCompileResult, repositoryVars, pipelineVars,
         declarationVars, hostVars, historyVars, buildVars
<1>3. LayoutsSound'
  BY <1>1, <1>2 DEF UInv, LayoutsSound, Usable
<1>4. futures \in Seq(CompileTask) /\ asked \in 0 .. Len(futures)
  BY DEF IInv, FuturesSound
<1>5. CASE RunCompileTask
  <2> PICK object \in shaders :
        futures' = Append(futures, [round |-> round, object |-> object])
    BY <1>5 DEF RunCompileTask, RunTask
  <2>1. host' = "compile" /\ UNCHANGED <<asked, success, results>>
    BY <1>5 DEF RunCompileTask, RunTask, hostVars
  <2>2. \A i \in 1 .. asked : futures'[i] = futures[i]
    BY <1>4
  <2> QED
    BY <1>1, <1>2, <1>3, <2>1, <2>2 DEF UInv, CodeSound, Collected
<1>6. CASE WaitForResults
  <2>1. AllQueued /\ UNCHANGED <<futures, asked, success, results>>
    BY <1>6 DEF WaitForResults, repositoryVars, callVars
  <2>2. AllQueued'
    BY <1>2, <2>1 DEF AllQueued, Queued
  <2> QED
    BY <1>1, <1>2, <1>3, <2>1, <2>2 DEF UInv, CodeSound, Collected
<1>7. CASE GetCompileResult
  <2>1. /\ host = "wait" /\ asked' = asked + 1 /\ UNCHANGED futures
        /\ success' => success /\ results' =
                          With(results, KeyOf(Asked.object), compiled[Asked].version)
    BY <1>7 DEF GetCompileResult, GetResult, Failed
  <2>2. AllQueued'
    BY <1>2, <2>1 DEF UInv, CodeSound, AllQueued, Queued
  <2>3. ASSUME success', NEW i \in 1 .. asked'
        PROVE  KeyOf(futures'[i].object) \in DOMAIN results'
    <3>1. DOMAIN results' = DOMAIN results \union {KeyOf(futures[asked + 1].object)}
      BY <2>1, <2>3 DEF With, Asked
    <3>2. i \in 1 .. asked \/ i = asked + 1
      BY <1>4, <2>1
    <3> QED
      BY <2>1, <2>3, <3>1, <3>2 DEF UInv, CodeSound
  <2> QED
    BY <1>1, <1>2, <1>3, <2>1, <2>2, <2>3 DEF UInv, CodeSound, Collected
<1> QED
  BY <1>5, <1>6, <1>7

(* A call that ends without building leaves the pipelines as they are.       *)
LEMMA FailuresUsable ==
  IInv /\ UInv /\ (CompileThrows \/ CompileFails \/ WriteThrows) => UInv'
<1> SUFFICES ASSUME IInv, UInv, CompileThrows \/ CompileFails \/ WriteThrows
             PROVE  UInv'
  OBVIOUS
<1>1. /\ host = "wait" /\ host' = "idle" /\ Leave
      /\ UNCHANGED <<shaders, pipelines, layouts, next, declarations, sets_built,
                     destroyed_twice, unbuilt, dangling>>
  BY DEF CompileThrows, CompileFails, WriteThrows, Return, pipelineVars, declarationVars,
         historyVars, buildVars
<1>2. CodeSound'
  BY <1>1 DEF UInv, CodeSound, Leave
<1>3. LayoutsSound'
  BY <1>1 DEF UInv, LayoutsSound, Usable
<1> QED
  BY <1>2, <1>3 DEF UInv

LEMMA CompileSucceedsUsable == IInv /\ UInv /\ CompileSucceeds => UInv'
<1> SUFFICES ASSUME IInv, UInv, CompileSucceeds
             PROVE  UInv'
  OBVIOUS
<1>1. /\ host = "wait" /\ host' = "build" /\ AllAsked /\ success /\ Leave
      /\ spirv_code' = results /\ next' = 1
      /\ DOMAIN pipelines' = DOMAIN pipelines
      /\ UNCHANGED <<shaders, call, declarations, sets_built, dangling>>
  BY DEF CompileSucceeds, declarationVars, buildVars
<1>2. ASSUME NEW object \in shaders
      PROVE  KeyOf(object) \in DOMAIN results
  <2>1. PICK i \in DOMAIN futures : KeyOf(futures[i].object) = KeyOf(object)
    BY <1>1 DEF UInv, CodeSound, AllQueued, Queued
  <2>2. i \in 1 .. asked
    BY <1>1 DEF IInv, FuturesSound, AllAsked
  <2> QED
    BY <1>1, <2>1, <2>2 DEF UInv, CodeSound
<1>3. CodeSound'
  BY <1>1, <1>2 DEF UInv, CodeSound, Leave
<1>4. destroyed_twice' \subseteq dangling
  BY <1>1 DEF CompileSucceeds, DestructPipelines, UInv, LayoutsSound
<1>5. LayoutsSound'
  BY <1>1, <1>4 DEF UInv, LayoutsSound
<1> QED
  BY <1>3, <1>5 DEF UInv

LEMMA BuildPipelineUsable == IInv /\ UInv /\ BuildPipeline => UInv'
<1> SUFFICES ASSUME IInv, UInv, BuildPipeline
             PROVE  UInv'
  OBVIOUS
<1>1. /\ host = "build" /\ next' = next + 1
      /\ DOMAIN pipelines' = DOMAIN pipelines
      /\ UNCHANGED <<shaders, spirv_code, futures, asked, results, success, host, call,
                     declarations, sets_built, destroyed_twice, dangling>>
  BY DEF BuildPipeline, Put, repositoryVars, callVars, hostVars, declarationVars, historyVars,
         buildVars
<1>2. CodeSound'
  BY <1>1 DEF UInv, CodeSound, Collected
<1>3. LayoutsSound'
  BY <1>1 DEF UInv, LayoutsSound
<1> QED
  BY <1>2, <1>3 DEF UInv

(* What a build that throws did not get to keeps a layout that is destroyed. *)
LEMMA BuildThrowsUsable == IInv /\ UInv /\ BuildThrows => UInv'
<1> SUFFICES ASSUME IInv, UInv, BuildThrows
             PROVE  UInv'
  OBVIOUS
<1>1. /\ host = "build" /\ host' = "idle"
      /\ DOMAIN pipelines' = DOMAIN pipelines
      /\ unbuilt' = {i \in DOMAIN pipelines : i >= next}
      /\ dangling' = dangling
           \union ({pipelines'[i].layout : i \in unbuilt'} \ (layouts' \union {NoLayout}))
      /\ UNCHANGED <<shaders, spirv_code, futures, asked, results, success, next, declarations,
                     sets_built, destroyed_twice>>
  BY DEF BuildThrows, Put, Return, repositoryVars, callVars, declarationVars
<1>2. CodeSound'
  BY <1>1 DEF UInv, CodeSound, Collected
<1>3. next \in Nat /\ DOMAIN pipelines \subseteq Nat
  BY PipelinesAssumption DEF IInv, DeclarationsSound, PipelinesSound
<1>4. ASSUME NEW i \in DOMAIN pipelines, i \notin unbuilt'
      PROVE  Usable(i)'
  <2>1. i < next
    BY <1>1, <1>3, <1>4
  <2>2. Fresh(i)
    BY <1>1, <2>1 DEF IInv, PipelinesSound
  <2>3. pipelines'[i] = pipelines[i]
    <3> DEFINE half == [layout |-> created', code |-> None]
    <3>1. pipelines' = pipelines \/ Put(half)
      BY DEF BuildThrows
    <3>2. i # next
      BY <1>3, <2>1
    <3> QED
      BY <3>1, <3>2 DEF Put
  <2>4. layouts \subseteq layouts'
    BY DEF BuildThrows
  <2> QED
    BY <2>2, <2>3, <2>4 DEF Fresh, Usable
<1>5. ASSUME NEW i \in DOMAIN pipelines
      PROVE  pipelines'[i].layout \in layouts' \union {NoLayout} \union dangling'
  BY <1>1, <1>4 DEF Usable
<1>6. LayoutsSound'
  BY <1>1, <1>4, <1>5 DEF UInv, LayoutsSound
<1> QED
  BY <1>2, <1>6 DEF UInv

LEMMA BuildEndsUsable == IInv /\ UInv /\ (Built \/ SetsThrow) => UInv'
<1> SUFFICES ASSUME IInv, UInv, Built \/ SetsThrow
             PROVE  UInv'
  OBVIOUS
<1>1. /\ host = "build" /\ host' = "idle" /\ next > declared
      /\ UNCHANGED <<shaders, spirv_code, futures, asked, results, success, pipelines, layouts,
                     next, declarations, declared, destroyed_twice, dangling>>
  BY DEF Built, SetsThrow, Return, repositoryVars, callVars, pipelineVars, declarationVars
<1>2. CodeSound'
  BY <1>1 DEF UInv, CodeSound, Collected
<1>3. ASSUME NEW i \in DOMAIN pipelines
      PROVE  Usable(i)'
  <2>1. i \in 1 .. PipelineCount /\ declared = PipelineCount
    BY DEF IInv, DeclarationsSound
  <2>2. i < next
    BY <1>1, <2>1, PipelinesAssumption DEF IInv, PipelinesSound
  <2>3. Fresh(i)
    BY <1>1, <2>2 DEF IInv, PipelinesSound
  <2> QED
    BY <1>1, <2>3 DEF Fresh, Usable
<1>4. declarations = 0 => ~sets_built'
  <2>1. declarations = 0 => call # "construct" /\ ~sets_built
    BY <1>1 DEF UInv, LayoutsSound
  <2> QED
    BY <2>1 DEF Built, SetsThrow, declarationVars
<1>5. LayoutsSound'
  BY <1>1, <1>3, <1>4 DEF UInv, LayoutsSound, Usable
<1> QED
  BY <1>2, <1>5 DEF UInv

LEMMA OthersUsable == IInv /\ UInv /\ (Editing \/ PoolStep \/ Crash \/ UNCHANGED vars) => UInv'
<1> SUFFICES ASSUME IInv, UInv, Editing \/ PoolStep \/ Crash \/ UNCHANGED vars
             PROVE  UInv'
  OBVIOUS
<1>1. /\ host' \in {host, "crashed"}
      /\ UNCHANGED <<shaders, spirv_code, futures, asked, results, success, pipelines, layouts,
                     next, call, declarations, sets_built, destroyed_twice, unbuilt, dangling>>
  BY DEF Editing, PoolStep, Crash, vars, repositoryVars, callVars, hostVars, pipelineVars,
         declarationVars, historyVars, buildVars
<1>2. CodeSound'
  BY <1>1 DEF UInv, CodeSound, Collected, AllQueued, Queued
<1>3. LayoutsSound'
  BY <1>1 DEF UInv, LayoutsSound, Usable
<1> QED
  BY <1>2, <1>3 DEF UInv

(* Pipelines are only built from shaders that have code, also by a reload    *)
(* after construct_components threw; every pipeline that the last build got  *)
(* to has its layout and code of all its shaders; and no layout is destroyed *)
(* twice but one that a build which threw left behind.                       *)
THEOREM PipelinesAreUsable == Spec => []PipelinesUsable
<1>1. IInv /\ UInv /\ [Next]_vars => UInv'
  BY CallsUsable, NoCallUsable, CompilingUsable, FailuresUsable, CompileSucceedsUsable,
     BuildPipelineUsable, BuildThrowsUsable, BuildEndsUsable, OthersUsable
  DEF Next, Idle
<1>2. IInv /\ UInv => PipelinesUsable
  <2> SUFFICES ASSUME IInv, UInv
               PROVE  PipelinesUsable
    OBVIOUS
  <2>1. host = "build" => \A i \in DOMAIN pipelines : Compiled(i)
    BY DeclaredHaveCode DEF UInv
  <2> QED
    BY <2>1 DEF PipelinesUsable, UInv, LayoutsSound, Usable
<1> QED
  BY <1>1, <1>2, UsableStarts, Invariant, PTL DEF Spec
=============================================================================
