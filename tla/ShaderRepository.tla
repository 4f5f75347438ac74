-------------------------- MODULE ShaderRepository --------------------------
(***************************************************************************)
(* vkte::ShaderRepository: compiles all shaders in the thread pool, one task *)
(* per distinct key, and keeps the code of the last time all of them         *)
(* compiled.  The pool is TaskPool, which ThreadManager implements.          *)
(*                                                                           *)
(* Shader files are edited while the program runs.  A key, a file and an     *)
(* entry point in it, has one content here: code that compiles, code that    *)
(* does not ("broken"), or no file ("missing").                              *)
(***************************************************************************)
EXTENDS Naturals, Sequences, FiniteSets

CONSTANTS
  Shaders,       (* shaders that the components' pipelines declare             *)
  shader_key,    (* shader -> key: name of the file and entry point            *)
  WorkerCount,
  MaxEdits,      (* bound: changes of shader files                             *)
  MaxRounds      (* bound: calls of recompile_all                              *)

ASSUME BoundsAssumption == MaxEdits \in Nat /\ MaxRounds \in Nat
ASSUME WorkersAssumption == WorkerCount \in Nat \ {0}

Keys == {shader_key[s] : s \in Shaders}
Contents == {"code", "broken", "missing"}

(* A shader object, of the declarations that a call of construct_components  *)
(* collected, and the task that compiles it.                                 *)
Object == [construction : Nat, shader : Shaders]
CompileTask == [round : Nat, object : Object]
KeyOf(object) == shader_key[object.shader]

VARIABLES
  source,        (* key -> content and version                                 *)
  edits,
  shaders,       (* the shader objects that the repository knows               *)
  spirv_code,    (* compiled keys -> version                                   *)
  waiting, started, finished, dropped,   (* the pool's tasks                   *)
  compiled,      (* finished tasks whose future is held -> the file they read  *)
  round,         (* calls of recompile_all so far                              *)
  futures,       (* of the tasks of this call                                  *)
  asked,         (* how many of them have been asked                           *)
  results,       (* keys -> version, as far as asked                           *)
  success

poolVars == <<waiting, started, finished, dropped>>
callVars == <<futures, asked, results, success>>

Pool == INSTANCE TaskPool WITH Tasks <- CompileTask

None == [x \in {} |-> 0]

InitRepository ==
  /\ source = [k \in Keys |-> [content |-> "code", version |-> 0]]
  /\ edits = 0
  /\ shaders = {}
  /\ spirv_code = None
  /\ Pool!Init
  /\ compiled = None
  /\ round = 0
  /\ futures = <<>>
  /\ asked = 0
  /\ results = None
  /\ success = TRUE

With(f, x, y) == [z \in DOMAIN f \union {x} |-> IF z = x THEN y ELSE f[z]]

-----------------------------------------------------------------------------
(* Shader files and the pool.                                               *)

Edit ==
  /\ edits < MaxEdits
  /\ edits' = edits + 1
  /\ \E k \in Keys, content \in Contents :
       /\ content = "missing" => source[k].content # "missing"
       /\ source' = [source EXCEPT ![k] = [content |-> content, version |-> edits']]

(* A task reads its shader object until it is finished.                      *)
StartTask == Pool!Begin

(* compile_to_spirv, with the file as it is at some moment after the start;  *)
(* nobody learns the result if the call that wanted it has thrown.           *)
FinishTask(t) ==
  /\ Pool!Finish(t)
  /\ compiled' = IF \E i \in DOMAIN futures : futures[i] = t
                 THEN With(compiled, t, source[KeyOf(t.object)]) ELSE compiled

-----------------------------------------------------------------------------
(* recompile_all, step by step.                                             *)

Recompile ==
  /\ round < MaxRounds
  /\ round' = round + 1
  /\ UNCHANGED callVars

Queued == {KeyOf(futures[i].object) : i \in DOMAIN futures}

(* One task per key, in the order of an unordered map.                       *)
RunTask ==
  \E object \in shaders :
    LET t == [round |-> round, object |-> object]
    IN /\ KeyOf(object) \notin Queued
       /\ Pool!Accept(t)
       /\ futures' = Append(futures, t)
       /\ UNCHANGED <<round, asked, results, success, compiled>>

AllQueued == Queued = {KeyOf(object) : object \in shaders}

Asked == futures[asked + 1]
Ready == asked < Len(futures) /\ Asked \in finished

(* Mutant: code that does not compile is skipped.                            *)
FailedIgnored == success

Failed == FALSE

(* future.get; a task that found no file has thrown, and so does this.       *)
GetResult ==
  /\ Ready
  /\ compiled[Asked].content # "missing"
  /\ asked' = asked + 1
  /\ IF compiled[Asked].content = "code"
     THEN /\ results' = With(results, KeyOf(Asked.object), compiled[Asked].version)
          /\ UNCHANGED success
     ELSE /\ success' = Failed
          /\ UNCHANGED results
  /\ UNCHANGED <<round, futures, compiled, poolVars>>

GetThrows == Ready /\ compiled[Asked].content = "missing"

(* Mutant: the first one that does not compile ends the call.                *)
AllAskedOrFailed == asked = Len(futures) \/ ~success

AllAsked == asked = Len(futures)
=============================================================================
