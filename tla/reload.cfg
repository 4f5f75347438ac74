SPECIFICATION Spec
CONSTANTS
  Vertex = Vertex
  Fragment = Fragment
  Other = Other
  Shaders = {Vertex, Fragment, Other}
  shader_key <- KeysOfShaders
  WorkerCount = 2
  MaxEdits = 2
  MaxRounds = 2
  PipelineCount = 2
  shaders_of <- ShadersOfPipelines
  MaxFailures = 1
INVARIANTS
  AllOrNothing
  PipelinesUsable
  TasksEndWithTheirCall
