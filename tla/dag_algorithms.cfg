SPECIFICATION Spec
CONSTANTS
  Size = 4
  MaxEdges = 3
INVARIANTS CycleVerdictIsRight PropagationIsLeast NoStallAfterPropagation
PROPERTIES LoopsEnd
