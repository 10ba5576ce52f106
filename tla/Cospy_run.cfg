CONSTANTS
  Gap <- Spaced
  Programs <- FlatAndExpr
  BodyMax = 8
  MaxFuncs = 2
  MaxIter = 8
SPECIFICATION Spec
INVARIANTS MeansItsBlocks EvaluatesAsWritten ReadyForMore
