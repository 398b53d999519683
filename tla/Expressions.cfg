SPECIFICATION Spec
CONSTANTS
  Order = 3
  MaxOps = 2
  Index <- SymbolIndex
  Unary = {"oUminus", "oExp", "oLog", "oLog10", "oCos", "oSin", "oTan", "oAcos", "oAsin", "oAtan", "oCosh", "oSinh", "oTanh", "oAcosh", "oAsinh", "oAtanh", "oSqrt", "oAbs", "oSign", "oErf"}
  Binary = {"oPlus", "oMinus", "oTimes", "oDivide", "oPower", "oMax", "oMin", "oLess", "oGreater", "oLessEqual", "oGreaterEqual", "oEqualEqual", "oDifferent"}
  Outer = {"oUminus", "oExp", "oLog", "oPlus", "oMinus", "oTimes", "oDivide", "oPower", "oLess"}
INVARIANTS SimplificationsKeepTheValue DerivativesAreRight ChainRuleIsTotal NormalizedEquationsHold OutputReadsBack BytecodeComputesTheModel
CHECK_DEADLOCK FALSE
