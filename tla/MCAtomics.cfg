\* Words of two bits, two requests on their way: all operations and operands.
CONSTANTS
  Width = 2
  MaxInFlight = 2
SPECIFICATION Spec
INVARIANT TypeOK EffectKept AtomicsStayAtomic
