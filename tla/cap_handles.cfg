\* Every HandleMap of up to five vhandles, in every key order, with every
\* start handle and every propertyCount up to six.
CONSTANTS
  MaxVHandleOffset = 4
  MaxPropCount = 6
SPECIFICATION Spec
INVARIANT
  GetCapHandlesCorrect
  CapResponseRoundTrip
