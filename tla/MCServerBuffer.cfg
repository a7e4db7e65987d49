SPECIFICATION Spec
CONSTANTS
  Buffers = {input, output}
  Bytes = {0, 10}
  Zero = 0
  Newline = 10
  Default = 1
  Threshold = 2
  Increment = 1
  MaxBytes = 3
INVARIANTS ReadsTheOldest
PROPERTIES ImplementsByteQueue BuffersAreAppended
SYMMETRY BufferSymmetry
