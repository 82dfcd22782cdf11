\* One repair: the first attempt calls the provider, the second cannot start.
CONSTANT
  Allowances = {1}
SPECIFICATION Spec
INVARIANT
  InvocationReported
CHECK_DEADLOCK FALSE
