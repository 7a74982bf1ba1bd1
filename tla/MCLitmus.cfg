SPECIFICATION Spec
CONSTANT Tested = {"x86", "alpha", "ppc", "arm", "linux_arm", "interlocked", "generic_cas"}
INVARIANTS Published HandedBack ConsumeOrderedByDependency Excluded LastUse TotalOrderByExchange
CHECK_DEADLOCK FALSE
