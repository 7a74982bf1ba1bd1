SPECIFICATION Spec
CONSTANT Tested = {"ppc", "alpha", "arm", "linux_arm"}
INVARIANT TotalOrder
CHECK_DEADLOCK FALSE
