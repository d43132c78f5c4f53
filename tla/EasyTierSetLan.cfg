SPECIFICATION Spec
CONSTANT Codes = {r1, r2}
INVARIANT HostServes
