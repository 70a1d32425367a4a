CONSTANT Cpu = {c1, c2}
SPECIFICATION SpinSpec
INVARIANT MutualExclusion
