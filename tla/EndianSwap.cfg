\* ALIGNMENT as in the test: 8 x 8 offset pairs for each of the three TESTs.
\* The run ends after the last TEST.
CONSTANT Alignment = 8
SPECIFICATION Spec
INVARIANT AlignTestPasses
CHECK_DEADLOCK FALSE
