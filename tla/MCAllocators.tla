---------------------------- MODULE MCAllocators ----------------------------
\* The four allocators with the constants as their modules assume them.
EXTENDS Allocators

ASSUME AllAssumption

=============================================================================
