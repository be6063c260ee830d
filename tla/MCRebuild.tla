----------------------------- MODULE MCRebuild -----------------------------
\* Two operations, two runner processes and a replay of two batches.
EXTENDS RebuildCutover, TLC

MCLink == [hash: 0..MaxVersion \cup {None}, source: Generation \cup {None},
           target: Operation \cup {None}]

\* Operations, runner processes and idempotency keys are interchangeable.
Symmetry == Permutations(Operation) \cup Permutations(Runner) \cup Permutations(Key)

\* The only failure is an interrupt (SIGTERM) that the runner finds before it
\* verifies the staged generation.
OnlyInterrupted ==
    /\ Fail => At("verify")
    /\ ~\E r \in Runner, o \in Operation : LaunchRefused(r, o)
=============================================================================
