--------------------------- MODULE MCRolloutStep ---------------------------
EXTENDS RolloutStep

\* Rows of a synchronous job run one in each of two engines; the agent loops of an
\* asynchronous one run in one worker.
EnginesAndWorkers == {[r \in Requests |-> IF r = "r1" THEN "s1" ELSE "s2"],
                      [r \in Requests |-> "w1"]}

\* Both tools for one row, the sandbox for the other
SomeTools  == [r \in Requests |-> IF r = "r1" THEN {"sandbox", "search"} ELSE {"sandbox"}]
OneThread  == [t \in Tools |-> 1]
TwoLimits  == [t \in Tools |-> IF t = "sandbox" THEN 1 ELSE 2]
TwoPrompts == [r \in Requests |-> IF r = "r1" THEN 1 ELSE 3]
SomeLengths == [ts \in (SUBSET Tools) \ {{}} |->
                  (IF "sandbox" \in ts THEN 1 ELSE 0) + (IF "search" \in ts THEN 2 ELSE 0)]

Job(mode, strategy, backend, frees, staged) ==
  [mode |-> mode, strategy |-> strategy, backend |-> backend, free_cache |-> frees,
   multi_stage |-> staged, offload |-> TRUE]

\* The rollout in the ranks, which frees its memory or keeps it, and asynchronous servers
SomeJobs == {Job("sync", "fsdp", "sglang", TRUE, TRUE),
             Job("sync", "fsdp", "sglang", FALSE, FALSE),
             Job("sync", "megatron", "sglang", TRUE, FALSE),
             Job("async", "megatron", "vllm", TRUE, FALSE)}

\* Asynchronous servers that keep their memory between rollouts
KeepingJob == {Job("async", "fsdp", "vllm", FALSE, FALSE)}
=============================================================================
