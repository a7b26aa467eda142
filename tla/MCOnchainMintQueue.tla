------------------------- MODULE MCOnchainMintQueue -------------------------
EXTENDS OnchainMintQueue

CONSTANTS
  s1, s2, e1, e2, w1, w2,
  RetryBase,     \* ONCHAIN_MINT_RETRY_POLICY.baseDelayMs, in clock ticks
  RetryMax       \* ONCHAIN_MINT_RETRY_POLICY.maxDelayMs, in clock ticks

\* retryDelayMs: the delay doubles with every attempt up to the maximum.
RetryDelay(attempt) == Min({RetryMax, RetryBase * 2 ^ Max({0, attempt - 1})})

ExponentialBackoff == [attempt \in 1 .. MaxAttempts |-> RetryDelay(attempt)]

OneSubmission == {s1}
TwoSubmissions == {s1, s2}
OneEnqueuer == {e1}
TwoEnqueuers == {e1, e2}
OneWorker == {w1}
TwoWorkers == {w1, w2}

\* Handlers of a kind are interchangeable.
HandlerSymmetry == Permutations(TwoEnqueuers) \cup Permutations(TwoWorkers)
=============================================================================
