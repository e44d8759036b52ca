---------------------------- MODULE MCCacheShard ----------------------------
(* Small instances of CacheShard for TLC.                                  *)
EXTENDS CacheShard, TLC

CONSTANTS k1, k2, k3, Txt

\* three keys in one shard, two of them numeric-capable values and a text
MCKeys == {k1, k2, k3}
MCValues == {0, 1, Txt}
MCTexts == {Txt}

\* a shard with room for two items, so that the third insert evicts
MCCap == 2

\* thresholds scaled down from 5 and 3600 s so that both branches of the
\* LFRU scan happen within MaxTime
MCFrequencyThreshold == 2
MCTimeThreshold == 1

\* a zero per-shard cap: max_size / shard_count when max_entries is below
\* the power-of-two shard count
ZeroCap == 0

=============================================================================
