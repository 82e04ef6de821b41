-------------------------- MODULE MCJsonSettingsStore --------------------------
(* An instance of JsonSettingsStore for TLC.                               *)
EXTENDS JsonSettingsStore, TLC

CONSTANTS a, b, m1, m2, m3

Interchangeable == Permutations({m1, m2, m3}) \cup Permutations({a, b})

===============================================================================
