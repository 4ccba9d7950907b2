----------------------------- MODULE MCUserData ------------------------------
EXTENDS UserData

Member(k, s, ok) == [kind |-> k, size |-> s, sound |-> ok]

\* A voice with a shard of an optimiser, one whose model is no checkpoint, one
\* without a model, and one with two samples.
MCArchives == {
  <<Member("model", 1, FALSE), Member("model", 2, TRUE), Member("index", 1, TRUE)>>,
  <<Member("model", 2, FALSE), Member("profile", 1, TRUE)>>,
  <<Member("index", 1, TRUE), Member("sample", 1, TRUE)>>,
  <<Member("sample", 1, TRUE), Member("sample", 2, TRUE), Member("model", 1, TRUE)>>}

\* A quality nobody knows; a theme; a folder with a Hebrew name.
MCWishes == {[quality |-> "best", theme |-> "dark"], [quality |-> "max", theme |-> "dark", target_lufs |-> -9],
             [output_dir |-> "hebrew"]}
==============================================================================
