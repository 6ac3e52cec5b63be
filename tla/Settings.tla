------------------------------ MODULE Settings ------------------------------
(***************************************************************************)
(* services/settings.ts: key/value rows behind a per-process cache.  A      *)
(* cache entry is <<>> (absent or past its TTL) or <<value>>.               *)
(***************************************************************************)
EXTENDS Sequences

\* getSetting: the cached value while its TTL lasts, the row otherwise.
getSetting(row, cached) == IF cached = <<>> THEN row ELSE Head(cached)

\* setSetting upserts the whole value; the writer's cache holds it from then on.
setSettingCache(value) == <<value>>
=============================================================================
